------------------------- MODULE LlamaGatewayProofs -------------------------
(***************************************************************************)
(* Theorems about LlamaGateway, for every text the model may answer and    *)
(* every way the server may cut it: what the stream filter hides and what  *)
(* it lets through, and what the reader of a stream may take for complete. *)
(***************************************************************************)
EXTENDS LlamaGateway, FiniteSetTheorems, SequenceTheorems, WellFoundedInduction, TLAPS

-----------------------------------------------------------------------------
(* Induction, for sets, and functions that are defined by recursion         *)

(* A set of numbers that is not empty has a least one.                      *)
LEMMA Least ==
  ASSUME NEW S \in SUBSET Nat, S # {}
  PROVE  \E m \in S : \A k \in S : m <= k
<1>1. PICK m \in S : \A k \in S : <<k, m>> \notin OpToRel(<, Nat)
  BY NatLessThanWellFounded, WFMin
<1>2. ASSUME NEW k \in S PROVE m <= k
  <2>1. m \in Nat /\ k \in Nat
    OBVIOUS
  <2>2. ~(k < m)
    <3> SUFFICES ASSUME k < m PROVE <<k, m>> \in OpToRel(<, Nat)
      BY <1>1
    <3>1. <<k, m>> \in Nat \X Nat /\ <<k, m>>[1] < <<k, m>>[2]
      BY <2>1
    <3>2. QED
      BY <3>1 DEF OpToRel
  <2>3. QED
    BY <2>1, <2>2
<1>3. QED
  BY <1>2

LEMMA Greatest ==
  ASSUME NEW n \in Nat, NEW S \in SUBSET (0..n), S # {}
  PROVE  \E m \in S : \A k \in S : k <= m
<1> DEFINE T == {n - k : k \in S}
<1>1. T \in SUBSET Nat /\ T # {}
  <2>1. \A k \in S : n - k \in Nat
    OBVIOUS
  <2>2. QED
    BY <2>1
<1>2. PICK t \in T : \A u \in T : t <= u
  BY <1>1, Least
<1>3. PICK m \in S : t = n - m
  OBVIOUS
<1>4. ASSUME NEW k \in S PROVE k <= m
  <2>1. n - k \in T /\ k \in 0..n /\ m \in 0..n
    OBVIOUS
  <2>2. n - m <= n - k
    BY <1>2, <1>3, <2>1
  <2>3. QED
    BY <2>1, <2>2
<1>5. QED
  BY <1>4

(* What is true of 0 and of the successor of a number it is true of.        *)
LEMMA Inductive ==
  ASSUME NEW S, 0 \in S, \A n \in Nat : n \in S => n + 1 \in S
  PROVE  Nat \subseteq S
<1> SUFFICES ASSUME Nat \ S # {} PROVE FALSE
  OBVIOUS
<1>1. PICK m \in Nat \ S : \A k \in Nat \ S : m <= k
  BY Least
<1>2. m # 0 /\ m - 1 \in Nat /\ m - 1 \in S
  <2>1. m # 0 /\ m - 1 \in Nat
    OBVIOUS
  <2>2. QED
    BY <1>1, <2>1
<1>3. (m - 1) + 1 \in S
  BY <1>2
<1>4. QED
  BY <1>3

(* A step that looks up only what has a smaller rank defines a function.    *)
Ranked(D, V, n, rank, step) ==
  /\ V # {} /\ n \in Nat /\ rank \in [D -> 0..n] /\ step \in [D -> [[D -> V] -> V]]
  /\ \A x \in D, f, g \in [D -> V] :
       (\A y \in D : rank[y] < rank[x] => f[y] = g[y]) => step[x][f] = step[x][g]

LEMMA Recursion ==
  ASSUME NEW D, NEW V, NEW n, NEW rank, NEW step, Ranked(D, V, n, rank, step)
  PROVE  \E f \in [D -> V] : \A x \in D : f[x] = step[x][f]
<1>0. /\ n \in Nat /\ rank \in [D -> 0..n] /\ step \in [D -> [[D -> V] -> V]]
      /\ \A x \in D, f, g \in [D -> V] :
           (\A y \in D : rank[y] < rank[x] => f[y] = g[y]) => step[x][f] = step[x][g]
  BY DEF Ranked
<1>v. PICK v : v \in V
  BY DEF Ranked
<1> DEFINE Upto(m) == \E f \in [D -> V] : \A x \in D : rank[x] < m => f[x] = step[x][f]
           S == {m \in Nat : Upto(m)}
<1>1. 0 \in S
  <2>1. [x \in D |-> v] \in [D -> V]
    BY <1>v
  <2>2. \A x \in D : ~(rank[x] < 0)
    BY <1>0
  <2>3. QED
    BY <2>1, <2>2
<1>2. ASSUME NEW m \in Nat, m \in S PROVE m + 1 \in S
  <2>1. PICK f \in [D -> V] : \A x \in D : rank[x] < m => f[x] = step[x][f]
    BY <1>2
  <2> DEFINE g == [x \in D |-> IF rank[x] = m THEN step[x][f] ELSE f[x]]
  <2>2. g \in [D -> V]
    BY <1>0
  <2>3. \A y \in D : rank[y] < m => g[y] = f[y]
    BY <1>0
  <2>4. ASSUME NEW x \in D, rank[x] < m + 1 PROVE g[x] = step[x][g]
    <3>1. ASSUME NEW y \in D, rank[y] < rank[x] PROVE f[y] = g[y]
      <4>1. PICK j, k \in 0..n : j = rank[y] /\ k = rank[x]
        BY <1>0
      <4>2. j < k /\ k < m + 1
        BY <2>4, <3>1, <4>1
      <4>3. j < m
        BY <4>2
      <4>4. QED
        BY <2>3, <4>1, <4>3
    <3>2. step[x][f] = step[x][g]
      BY <1>0, <2>2, <3>1
    <3>3. g[x] = step[x][f]
      <4>1. PICK k \in 0..n : k = rank[x]
        BY <1>0
      <4>2. k < m + 1
        BY <2>4, <4>1
      <4>3. k = m \/ k < m
        BY <4>2
      <4>4. QED
        BY <2>1, <4>1, <4>3
    <3>4. QED
      BY <3>2, <3>3
  <2> HIDE DEF g
  <2>5. Upto(m + 1)
    BY <2>2, <2>4
  <2>6. QED
    BY <2>5
<1> HIDE DEF S
<1>3. n + 1 \in S
  BY <1>0, <1>1, <1>2, Inductive
<1>4. Upto(n + 1)
  BY <1>3 DEF S
<1>5. \A x \in D : rank[x] < n + 1
  BY <1>0
<1>6. QED
  BY <1>4, <1>5

-----------------------------------------------------------------------------
(* The tags of a text: `said` is what the model answered                    *)

(* The characters of texts and tags.                                        *)
Chars == STRING \cup {"<", "t", "/", ">"}

(* The tag begins at q.                                                     *)
At(said, tag, q) ==
  /\ q >= 1 /\ q + 2 <= Len(said)
  /\ said[q] = tag[1] /\ said[q + 1] = tag[2] /\ said[q + 2] = tag[3]

LEMMA TagIs ==
  ASSUME NEW tag \in {Open, Close}
  PROVE  /\ tag \in Seq(Chars) /\ Len(tag) = 3
         /\ tag[1] = "<" /\ tag[2] \in {"t", "/"} /\ tag[3] = ">"
         /\ \A i \in 1..3 : tag[i] \in Chars
<1>1. Open \in Seq(Chars) /\ Len(Open) = 3
  BY DEF Open, Chars
<1>2. Close \in Seq(Chars) /\ Len(Close) = 3
  BY DEF Close, Chars
<1>3. tag \in Seq(Chars) /\ Len(tag) = 3
  BY <1>1, <1>2
<1>4. tag[1] = "<" /\ tag[2] \in {"t", "/"} /\ tag[3] = ">"
  BY DEF Open, Close
<1>5. \A i \in 1..3 : tag[i] \in Chars
  BY <1>3, ElementOfSeq
<1>6. QED
  BY <1>3, <1>4, <1>5

LEMMA TagAt ==
  ASSUME NEW said \in Seq(Chars), NEW tag \in {Open, Close}, NEW q \in Nat,
         1 <= q, q + 2 <= Len(said)
  PROVE  SubSeq(said, q, q + 2) = tag <=> At(said, tag, q)
<1> DEFINE s == SubSeq(said, q, q + 2)
<1>1. tag \in Seq(Chars) /\ Len(tag) = 3
  BY TagIs
<1>2. q \in Int /\ q + 2 \in Int /\ \A i \in q..(q + 2) : said[i] \in Chars
  BY LenProperties
<1>3. /\ s \in Seq(Chars) /\ Len(s) = IF q <= q + 2 THEN q + 2 - q + 1 ELSE 0
      /\ \A i \in 1..(q + 2 - q + 1) : s[i] = said[q + i - 1]
  BY <1>2, SubSeqProperties
<1>4. Len(s) = 3 /\ s[1] = said[q] /\ s[2] = said[q + 1] /\ s[3] = said[q + 2]
  BY <1>3
<1> HIDE DEF s
<1>5. s = tag <=> s[1] = tag[1] /\ s[2] = tag[2] /\ s[3] = tag[3]
  <2> SUFFICES ASSUME s[1] = tag[1], s[2] = tag[2], s[3] = tag[3] PROVE s = tag
    OBVIOUS
  <2>1. \A i \in 1..3 : i = 1 \/ i = 2 \/ i = 3
    OBVIOUS
  <2>2. \A i \in 1..3 : s[i] = tag[i]
    BY <2>1
  <2>3. QED
    BY <1>1, <1>3, <1>4, <2>2, SeqEqual
<1>6. QED
  BY <1>4, <1>5 DEF At, s

LEMMA TagEnds ==
  ASSUME NEW said \in Seq(Chars), NEW tag \in {Open, Close}, NEW p \in 1..Len(said)
  PROVE  EndsTag(said, tag, p) <=> p - 2 >= 1 /\ At(said, tag, p - 2)
<1>1. CASE p >= 3
  <2>1. p - 2 \in Nat /\ 1 <= p - 2 /\ (p - 2) + 2 <= Len(said) /\ (p - 2) + 2 = p
        /\ p + 1 - 3 = p - 2
    BY <1>1, LenProperties
  <2>2. SubSeq(said, p - 2, p) = tag <=> At(said, tag, p - 2)
    BY <2>1, TagAt
  <2>3. QED
    BY <1>1, <2>1, <2>2 DEF EndsTag, TagLen
<1>2. CASE p < 3
  BY <1>2 DEF EndsTag, TagLen
<1>3. QED
  BY <1>1, <1>2

(* No tag begins within a tag.                                              *)
LEMMA TagsApart ==
  ASSUME NEW said \in Seq(Chars), NEW tag \in {Open, Close}, NEW other \in {Open, Close},
         NEW q \in Nat, At(said, tag, q), NEW r \in {q + 1, q + 2}
  PROVE  ~At(said, other, r)
<1>1. other[1] = "<" /\ tag[2] # "<" /\ tag[3] # "<"
  BY DEF Open, Close
<1>2. QED
  BY <1>1 DEF At

LEMMA FindIs ==
  ASSUME NEW said \in Seq(Chars), NEW tag \in {Open, Close},
         NEW lo \in Nat, 1 <= lo, NEW hi \in Nat, hi <= Len(said)
  PROVE  LET i == Find(said, tag, lo, hi)
         IN  \/ i = 0 /\ \A q \in Nat : lo <= q /\ q + 2 <= hi => ~At(said, tag, q)
             \/ /\ i \in Nat /\ lo <= i /\ i + 2 <= hi /\ At(said, tag, i)
                /\ \A q \in Nat : lo <= q /\ q < i => ~At(said, tag, q)
<1> DEFINE found == {i \in lo..hi : i + TagLen <= hi + 1 /\ SubSeq(said, i, i + TagLen - 1) = tag}
<1>0. Len(said) \in Nat
  BY LenProperties
<1>1. \A q \in Nat : q \in found <=> lo <= q /\ q + 2 <= hi /\ At(said, tag, q)
  <2> SUFFICES ASSUME NEW q \in Nat
               PROVE  q \in found <=> lo <= q /\ q + 2 <= hi /\ At(said, tag, q)
    OBVIOUS
  <2>1. q + 3 - 1 = q + 2 /\ (q + 3 <= hi + 1 <=> q + 2 <= hi)
    OBVIOUS
  <2>2. CASE lo <= q /\ q + 2 <= hi
    <3>1. 1 <= q /\ q + 2 <= Len(said) /\ q \in lo..hi
      BY <1>0, <2>2
    <3>2. QED
      BY <2>1, <2>2, <3>1, TagAt DEF TagLen
  <2>3. CASE ~(lo <= q /\ q + 2 <= hi)
    BY <2>1, <2>3 DEF TagLen
  <2>4. QED
    BY <2>2, <2>3
<1>2. found \in SUBSET Nat
  OBVIOUS
<1>3. Find(said, tag, lo, hi) = IF found = {} THEN 0 ELSE Min(found)
  BY DEF Find
<1> HIDE DEF found
<1>4. CASE found = {}
  BY <1>1, <1>3, <1>4
<1>5. CASE found # {}
  <2>1. \E m \in found : \A k \in found : m <= k
    BY <1>2, <1>5, Least
  <2>2. Min(found) \in found /\ \A k \in found : Min(found) <= k
    BY <2>1 DEF Min
  <2>3. PICK i \in found : i = Min(found) /\ \A k \in found : i <= k
    BY <2>2
  <2>4. i \in Nat /\ Find(said, tag, lo, hi) = i
    BY <1>2, <1>3, <1>5, <2>3
  <2>5. lo <= i /\ i + 2 <= hi /\ At(said, tag, i)
    BY <1>1, <2>3, <2>4
  <2>6. ASSUME NEW q \in Nat, lo <= q, q < i PROVE ~At(said, tag, q)
    <3>1. q \notin found
      BY <2>3, <2>4, <2>6
    <3>2. q + 2 <= hi
      BY <2>4, <2>5, <2>6
    <3>3. QED
      BY <1>1, <2>6, <3>1, <3>2
  <2>7. QED
    BY <2>4, <2>5, <2>6
<1>6. QED
  BY <1>4, <1>5

(* A tag that begins in what was read and ends after it begins in what is   *)
(* held back.                                                               *)
LEMMA OverlapIs ==
  ASSUME NEW said \in Seq(Chars), NEW tag \in {Open, Close},
         NEW lo \in Nat, 1 <= lo, NEW hi \in Nat, hi <= Len(said), lo <= hi + 1
  PROVE  LET n == OverlapSuffix(said, tag, lo, hi)
         IN  /\ n \in 0..2 /\ lo + n <= hi + 1
             /\ \A q \in Nat : lo <= q /\ q <= hi /\ hi < q + 2 /\ At(said, tag, q) => hi + 1 - n <= q
<1> DEFINE fits == {n \in 1..(TagLen - 1) : /\ lo + n <= hi + 1
                                            /\ SubSeq(said, hi + 1 - n, hi) = SubSeq(tag, 1, n)}
           S == {0} \cup fits
<1>0. Len(said) \in Nat /\ TagLen - 1 = 2 /\ 2 \in Nat
  BY LenProperties DEF TagLen
<1>1. OverlapSuffix(said, tag, lo, hi) = Max(S)
  BY DEF OverlapSuffix
<1>2. S \in SUBSET (0..2) /\ S # {}
  BY <1>0
<1>3. \A n \in S : lo + n <= hi + 1
  OBVIOUS
<1>4. ASSUME NEW q \in Nat, lo <= q, q <= hi, hi < q + 2, At(said, tag, q)
      PROVE  hi + 1 - q \in S
  <2> DEFINE n == hi + 1 - q
             s == SubSeq(said, q, hi)
             t == SubSeq(tag, 1, n)
  <2>1. n \in 1..2 /\ hi + 1 - n = q /\ lo + n <= hi + 1 /\ hi = q + n - 1 /\ q \in Int /\ hi \in Int
        /\ 1 \in Int /\ n \in Int
    BY <1>4
  <2>2. tag \in Seq(Chars) /\ Len(tag) = 3 /\ \A i \in 1..n : tag[i] \in Chars
    <3>1. tag \in Seq(Chars) /\ Len(tag) = 3 /\ \A i \in 1..3 : tag[i] \in Chars
      BY TagIs
    <3>2. \A i \in 1..n : i \in 1..3
      BY <2>1
    <3>3. QED
      BY <3>1, <3>2
  <2>3. \A i \in q..hi : said[i] \in Chars
    BY <1>4, LenProperties
  <2> HIDE DEF n
  <2>4. /\ s \in Seq(Chars) /\ Len(s) = IF q <= hi THEN hi - q + 1 ELSE 0
        /\ \A i \in 1..(hi - q + 1) : s[i] = said[q + i - 1]
    BY <2>1, <2>3, SubSeqProperties
  <2>5. /\ t \in Seq(Chars) /\ Len(t) = IF 1 <= n THEN n - 1 + 1 ELSE 0
        /\ \A i \in 1..(n - 1 + 1) : t[i] = tag[1 + i - 1]
    BY <2>1, <2>2, SubSeqProperties
  <2>6. Len(s) = n /\ Len(t) = n /\ hi - q + 1 = n /\ n - 1 + 1 = n
    BY <2>1, <2>4, <2>5
  <2>7. \A i \in 1..n : said[q + i - 1] = tag[1 + i - 1]
    <3>1. said[q + 1 - 1] = tag[1 + 1 - 1] /\ said[q + 2 - 1] = tag[1 + 2 - 1]
      BY <1>4 DEF At
    <3>2. \A i \in 1..n : i = 1 \/ i = 2
      BY <2>1
    <3>3. QED
      BY <3>1, <3>2
  <2>8. \A i \in 1..Len(s) : s[i] = t[i]
    BY <2>4, <2>5, <2>6, <2>7
  <2>9. s = t
    BY <2>4, <2>5, <2>6, <2>8, SeqEqual
  <2>10. n \in S
    BY <1>0, <2>1, <2>9
  <2>11. QED
    BY <2>10 DEF n
<1> HIDE DEF S
<1>5. \E m \in S : \A k \in S : k <= m
  BY <1>0, <1>2, Greatest
<1>6. Max(S) \in S /\ \A k \in S : k <= Max(S)
  <2>1. \E m \in S : \A k \in S : m >= k
    BY <1>2, <1>5
  <2>2. Max(S) \in S /\ \A k \in S : Max(S) >= k
    BY <2>1 DEF Max
  <2>3. QED
    BY <1>2, <2>2
<1>7. PICK m \in 0..2 : m = OverlapSuffix(said, tag, lo, hi) /\ m \in S /\ \A k \in S : k <= m
  BY <1>1, <1>2, <1>6
<1>8. lo + m <= hi + 1
  BY <1>3, <1>7
<1>9. ASSUME NEW q \in Nat, lo <= q, q <= hi, hi < q + 2, At(said, tag, q) PROVE hi + 1 - m <= q
  <2>1. hi + 1 - q <= m
    BY <1>4, <1>7, <1>9
  <2>2. QED
    BY <2>1
<1>10. QED
  BY <1>7, <1>8, <1>9

-----------------------------------------------------------------------------
(* What a text hides                                                        *)

LEMMA InBlockIs ==
  ASSUME NEW said \in Seq(Chars)
  PROVE  /\ InBlock(said) \in [1..(Len(said) + 1) -> BOOLEAN]
         /\ InBlock(said)[1] = FALSE
         /\ \A p \in 1..Len(said) :
              InBlock(said)[p + 1] = IF InBlock(said)[p] THEN ~EndsTag(said, Close, p)
                                                         ELSE EndsTag(said, Open, p)
<1> DEFINE D == 1..(Len(said) + 1)
           Body(f, p) ==
             IF p = 1 THEN FALSE
             ELSE IF f[p - 1] THEN ~EndsTag(said, Close, p - 1) ELSE EndsTag(said, Open, p - 1)
           step == [p \in D |-> [f \in [D -> BOOLEAN] |-> Body(f, p)]]
           rank == [p \in D |-> p]
           P(g) == g = [p \in D |-> Body(g, p)]
<1>0. Len(said) \in Nat /\ Len(said) + 1 \in Nat
  BY LenProperties
<1>1. ASSUME NEW p \in D, NEW f \in [D -> BOOLEAN] PROVE Body(f, p) \in BOOLEAN
  <2>1. CASE p = 1
    BY <2>1
  <2>2. CASE p > 1
    <3>1. p - 1 \in D
      BY <1>0, <2>2
    <3>2. f[p - 1] \in BOOLEAN
      BY <3>1
    <3>3. EndsTag(said, Close, p - 1) \in BOOLEAN /\ EndsTag(said, Open, p - 1) \in BOOLEAN
      BY DEF EndsTag
    <3>4. CASE f[p - 1]
      BY <2>2, <3>3, <3>4
    <3>5. CASE ~f[p - 1]
      BY <2>2, <3>3, <3>5
    <3>6. QED
      BY <3>4, <3>5
  <2>3. p = 1 \/ p > 1
    BY <1>0
  <2> HIDE DEF Body
  <2>4. QED
    BY <2>1, <2>2, <2>3
<1>2. ASSUME NEW p \in D, NEW f \in [D -> BOOLEAN], NEW g \in [D -> BOOLEAN],
             \A q \in D : rank[q] < rank[p] => f[q] = g[q]
      PROVE  Body(f, p) = Body(g, p)
  <2>1. CASE p = 1
    BY <2>1
  <2>2. CASE p > 1
    <3>1. p - 1 \in D /\ rank[p - 1] < rank[p]
      BY <1>0, <2>2
    <3>2. f[p - 1] = g[p - 1]
      BY <1>2, <3>1
    <3>3. QED
      BY <3>2
  <2>3. p = 1 \/ p > 1
    BY <1>0
  <2> HIDE DEF Body
  <2>4. QED
    BY <2>1, <2>2, <2>3
<1>3. rank \in [D -> 0..(Len(said) + 1)]
  BY <1>0
<1>4. step \in [D -> [[D -> BOOLEAN] -> BOOLEAN]]
  BY <1>1
<1>5. \A p \in D, f, g \in [D -> BOOLEAN] :
        (\A q \in D : rank[q] < rank[p] => f[q] = g[q]) => step[p][f] = step[p][g]
  <2> SUFFICES ASSUME NEW p \in D, NEW f \in [D -> BOOLEAN], NEW g \in [D -> BOOLEAN],
                      \A q \in D : rank[q] < rank[p] => f[q] = g[q]
               PROVE  step[p][f] = step[p][g]
    OBVIOUS
  <2>1. Body(f, p) = Body(g, p)
    BY <1>2
  <2> HIDE DEF Body
  <2>2. QED
    BY <2>1
<1>6. InBlock(said) = CHOOSE g : P(g)
  BY DEF InBlock
<1> HIDE DEF Body
<1>7. \A p \in D, f \in [D -> BOOLEAN] : step[p][f] = Body(f, p)
  OBVIOUS
<1> HIDE DEF step, rank
<1>8. PICK h \in [D -> BOOLEAN] : \A p \in D : h[p] = step[p][h]
  <2>1. Ranked(D, BOOLEAN, Len(said) + 1, rank, step)
    BY <1>0, <1>3, <1>4, <1>5 DEF Ranked
  <2> HIDE DEF D
  <2>2. QED
    BY <2>1, Recursion
<1>9. P(h)
  BY <1>7, <1>8
<1>10. P(InBlock(said))
  <2> HIDE DEF P
  <2>1. QED
    BY <1>6, <1>9
<1> DEFINE in == InBlock(said)
<1>11. \A p \in D : in[p] = Body(in, p)
  BY <1>10
<1>12. ASSUME NEW p \in 1..Len(said)
       PROVE  in[p + 1] = IF in[p] THEN ~EndsTag(said, Close, p) ELSE EndsTag(said, Open, p)
  <2>1. p + 1 \in D /\ p + 1 > 1 /\ p + 1 - 1 = p /\ p + 1 # 1
    BY <1>0
  <2>2. in[p + 1] = Body(in, p + 1)
    BY <1>11, <2>1
  <2>3. QED
    BY <2>1, <2>2 DEF Body
<1>13. in[1] = FALSE
  <2>1. 1 \in D
    BY <1>0
  <2>2. in[1] = Body(in, 1)
    BY <1>11, <2>1
  <2>3. QED
    BY <2>2 DEF Body
<1>14. in \in [D -> BOOLEAN]
  <2> DEFINE S == {k \in Nat : k + 1 \in D => in[k + 1] \in BOOLEAN}
  <2>1. 0 \in S
    <3>1. in[0 + 1] = FALSE
      BY <1>13
    <3>2. QED
      BY <3>1
  <2>2. ASSUME NEW k \in Nat, k \in S PROVE k + 1 \in S
    <3> SUFFICES ASSUME k + 1 + 1 \in D PROVE in[k + 1 + 1] \in BOOLEAN
      OBVIOUS
    <3>1. k + 1 \in 1..Len(said)
      BY <1>0
    <3>2. EndsTag(said, Close, k + 1) \in BOOLEAN /\ EndsTag(said, Open, k + 1) \in BOOLEAN
      BY DEF EndsTag
    <3>3. QED
      BY <1>12, <3>1, <3>2
  <2>3. Nat \subseteq S
    <3> HIDE DEF S
    <3>1. QED
      BY <2>1, <2>2, Inductive
  <2>4. ASSUME NEW p \in D PROVE in[p] \in BOOLEAN
    <3>1. p - 1 \in Nat /\ p - 1 + 1 = p
      BY <1>0
    <3>2. QED
      BY <2>3, <3>1
  <2>5. DOMAIN in = D /\ in = [p \in D |-> in[p]]
    BY <1>10
  <2>6. QED
    BY <2>4, <2>5
<1>15. QED
  BY <1>12, <1>13, <1>14

(* The tag that ends what is at hand: a block, or what is outside of one.   *)
Awaited(inside) == IF inside THEN Close ELSE Open

(* A filter that goes on at b knows whether it is in a block, and no tag    *)
(* it awaits began before b and is still to end.                            *)
Ready(said, b, inside) ==
  /\ b \in Nat /\ 1 <= b /\ b <= Len(said) + 1 /\ inside \in BOOLEAN
  /\ InBlock(said)[b] = inside
  /\ \A q \in Nat : q < b /\ b <= q + 2 => ~At(said, Awaited(inside), q)

LEMMA ReadyAtFirst == ASSUME NEW said \in Seq(Chars) PROVE Ready(said, 1, FALSE)
<1>1. Len(said) \in Nat /\ InBlock(said)[1] = FALSE
  BY LenProperties, InBlockIs
<1>2. \A q \in Nat, tag \in {Open, Close} : q < 1 => ~At(said, tag, q)
  BY DEF At
<1>3. \A q \in Nat : q < 1 => ~At(said, Awaited(FALSE), q)
  BY <1>2 DEF Awaited
<1>4. 1 \in Nat /\ 1 <= 1 /\ 1 <= Len(said) + 1
  BY <1>1
<1>5. QED
  BY <1>1, <1>3, <1>4, Zenon DEF Ready

(* Until a tag that is awaited ends, nothing changes.                       *)
LEMMA Steady ==
  ASSUME NEW said \in Seq(Chars), NEW i, NEW inside, Ready(said, i, inside),
         NEW j \in Nat, i <= j, j <= Len(said) + 1,
         \A q \in Nat : i <= q /\ q + 2 < j => ~At(said, Awaited(inside), q)
  PROVE  \A p \in Nat : i <= p /\ p <= j => InBlock(said)[p] = inside
<1> DEFINE in == InBlock(said)
           S == {d \in Nat : i + d <= j => in[i + d] = inside}
<1>0. /\ i \in Nat /\ 1 <= i /\ inside \in BOOLEAN /\ in[i] = inside /\ Len(said) \in Nat
      /\ \A q \in Nat : q < i /\ i <= q + 2 => ~At(said, Awaited(inside), q)
  BY LenProperties DEF Ready
<1>1. 0 \in S
  BY <1>0
<1>2. ASSUME NEW d \in Nat, d \in S PROVE d + 1 \in S
  <2> SUFFICES ASSUME i + (d + 1) <= j PROVE in[i + (d + 1)] = inside
    OBVIOUS
  <2> DEFINE p == i + d
  <2>1. p \in 1..Len(said) /\ i + (d + 1) = p + 1 /\ p <= j /\ p \in Nat /\ p < j
    BY <1>0
  <2>2. in[p] = inside
    BY <1>2, <2>1
  <2>3. ~EndsTag(said, Awaited(inside), p)
    <3> SUFFICES ASSUME p - 2 >= 1, At(said, Awaited(inside), p - 2) PROVE FALSE
      BY <2>1, TagEnds DEF Awaited
    <3>1. p - 2 \in Nat /\ (p - 2) + 2 = p
      BY <2>1
    <3>2. CASE i <= p - 2
      BY <2>1, <3>1, <3>2
    <3>3. CASE p - 2 < i
      BY <1>0, <2>1, <3>1, <3>3
    <3>4. QED
      BY <1>0, <3>1, <3>2, <3>3
  <2> HIDE DEF p
  <2>4. in[p + 1] = IF in[p] THEN ~EndsTag(said, Close, p) ELSE EndsTag(said, Open, p)
    BY <2>1, InBlockIs
  <2>5. in[p + 1] = inside
    <3>1. CASE inside = TRUE
      <4>1. ~EndsTag(said, Close, p)
        BY <2>3, <3>1 DEF Awaited
      <4>2. QED
        BY <2>2, <2>4, <3>1, <4>1
    <3>2. CASE inside = FALSE
      <4>1. EndsTag(said, Open, p) = FALSE
        BY <2>3, <3>2 DEF Awaited, EndsTag
      <4>2. QED
        BY <2>2, <2>4, <3>2, <4>1
    <3>3. QED
      BY <1>0, <3>1, <3>2
  <2>6. QED
    BY <2>1, <2>5
<1>3. Nat \subseteq S
  <2> HIDE DEF S
  <2>1. QED
    BY <1>1, <1>2, Inductive
<1>4. ASSUME NEW p \in Nat, i <= p, p <= j PROVE in[p] = inside
  <2>1. p - i \in Nat /\ i + (p - i) = p
    BY <1>0, <1>4
  <2>2. QED
    BY <1>3, <1>4, <2>1
<1>5. QED
  BY <1>4

(* Past the tag it awaits, the filter awaits the other one.                 *)
LEMMA PastTag ==
  ASSUME NEW said \in Seq(Chars), NEW i, NEW inside, Ready(said, i, inside),
         NEW o \in Nat, i <= o, At(said, Awaited(inside), o),
         \A q \in Nat : i <= q /\ q < o => ~At(said, Awaited(inside), q)
  PROVE  /\ Ready(said, o + 3, ~inside)
         /\ \A p \in Nat : i <= p /\ p <= o + 2 => InBlock(said)[p] = inside
         /\ EndsTag(said, Awaited(inside), o + 2)
<1>0. /\ i \in Nat /\ 1 <= i /\ inside \in BOOLEAN /\ Len(said) \in Nat
      /\ o + 2 <= Len(said) /\ o + 2 \in 1..Len(said) /\ o + 2 + 1 = o + 3 /\ (o + 2) - 2 = o
      /\ o + 2 - 2 >= 1
  BY LenProperties DEF Ready, At
<1>1. \A p \in Nat : i <= p /\ p <= o + 2 => InBlock(said)[p] = inside
  <2>1. i <= o + 2 /\ o + 2 <= Len(said) + 1 /\ o + 2 \in Nat
    BY <1>0
  <2>2. \A q \in Nat : i <= q /\ q + 2 < o + 2 => ~At(said, Awaited(inside), q)
    BY <1>0
  <2>3. QED
    BY <2>1, <2>2, Steady
<1>2. EndsTag(said, Awaited(inside), o + 2)
  BY <1>0, TagEnds DEF Awaited
<1>3. InBlock(said)[o + 2] = inside
  BY <1>0, <1>1
<1>4. InBlock(said)[o + 2 + 1] = IF InBlock(said)[o + 2] THEN ~EndsTag(said, Close, o + 2)
                                                       ELSE EndsTag(said, Open, o + 2)
  BY <1>0, InBlockIs
<1>5. InBlock(said)[o + 3] = ~inside
  <2>1. CASE inside = TRUE
    BY <1>0, <1>2, <1>3, <1>4, <2>1 DEF Awaited
  <2>2. CASE inside = FALSE
    <3>1. EndsTag(said, Open, o + 2) = TRUE
      BY <1>2, <2>2 DEF Awaited, EndsTag
    <3>2. QED
      BY <1>0, <1>3, <1>4, <2>2, <3>1
  <2>3. QED
    BY <1>0, <2>1, <2>2
<1>6. ASSUME NEW q \in Nat, q < o + 3, o + 3 <= q + 2 PROVE ~At(said, Awaited(~inside), q)
  <2>1. q \in {o + 1, o + 2}
    BY <1>6
  <2>2. Awaited(inside) \in {Open, Close} /\ Awaited(~inside) \in {Open, Close}
    BY DEF Awaited
  <2>3. QED
    BY <2>1, <2>2, TagsApart
<1>7. Ready(said, o + 3, ~inside)
  BY <1>0, <1>5, <1>6 DEF Ready
<1>8. QED
  BY <1>1, <1>2, <1>7

(* Without one, it goes on where one may have begun.                        *)
LEMMA HoldBack ==
  ASSUME NEW said \in Seq(Chars), NEW i, NEW inside, Ready(said, i, inside),
         NEW hi \in Nat, i <= hi, hi <= Len(said), Find(said, Awaited(inside), i, hi) = 0
  PROVE  LET n == OverlapSuffix(said, Awaited(inside), i, hi)
         IN  /\ n \in 0..2 /\ i + n <= hi + 1 /\ Ready(said, hi + 1 - n, inside)
             /\ \A q \in Nat : i <= q /\ q <= hi - n => ~At(said, Awaited(inside), q)
             /\ \A p \in Nat : i <= p /\ p <= hi + 1 => InBlock(said)[p] = inside
<1> DEFINE tag == Awaited(inside)
           n == OverlapSuffix(said, tag, i, hi)
<1>0. /\ i \in Nat /\ 1 <= i /\ inside \in BOOLEAN /\ Len(said) \in Nat /\ tag \in {Open, Close}
      /\ i <= hi + 1 /\ hi + 1 <= Len(said) + 1 /\ hi + 1 \in Nat
      /\ \A q \in Nat : q < i /\ i <= q + 2 => ~At(said, tag, q)
  BY LenProperties DEF Ready, Awaited
<1>1. \A q \in Nat : i <= q /\ q + 2 <= hi => ~At(said, tag, q)
  BY <1>0, FindIs
<1>2. /\ n \in 0..2 /\ i + n <= hi + 1
      /\ \A q \in Nat : i <= q /\ q <= hi /\ hi < q + 2 /\ At(said, tag, q) => hi + 1 - n <= q
  BY <1>0, OverlapIs
<1>3. \A p \in Nat : i <= p /\ p <= hi + 1 => InBlock(said)[p] = inside
  <2>1. \A q \in Nat : i <= q /\ q + 2 < hi + 1 => ~At(said, tag, q)
    BY <1>1
  <2>2. QED
    BY <1>0, <2>1, Steady
<1> HIDE DEF n, tag
<1>4. ASSUME NEW q \in Nat, i <= q, q <= hi - n PROVE ~At(said, tag, q)
  <2>1. CASE q + 2 <= hi
    BY <1>1, <1>4, <2>1
  <2>2. CASE hi < q + 2
    <3>1. q <= hi /\ ~(hi + 1 - n <= q)
      BY <1>2, <1>4
    <3>2. QED
      BY <1>2, <1>4, <2>2, <3>1
  <2>3. QED
    BY <2>1, <2>2
<1>5. Ready(said, hi + 1 - n, inside)
  <2>1. /\ hi + 1 - n \in Nat /\ i <= hi + 1 - n /\ 1 <= hi + 1 - n
        /\ hi + 1 - n <= Len(said) + 1 /\ hi + 1 - n <= hi + 1
    BY <1>0, <1>2
  <2>2. InBlock(said)[hi + 1 - n] = inside
    BY <1>3, <2>1
  <2>3. ASSUME NEW q \in Nat, q < hi + 1 - n, hi + 1 - n <= q + 2 PROVE ~At(said, tag, q)
    <3>1. CASE i <= q
      <4>1. q <= hi - n
        BY <1>2, <2>3
      <4>2. QED
        BY <1>4, <3>1, <4>1
    <3>2. CASE q < i
      <4>1. i <= q + 2
        BY <1>0, <1>2, <2>1, <2>3
      <4>2. QED
        BY <1>0, <3>2, <4>1
    <3>3. QED
      BY <1>0, <3>1, <3>2
  <2>4. QED
    BY <1>0, <2>1, <2>2, <2>3 DEF Ready, tag
<1>6. QED
  BY <1>2, <1>3, <1>4, <1>5 DEF n, tag

(* Outside of a block, what no tag begins in is visible.                    *)
LEMMA Shown ==
  ASSUME NEW said \in Seq(Chars), NEW i, Ready(said, i, FALSE),
         NEW j \in Nat, i <= j, j <= Len(said) + 1,
         \A q \in Nat : i <= q /\ q < j => ~At(said, Open, q)
  PROVE  i..(j - 1) \subseteq Visible(said)
<1>0. /\ i \in Nat /\ 1 <= i /\ Len(said) \in Nat /\ Awaited(FALSE) = Open
      /\ \A q \in Nat : q < i /\ i <= q + 2 => ~At(said, Open, q)
  BY LenProperties DEF Ready, Awaited
<1>1. \A p \in Nat : i <= p /\ p <= j => InBlock(said)[p] = FALSE
  <2>1. \A q \in Nat : i <= q /\ q + 2 < j => ~At(said, Open, q)
    <3> SUFFICES ASSUME NEW q \in Nat, i <= q, q + 2 < j PROVE ~At(said, Open, q)
      OBVIOUS
    <3>1. q < j
      OBVIOUS
    <3>2. QED
      BY <3>1
  <2>2. \A q \in Nat : i <= q /\ q + 2 < j => ~At(said, Awaited(FALSE), q)
    BY <1>0, <2>1
  <2>3. QED
    BY <2>2, Steady
<1>2. ASSUME NEW p \in i..(j - 1) PROVE p \in Visible(said)
  <2>1. p \in Nat /\ i <= p /\ p <= j /\ p < j /\ p \in 1..Len(said) /\ p \in DOMAIN said
    BY <1>0, LenProperties
  <2>2. ~InBlock(said)[p]
    BY <1>1, <2>1
  <2>3. ASSUME NEW k \in 0..2, p + k <= Len(said) PROVE ~EndsTag(said, Open, p + k)
    <3> SUFFICES ASSUME p + k - 2 >= 1, At(said, Open, p + k - 2) PROVE FALSE
      <4>1. p + k \in 1..Len(said)
        BY <2>1, <2>3
      <4>2. QED
        BY <4>1, TagEnds
    <3>1. p + k - 2 \in Nat /\ p + k - 2 < j /\ i <= (p + k - 2) + 2
      BY <1>0, <2>1
    <3>2. CASE i <= p + k - 2
      BY <3>1, <3>2
    <3>3. CASE p + k - 2 < i
      BY <1>0, <3>1, <3>3
    <3>4. QED
      BY <1>0, <3>1, <3>2, <3>3
  <2>4. QED
    BY <2>1, <2>2, <2>3 DEF Visible, TagLen
<1>3. QED
  BY <1>2

(* What is in a block, and the tag that opens one, is hidden.               *)
LEMMA Hidden ==
  ASSUME NEW said \in Seq(Chars), NEW p \in Visible(said)
  PROVE  /\ p \in 1..Len(said) /\ InBlock(said)[p] = FALSE
         /\ \A e \in Nat :
              p <= e /\ e <= p + 2 /\ e <= Len(said) /\ EndsTag(said, Open, e) =>
                InBlock(said)[e] = TRUE
<1>0. /\ p \in 1..Len(said) /\ Len(said) \in Nat
      /\ InBlock(said) \in [1..(Len(said) + 1) -> BOOLEAN]
  BY LenProperties, InBlockIs DEF Visible
<1>1. InBlock(said)[p] = FALSE
  <2>1. p \in 1..(Len(said) + 1)
    BY <1>0
  <2>2. InBlock(said)[p] \in BOOLEAN /\ ~InBlock(said)[p]
    BY <1>0, <2>1 DEF Visible
  <2>3. QED
    BY <2>2
<1>2. ASSUME NEW e \in Nat, p <= e, e <= p + 2, e <= Len(said), EndsTag(said, Open, e)
      PROVE  InBlock(said)[e] = TRUE
  <2>1. e - p \in 0..(TagLen - 1) /\ p + (e - p) = e /\ e \in 1..(Len(said) + 1)
    BY <1>0, <1>2 DEF TagLen
  <2>2. InBlock(said)[e] \in BOOLEAN /\ InBlock(said)[e]
    BY <1>0, <1>2, <2>1 DEF Visible
  <2>3. QED
    BY <2>2
<1>3. QED
  BY <1>0, <1>1, <1>2

LEMMA PositionsIs ==
  ASSUME NEW lo \in Nat, NEW hi \in Nat, lo <= hi + 1
  PROVE  /\ Positions(lo, hi) \in Seq(Nat) /\ Len(Positions(lo, hi)) = hi + 1 - lo
         /\ \A k \in 1..(hi + 1 - lo) : Positions(lo, hi)[k] = lo + k - 1
<1>1. hi + 1 - lo \in Nat /\ \A k \in 1..(hi + 1 - lo) : lo + k - 1 \in Nat
  OBVIOUS
<1>2. QED
  BY <1>1 DEF Positions

-----------------------------------------------------------------------------
(* What feed lets through                                                   *)

Ascending(s) == \A k, l \in DOMAIN s : k < l => s[k] < s[l]

Feds == [visible: Seq(Nat), inside: BOOLEAN, held: 0..2, silent: BOOLEAN]

(* Of the text from i to hi: what is visible, but for a chunk that ends in  *)
(* a block, up to where the filter goes on.                                 *)
FedOK(said, i, hi, fed) ==
  /\ fed \in Feds /\ i + fed.held <= hi + 1
  /\ Ready(said, hi + 1 - fed.held, fed.inside)
  /\ Range(fed.visible) \subseteq Visible(said) \cap i..(hi - fed.held)
  /\ Ascending(fed.visible)
  /\ fed.silent = FALSE => Visible(said) \cap i..(hi - fed.held) \subseteq Range(fed.visible)
  /\ fed.silent = TRUE => InBlock(said)[hi] = TRUE /\ InBlock(said)[hi + 1] = TRUE

LEMMA FedIs ==
  ASSUME NEW visible \in Seq(Nat), NEW inside \in BOOLEAN, NEW held \in 0..2,
         NEW silent \in BOOLEAN
  PROVE  /\ Fed(visible, inside, held, silent) \in Feds
         /\ Fed(visible, inside, held, silent).visible = visible
         /\ Fed(visible, inside, held, silent).inside = inside
         /\ Fed(visible, inside, held, silent).held = held
         /\ Fed(visible, inside, held, silent).silent = silent
BY DEF Fed, Feds

(* Nothing is let through.                                                  *)
LEMMA FedNothing ==
  ASSUME NEW inside \in BOOLEAN, NEW held \in 0..2, NEW silent \in BOOLEAN
  PROVE  LET fed == Fed(<<>>, inside, held, silent)
         IN  /\ fed \in Feds /\ fed.inside = inside /\ fed.held = held
             /\ fed.silent = silent /\ Range(fed.visible) = {} /\ Ascending(fed.visible)
<1>1. <<>> \in Seq(Nat) /\ Range(<<>>) = {} /\ Ascending(<<>>)
  BY DEF Range, Ascending
<1>2. PICK visible \in Seq(Nat) : visible = <<>>
  BY <1>1
<1>3. LET fed == Fed(visible, inside, held, silent)
      IN  /\ fed \in Feds /\ fed.visible = visible /\ fed.inside = inside /\ fed.held = held
          /\ fed.silent = silent
  BY FedIs
<1>4. QED
  BY <1>1, <1>2, <1>3

LEMMA RangeOf ==
  ASSUME NEW s \in Seq(Nat)
  PROVE  /\ Range(s) \subseteq Nat
         /\ \A p : p \in Range(s) <=> \E k \in 1..Len(s) : s[k] = p
BY DEF Range

(* The positions of a stretch of the text, and one after the other.         *)
LEMMA PositionsOrder ==
  ASSUME NEW lo \in Nat, NEW hi \in Nat, lo <= hi + 1
  PROVE  Ascending(Positions(lo, hi)) /\ Range(Positions(lo, hi)) = lo..hi
<1> DEFINE s == Positions(lo, hi)
<1>1. s \in Seq(Nat) /\ Len(s) = hi + 1 - lo /\ \A k \in 1..(hi + 1 - lo) : s[k] = lo + k - 1
  BY PositionsIs
<1>2. DOMAIN s = 1..(hi + 1 - lo)
  BY <1>1, LenProperties
<1> HIDE DEF s
<1>3. Ascending(s)
  BY <1>1, <1>2 DEF Ascending
<1>4. ASSUME NEW p \in Range(s) PROVE p \in lo..hi
  <2>1. PICK k \in 1..(hi + 1 - lo) : s[k] = p
    BY <1>1, RangeOf
  <2>2. QED
    BY <1>1, <2>1
<1>5. ASSUME NEW p \in lo..hi PROVE p \in Range(s)
  <2>1. p + 1 - lo \in 1..(hi + 1 - lo) /\ lo + (p + 1 - lo) - 1 = p
    OBVIOUS
  <2>2. s[p + 1 - lo] = p
    BY <1>1, <2>1
  <2>3. QED
    BY <1>1, <2>1, <2>2, RangeOf
<1>6. QED
  BY <1>3, <1>4, <1>5 DEF s

LEMMA ConcatOrder ==
  ASSUME NEW s \in Seq(Nat), NEW t \in Seq(Nat), Ascending(s), Ascending(t),
         \A p \in Range(s), q \in Range(t) : p < q
  PROVE  /\ s \o t \in Seq(Nat) /\ Ascending(s \o t) /\ Range(s \o t) = Range(s) \cup Range(t)
<1> DEFINE u == s \o t
<1>1. /\ Len(s) \in Nat /\ Len(t) \in Nat /\ u \in Seq(Nat) /\ Len(u) = Len(s) + Len(t)
      /\ \A i \in 1..Len(s) + Len(t) : u[i] = IF i <= Len(s) THEN s[i] ELSE t[i - Len(s)]
  BY ConcatProperties, LenProperties
<1>2. DOMAIN u = 1..(Len(s) + Len(t)) /\ DOMAIN s = 1..Len(s) /\ DOMAIN t = 1..Len(t)
  BY <1>1, LenProperties
<1>3. Range(u) = Range(s) \cup Range(t)
  BY RangeConcatenation
<1> HIDE DEF u
<1>4. ASSUME NEW k \in DOMAIN u, NEW l \in DOMAIN u, k < l PROVE u[k] < u[l]
  <2>1. k \in Nat /\ l \in Nat /\ k \in 1..(Len(s) + Len(t)) /\ l \in 1..(Len(s) + Len(t))
    BY <1>1, <1>2
  <2>2. CASE l <= Len(s)
    <3>1. k <= Len(s) /\ k \in 1..Len(s) /\ l \in 1..Len(s)
      BY <1>1, <1>4, <2>1, <2>2
    <3>2. u[k] = s[k] /\ u[l] = s[l]
      BY <1>1, <2>1, <2>2, <3>1
    <3>3. QED
      BY <1>2, <1>4, <3>1, <3>2 DEF Ascending
  <2>3. CASE k > Len(s)
    <3>1. ~(l <= Len(s)) /\ ~(k <= Len(s)) /\ k - Len(s) \in 1..Len(t) /\ l - Len(s) \in 1..Len(t)
          /\ k - Len(s) < l - Len(s)
      <4>1. PICK a \in Nat : a = Len(s)
        BY <1>1
      <4>2. PICK b \in Nat : b = Len(t)
        BY <1>1
      <4>3. k \in 1..(a + b) /\ l \in 1..(a + b) /\ k > a /\ k < l
        BY <1>4, <2>1, <2>3, <4>1, <4>2
      <4>4. /\ ~(l <= a) /\ ~(k <= a) /\ k - a \in 1..b /\ l - a \in 1..b
            /\ k - a < l - a
        BY <4>3
      <4>5. QED
        BY <4>1, <4>2, <4>4
    <3>2. u[k] = t[k - Len(s)] /\ u[l] = t[l - Len(s)]
      BY <1>1, <2>1, <3>1
    <3>3. QED
      BY <1>2, <3>1, <3>2 DEF Ascending
  <2>4. CASE k <= Len(s) /\ l > Len(s)
    <3>1. k \in 1..Len(s) /\ ~(l <= Len(s)) /\ l - Len(s) \in 1..Len(t)
      <4>1. PICK a \in Nat : a = Len(s)
        BY <1>1
      <4>2. PICK b \in Nat : b = Len(t)
        BY <1>1
      <4>3. k \in 1..(a + b) /\ l \in 1..(a + b) /\ k <= a /\ l > a
        BY <2>1, <2>4, <4>1, <4>2
      <4>4. k \in 1..a /\ ~(l <= a) /\ l - a \in 1..b
        BY <4>3
      <4>5. QED
        BY <4>1, <4>2, <4>4
    <3>2. u[k] = s[k] /\ u[l] = t[l - Len(s)]
      BY <1>1, <2>1, <2>4, <3>1
    <3>3. s[k] \in Range(s) /\ t[l - Len(s)] \in Range(t)
      BY <3>1, RangeOf
    <3>4. QED
      BY <3>2, <3>3
  <2>5. QED
    BY <1>1, <2>1, <2>2, <2>3, <2>4
<1>5. Ascending(u)
  BY <1>4 DEF Ascending
<1>6. QED
  BY <1>1, <1>3, <1>5 DEF u

(* The rest of a chunk from i on, in a block; what the loop does outside of *)
(* one is as it should be from every later place on.                        *)
LEMMA FeedInsideOK ==
  ASSUME NEW said \in Seq(Chars), NEW i, NEW in \in BOOLEAN, in = TRUE, Ready(said, i, in),
         NEW hi \in Nat, i <= hi + 1, hi <= Len(said),
         NEW outside, NEW out \in BOOLEAN, out = FALSE,
         \A k \in Nat : i < k /\ k <= hi + 1 /\ Ready(said, k, out) =>
           FedOK(said, k, hi, outside[k])
  PROVE  FedOK(said, i, hi, FeedInside(said, outside, i, hi))
<1> DEFINE close == Find(said, Close, i, hi)
           fed == FeedInside(said, outside, i, hi)
           n == OverlapSuffix(said, Close, i, hi)
<1> SUFFICES FedOK(said, i, hi, fed)
  OBVIOUS
<1>0. /\ i \in Nat /\ 1 <= i /\ Len(said) \in Nat /\ Awaited(in) = Close /\ i <= Len(said) + 1
      /\ 0 \in 0..2
  BY LenProperties DEF Ready, Awaited
<1>2. CASE i > hi
  <2>1. fed = Fed(<<>>, in, 0, out)
    <3>1. ~(i <= hi)
      BY <1>0, <1>2
    <3>2. QED
      BY <1>2, <3>1 DEF FeedInside
  <2>2. /\ fed \in Feds /\ fed.inside = in /\ fed.held = 0
        /\ fed.silent = out /\ Range(fed.visible) = {} /\ Ascending(fed.visible)
    <3> HIDE DEF fed
    <3>1. QED
      BY <1>0, <2>1, FedNothing
  <2>3. i = hi + 1 /\ hi + 1 - 0 = i /\ i..(hi - 0) = {} /\ i + 0 <= hi + 1
    BY <1>0, <1>2
  <2> HIDE DEF fed
  <2>4. fed.silent # TRUE
    BY <2>2
  <2>5. Ready(said, hi + 1 - fed.held, fed.inside)
    BY <2>2, <2>3
  <2>6. i + fed.held <= hi + 1 /\ i..(hi - fed.held) = {}
    BY <2>2, <2>3
  <2>7. QED
    BY <2>2, <2>4, <2>5, <2>6 DEF FedOK
<1>3. CASE i <= hi /\ close = 0
  <2>1. fed = Fed(<<>>, in, n, in)
    <3>1. ~(i > hi) /\ ~(close > 0)
      BY <1>0, <1>3
    <3>2. QED
      BY <1>3, <3>1 DEF FeedInside
  <2>2. /\ n \in 0..2 /\ i + n <= hi + 1 /\ Ready(said, hi + 1 - n, in)
        /\ \A p \in Nat : i <= p /\ p <= hi + 1 => InBlock(said)[p] = in
    BY <1>0, <1>3, HoldBack
  <2>3. /\ fed \in Feds /\ fed.inside = in /\ fed.held = n
        /\ fed.silent = in /\ Range(fed.visible) = {} /\ Ascending(fed.visible)
    <3> HIDE DEF fed, n
    <3>1. QED
      BY <1>0, <2>1, <2>2, FedNothing
  <2>4. InBlock(said)[hi] = TRUE /\ InBlock(said)[hi + 1] = TRUE
    <3>1. hi + 1 \in Nat /\ i <= hi + 1 /\ hi <= hi + 1 /\ hi + 1 <= hi + 1
      OBVIOUS
    <3>2. InBlock(said)[hi] = in /\ InBlock(said)[hi + 1] = in
      BY <1>3, <2>2, <3>1
    <3>3. QED
      BY <3>2
  <2> HIDE DEF fed, n
  <2>5. fed.silent # FALSE
    BY <2>3
  <2>6. Ready(said, hi + 1 - fed.held, fed.inside)
    BY <2>2, <2>3
  <2>7. i + fed.held <= hi + 1
    BY <2>2, <2>3
  <2>8. QED
    BY <2>3, <2>4, <2>5, <2>6, <2>7 DEF FedOK
<1>4. CASE i <= hi /\ close # 0
  <2>1. /\ close \in Nat /\ i <= close /\ close + 2 <= hi /\ At(said, Close, close)
        /\ \A q \in Nat : i <= q /\ q < close => ~At(said, Close, q)
    BY <1>0, <1>4, FindIs
  <2>2. fed = outside[close + 3]
    <3>1. ~(i > hi) /\ close > 0
      BY <1>0, <1>4, <2>1
    <3>2. QED
      BY <1>4, <3>1 DEF FeedInside, TagLen
  <2> HIDE DEF fed, close
  <2>3. /\ Ready(said, close + 3, ~in)
        /\ \A p \in Nat : i <= p /\ p <= close + 2 => InBlock(said)[p] = in
    BY <1>0, <2>1, PastTag
  <2>4. Ready(said, close + 3, out)
    <3>1. PICK b : b = ~in
      OBVIOUS
    <3>2. b = out
      BY <3>1
    <3>3. QED
      BY <2>3, <3>1, <3>2, Zenon
  <2>5. close + 3 \in Nat /\ i < close + 3 /\ close + 3 <= hi + 1
    BY <1>0, <2>1
  <2>6. FedOK(said, close + 3, hi, fed)
    BY <2>2, <2>4, <2>5
  <2>7. fed \in Feds /\ fed.held \in 0..2 /\ i + fed.held <= hi + 1
    <3>1. fed \in Feds /\ fed.held \in 0..2 /\ close + 3 + fed.held <= hi + 1
      BY <2>6 DEF FedOK, Feds
    <3>2. QED
      BY <1>0, <2>5, <3>1
  <2>8. Visible(said) \cap i..(close + 2) = {}
    <3> SUFFICES ASSUME NEW p \in Visible(said), p \in i..(close + 2) PROVE FALSE
      OBVIOUS
    <3>1. p \in Nat /\ i <= p /\ p <= close + 2
      BY <1>0
    <3>2. InBlock(said)[p] = TRUE
      BY <2>3, <3>1
    <3>3. QED
      BY <3>2, Hidden
  <2>9. Visible(said) \cap i..(hi - fed.held) = Visible(said) \cap (close + 3)..(hi - fed.held)
    <3>1. \A p \in i..(hi - fed.held) : p \in i..(close + 2) \/ p \in (close + 3)..(hi - fed.held)
      BY <1>0, <2>1, <2>7
    <3>2. (close + 3)..(hi - fed.held) \subseteq i..(hi - fed.held)
      BY <1>0, <2>1, <2>7
    <3>3. QED
      BY <2>8, <3>1, <3>2
  <2>10. /\ Ready(said, hi + 1 - fed.held, fed.inside)
         /\ Range(fed.visible) \subseteq Visible(said) \cap (close + 3)..(hi - fed.held)
         /\ Ascending(fed.visible)
         /\ fed.silent = FALSE =>
              Visible(said) \cap (close + 3)..(hi - fed.held) \subseteq Range(fed.visible)
         /\ fed.silent = TRUE => InBlock(said)[hi] = TRUE /\ InBlock(said)[hi + 1] = TRUE
    BY <2>6 DEF FedOK
  <2>11. Range(fed.visible) \subseteq Visible(said) \cap i..(hi - fed.held)
    BY <2>9, <2>10
  <2>12. fed.silent = FALSE => Visible(said) \cap i..(hi - fed.held) \subseteq Range(fed.visible)
    BY <2>9, <2>10
  <2>13. QED
    BY <2>7, <2>10, <2>11, <2>12 DEF FedOK
<1>5. i > hi \/ i <= hi
  BY <1>0
<1>6. QED
  BY <1>2, <1>3, <1>4, <1>5

LEMMA FedWith ==
  ASSUME NEW fed \in Feds, NEW visible \in Seq(Nat)
  PROVE  LET with == [fed EXCEPT !.visible = visible]
         IN  /\ with \in Feds /\ with.visible = visible /\ with.inside = fed.inside
             /\ with.held = fed.held /\ with.silent = fed.silent
BY DEF Feds

(* The rest of a chunk from i on, outside of a block.                       *)
LEMMA FeedOutsideOK ==
  ASSUME NEW said \in Seq(Chars), NEW i, NEW out \in BOOLEAN, out = FALSE, Ready(said, i, out),
         NEW hi \in Nat, i <= hi + 1, hi <= Len(said), NEW outside,
         \A k \in Nat : i < k /\ k <= hi + 1 /\ Ready(said, k, out) =>
           FedOK(said, k, hi, outside[k])
  PROVE  FedOK(said, i, hi, FeedOutside(said, outside, i, hi))
<1> DEFINE open == Find(said, Open, i, hi)
           fed == FeedOutside(said, outside, i, hi)
           n == OverlapSuffix(said, Open, i, hi)
<1> SUFFICES FedOK(said, i, hi, fed)
  OBVIOUS
<1>0. /\ i \in Nat /\ 1 <= i /\ Len(said) \in Nat /\ Awaited(out) = Open /\ i <= Len(said) + 1
      /\ 0 \in 0..2
  BY LenProperties DEF Ready, Awaited
<1>1. Ready(said, i, FALSE)
  BY Zenon
<1>2. CASE i > hi
  <2>1. fed = Fed(<<>>, out, 0, out)
    <3>1. ~(i <= hi)
      BY <1>0, <1>2
    <3>2. QED
      BY <1>2, <3>1 DEF FeedOutside
  <2> HIDE DEF fed
  <2>2. /\ fed \in Feds /\ fed.inside = out /\ fed.held = 0
        /\ fed.silent = out /\ Range(fed.visible) = {} /\ Ascending(fed.visible)
    BY <1>0, <2>1, FedNothing
  <2>3. i = hi + 1 /\ hi + 1 - 0 = i /\ i..(hi - 0) = {} /\ i + 0 <= hi + 1
    BY <1>0, <1>2
  <2>4. fed.silent # TRUE
    BY <2>2
  <2>5. Ready(said, hi + 1 - fed.held, fed.inside)
    BY <2>2, <2>3
  <2>6. i + fed.held <= hi + 1 /\ i..(hi - fed.held) = {}
    BY <2>2, <2>3
  <2>7. QED
    BY <2>2, <2>4, <2>5, <2>6 DEF FedOK
<1>3. CASE i <= hi /\ open = 0
  <2> DEFINE visible == Positions(i, hi - n)
  <2>1. fed = Fed(visible, out, n, out)
    <3>1. ~(i > hi) /\ ~(open > 0)
      BY <1>0, <1>3
    <3>2. QED
      BY <1>3, <3>1 DEF FeedOutside
  <2>2. /\ n \in 0..2 /\ i + n <= hi + 1 /\ Ready(said, hi + 1 - n, out)
        /\ \A q \in Nat : i <= q /\ q <= hi - n => ~At(said, Awaited(out), q)
    BY <1>0, <1>3, HoldBack
  <2> HIDE DEF n, fed
  <2>3. hi - n \in Nat /\ i <= (hi - n) + 1 /\ hi - n + 1 <= Len(said) + 1 /\ hi - n + 1 \in Nat
        /\ (hi - n + 1) - 1 = hi - n
    BY <1>0, <2>2
  <2>4. visible \in Seq(Nat) /\ Ascending(visible) /\ Range(visible) = i..(hi - n)
    BY <1>0, <2>3, PositionsIs, PositionsOrder
  <2>5. i..(hi - n) \subseteq Visible(said)
    <3>1. \A q \in Nat : i <= q /\ q < hi - n + 1 => ~At(said, Open, q)
      BY <1>0, <2>2, <2>3
    <3>2. i..((hi - n + 1) - 1) \subseteq Visible(said)
      BY <1>0, <1>1, <2>3, <3>1, Shown
    <3>3. QED
      BY <2>3, <3>2
  <2> HIDE DEF visible
  <2>6. /\ fed \in Feds /\ fed.visible = visible /\ fed.inside = out /\ fed.held = n
        /\ fed.silent = out
    BY <2>1, <2>2, <2>4, FedIs
  <2>7. fed.silent # TRUE
    BY <2>6
  <2>8. Ready(said, hi + 1 - fed.held, fed.inside)
    BY <2>2, <2>6
  <2>9. /\ i + fed.held <= hi + 1 /\ Ascending(fed.visible)
        /\ Range(fed.visible) = Visible(said) \cap i..(hi - fed.held)
    BY <2>2, <2>4, <2>5, <2>6
  <2>10. QED
    BY <2>6, <2>7, <2>8, <2>9 DEF FedOK
<1>4. CASE i <= hi /\ open # 0
  <2> DEFINE inner == FeedInside(said, outside, open + 3, hi)
             before == Positions(i, open - 1)
  <2>1. /\ open \in Nat /\ i <= open /\ open + 2 <= hi /\ At(said, Open, open)
        /\ \A q \in Nat : i <= q /\ q < open => ~At(said, Open, q)
    BY <1>0, <1>4, FindIs
  <2>2. fed = [inner EXCEPT !.visible = before \o inner.visible]
    <3>1. ~(i > hi) /\ open > 0
      BY <1>0, <1>4, <2>1
    <3>2. QED
      BY <1>4, <3>1 DEF FeedOutside, TagLen
  <2> HIDE DEF fed, open
  <2>3. /\ Ready(said, open + 3, ~out)
        /\ \A p \in Nat : i <= p /\ p <= open + 2 => InBlock(said)[p] = out
        /\ EndsTag(said, Open, open + 2)
    BY <1>0, <2>1, PastTag
  <2>4. PICK in \in BOOLEAN : in = TRUE
    OBVIOUS
  <2>5. Ready(said, open + 3, in)
    <3>1. PICK b : b = ~out
      OBVIOUS
    <3>2. b = in
      BY <2>4, <3>1
    <3>3. QED
      BY <2>3, <3>1, <3>2, Zenon
  <2>6. open + 3 \in Nat /\ i < open + 3 /\ open + 3 <= hi + 1
    BY <1>0, <2>1
  <2>7. FedOK(said, open + 3, hi, inner)
    <3>1. \A k \in Nat : open + 3 < k /\ k <= hi + 1 /\ Ready(said, k, out) =>
            FedOK(said, k, hi, outside[k])
      <4> SUFFICES ASSUME NEW k \in Nat, open + 3 < k, k <= hi + 1, Ready(said, k, out)
                   PROVE  FedOK(said, k, hi, outside[k])
        OBVIOUS
      <4>1. i < k
        BY <1>0, <2>6
      <4>2. QED
        BY <4>1
    <3>2. QED
      BY <2>4, <2>5, <2>6, <3>1, FeedInsideOK
  <2> HIDE DEF inner
  <2>8. /\ inner \in Feds /\ inner.visible \in Seq(Nat) /\ inner.held \in 0..2
        /\ open + 3 + inner.held <= hi + 1
        /\ Ready(said, hi + 1 - inner.held, inner.inside)
        /\ Range(inner.visible) \subseteq Visible(said) \cap (open + 3)..(hi - inner.held)
        /\ Ascending(inner.visible)
        /\ inner.silent = FALSE =>
             Visible(said) \cap (open + 3)..(hi - inner.held) \subseteq Range(inner.visible)
        /\ inner.silent = TRUE => InBlock(said)[hi] = TRUE /\ InBlock(said)[hi + 1] = TRUE
    BY <2>7 DEF FedOK, Feds
  <2>9. /\ before \in Seq(Nat) /\ Ascending(before) /\ Range(before) = i..(open - 1)
    <3>1. open - 1 \in Nat /\ i <= (open - 1) + 1
      BY <1>0, <2>1
    <3>2. QED
      BY <1>0, <3>1, PositionsIs, PositionsOrder
  <2>10. i..(open - 1) \subseteq Visible(said)
    <3>1. open <= Len(said) + 1
      BY <1>0, <2>1
    <3>2. QED
      BY <1>1, <2>1, <3>1, Shown
  <2> HIDE DEF before
  <2> DEFINE visible == before \o inner.visible
  <2>11. /\ visible \in Seq(Nat) /\ Ascending(visible)
         /\ Range(visible) = Range(before) \cup Range(inner.visible)
    <3>1. \A p \in Range(before), q \in Range(inner.visible) : p < q
      <4> SUFFICES ASSUME NEW p \in i..(open - 1), NEW q \in (open + 3)..(hi - inner.held)
                   PROVE  p < q
        BY <2>8, <2>9
      <4>1. QED
        BY <1>0, <2>1
    <3>2. QED
      BY <2>8, <2>9, <3>1, ConcatOrder
  <2>12. fed = [inner EXCEPT !.visible = visible]
    BY <2>2
  <2> HIDE DEF visible
  <2>13. /\ fed \in Feds /\ fed.visible = visible /\ fed.inside = inner.inside
         /\ fed.held = inner.held /\ fed.silent = inner.silent
    BY <2>8, <2>11, <2>12, FedWith
  <2>14. Visible(said) \cap open..(open + 2) = {}
    <3> SUFFICES ASSUME NEW p \in Visible(said), p \in open..(open + 2) PROVE FALSE
      OBVIOUS
    <3>1. /\ open + 2 \in Nat /\ p <= open + 2 /\ open + 2 <= p + 2 /\ open + 2 <= Len(said)
          /\ i <= open + 2
      BY <1>0, <2>1
    <3>2. InBlock(said)[open + 2] = TRUE
      BY <2>3, <3>1, Hidden
    <3>3. InBlock(said)[open + 2] = FALSE
      BY <2>3, <3>1
    <3>4. QED
      BY <3>2, <3>3
  <2>15. Visible(said) \cap i..(hi - fed.held) =
           i..(open - 1) \cup (Visible(said) \cap (open + 3)..(hi - inner.held))
    <3>1. \A p \in i..(hi - inner.held) :
            p \in i..(open - 1) \/ p \in open..(open + 2) \/ p \in (open + 3)..(hi - inner.held)
      BY <1>0, <2>1, <2>8
    <3>2. /\ (open + 3)..(hi - inner.held) \subseteq i..(hi - inner.held)
          /\ i..(open - 1) \subseteq i..(hi - inner.held)
      BY <1>0, <2>1, <2>8
    <3>3. QED
      BY <2>10, <2>13, <2>14, <3>1, <3>2
  <2>16. i + fed.held <= hi + 1 /\ Ready(said, hi + 1 - fed.held, fed.inside)
    BY <1>0, <2>1, <2>8, <2>13
  <2>17. Range(fed.visible) \subseteq Visible(said) \cap i..(hi - fed.held)
    BY <2>8, <2>9, <2>11, <2>13, <2>15
  <2>18. fed.silent = FALSE => Visible(said) \cap i..(hi - fed.held) \subseteq Range(fed.visible)
    BY <2>8, <2>9, <2>11, <2>13, <2>15
  <2>19. QED
    BY <2>8, <2>11, <2>13, <2>16, <2>17, <2>18 DEF FedOK
<1>5. i > hi \/ i <= hi
  BY <1>0
<1>6. QED
  BY <1>2, <1>3, <1>4, <1>5

(* The loop of feed returns what it should whatever the text before i, and  *)
(* looks up only what it does from a later place on.                        *)
LEMMA FeedInsideIs ==
  ASSUME NEW said \in Seq(Chars), NEW i \in Nat, 1 <= i, NEW hi \in Nat, i <= hi + 1,
         hi <= Len(said), NEW f, NEW g,
         \A k \in Nat : i < k /\ k <= hi + 1 => f[k] \in Feds /\ f[k] = g[k]
  PROVE  /\ FeedInside(said, f, i, hi) \in Feds
         /\ FeedInside(said, f, i, hi) = FeedInside(said, g, i, hi)
<1> DEFINE close == Find(said, Close, i, hi)
           n == OverlapSuffix(said, Close, i, hi)
<1>1. PICK in, out \in BOOLEAN : in = TRUE /\ out = FALSE
  OBVIOUS
<1>2. CASE i > hi
  <2>1. ~(i <= hi) /\ 0 \in 0..2
    BY <1>2
  <2>2. FeedInside(said, f, i, hi) = Fed(<<>>, in, 0, out)
    BY <1>1, <1>2, <2>1 DEF FeedInside
  <2>3. FeedInside(said, g, i, hi) = Fed(<<>>, in, 0, out)
    BY <1>1, <1>2, <2>1 DEF FeedInside
  <2>4. Fed(<<>>, in, 0, out) \in Feds
    BY <2>1, FedNothing
  <2>5. QED
    BY <2>2, <2>3, <2>4
<1>3. CASE i <= hi /\ close = 0
  <2>1. ~(i > hi) /\ ~(close > 0)
    BY <1>3
  <2>2. FeedInside(said, f, i, hi) = Fed(<<>>, in, n, in)
    BY <1>1, <1>3, <2>1 DEF FeedInside
  <2>3. FeedInside(said, g, i, hi) = Fed(<<>>, in, n, in)
    BY <1>1, <1>3, <2>1 DEF FeedInside
  <2>4. n \in 0..2
    BY OverlapIs
  <2> HIDE DEF n
  <2>5. Fed(<<>>, in, n, in) \in Feds
    BY <2>4, FedNothing
  <2>6. QED
    BY <2>2, <2>3, <2>5
<1>4. CASE i <= hi /\ close # 0
  <2>1. close \in Nat /\ i <= close /\ close + 2 <= hi
    BY <1>4, FindIs
  <2>2. ~(i > hi) /\ close > 0
    BY <1>4, <2>1
  <2>3. FeedInside(said, f, i, hi) = f[close + 3]
    BY <1>4, <2>2 DEF FeedInside, TagLen
  <2>4. FeedInside(said, g, i, hi) = g[close + 3]
    BY <1>4, <2>2 DEF FeedInside, TagLen
  <2> HIDE DEF close
  <2>5. close + 3 \in Nat /\ i < close + 3 /\ close + 3 <= hi + 1
    BY <2>1
  <2>6. QED
    BY <2>3, <2>4, <2>5
<1>5. i > hi \/ i <= hi
  OBVIOUS
<1>6. QED
  BY <1>2, <1>3, <1>4, <1>5

LEMMA FeedOutsideIs ==
  ASSUME NEW said \in Seq(Chars), NEW i \in Nat, 1 <= i, NEW hi \in Nat, i <= hi + 1,
         hi <= Len(said), NEW f, NEW g,
         \A k \in Nat : i < k /\ k <= hi + 1 => f[k] \in Feds /\ f[k] = g[k]
  PROVE  /\ FeedOutside(said, f, i, hi) \in Feds
         /\ FeedOutside(said, f, i, hi) = FeedOutside(said, g, i, hi)
<1> DEFINE open == Find(said, Open, i, hi)
           n == OverlapSuffix(said, Open, i, hi)
<1>1. PICK out \in BOOLEAN : out = FALSE
  OBVIOUS
<1>2. CASE i > hi
  <2>1. ~(i <= hi) /\ 0 \in 0..2
    BY <1>2
  <2>2. FeedOutside(said, f, i, hi) = Fed(<<>>, out, 0, out)
    BY <1>1, <1>2, <2>1 DEF FeedOutside
  <2>3. FeedOutside(said, g, i, hi) = Fed(<<>>, out, 0, out)
    BY <1>1, <1>2, <2>1 DEF FeedOutside
  <2>4. Fed(<<>>, out, 0, out) \in Feds
    BY <2>1, FedNothing
  <2>5. QED
    BY <2>2, <2>3, <2>4
<1>3. CASE i <= hi /\ open = 0
  <2> DEFINE visible == Positions(i, hi - n)
  <2>1. ~(i > hi) /\ ~(open > 0)
    BY <1>3
  <2>2. FeedOutside(said, f, i, hi) = Fed(visible, out, n, out)
    BY <1>1, <1>3, <2>1 DEF FeedOutside
  <2>3. FeedOutside(said, g, i, hi) = Fed(visible, out, n, out)
    BY <1>1, <1>3, <2>1 DEF FeedOutside
  <2>4. n \in 0..2 /\ i + n <= hi + 1
    BY OverlapIs
  <2> HIDE DEF n
  <2>5. visible \in Seq(Nat)
    <3>1. hi - n \in Nat /\ i <= (hi - n) + 1
      BY <2>4
    <3>2. QED
      BY <3>1, PositionsIs
  <2> HIDE DEF visible
  <2>6. Fed(visible, out, n, out) \in Feds
    BY <2>4, <2>5, FedIs
  <2>7. QED
    BY <2>2, <2>3, <2>6
<1>4. CASE i <= hi /\ open # 0
  <2> DEFINE before == Positions(i, open - 1)
             inner(h) == FeedInside(said, h, open + 3, hi)
  <2>1. open \in Nat /\ i <= open /\ open + 2 <= hi
    BY <1>4, FindIs
  <2>2. ~(i > hi) /\ open > 0
    BY <1>4, <2>1
  <2>3. FeedOutside(said, f, i, hi) = [inner(f) EXCEPT !.visible = before \o inner(f).visible]
    BY <1>4, <2>2 DEF FeedOutside, TagLen
  <2>4. FeedOutside(said, g, i, hi) = [inner(g) EXCEPT !.visible = before \o inner(g).visible]
    BY <1>4, <2>2 DEF FeedOutside, TagLen
  <2> HIDE DEF open
  <2>5. /\ open + 3 \in Nat /\ 1 <= open + 3 /\ open + 3 <= hi + 1 /\ i < open + 3
        /\ open - 1 \in Nat /\ i <= (open - 1) + 1
    BY <2>1
  <2>6. inner(f) \in Feds /\ inner(f) = inner(g)
    <3>1. \A k \in Nat : open + 3 < k /\ k <= hi + 1 => f[k] \in Feds /\ f[k] = g[k]
      <4> SUFFICES ASSUME NEW k \in Nat, open + 3 < k, k <= hi + 1
                   PROVE  f[k] \in Feds /\ f[k] = g[k]
        OBVIOUS
      <4>1. i < k
        BY <2>5
      <4>2. QED
        BY <4>1
    <3>2. QED
      BY <2>5, <3>1, FeedInsideIs
  <2>7. before \in Seq(Nat)
    BY <2>5, PositionsIs
  <2> HIDE DEF inner, before
  <2>8. before \o inner(f).visible \in Seq(Nat)
    <3>1. inner(f).visible \in Seq(Nat)
      BY <2>6 DEF Feds
    <3>2. QED
      BY <2>7, <3>1, ConcatProperties
  <2>9. [inner(f) EXCEPT !.visible = before \o inner(f).visible] \in Feds
    BY <2>6, <2>8, FedWith
  <2>10. QED
    BY <2>3, <2>4, <2>6, <2>9
<1>5. i > hi \/ i <= hi
  OBVIOUS
<1>6. QED
  BY <1>2, <1>3, <1>4, <1>5

LEMMA ScanIs ==
  ASSUME NEW said \in Seq(Chars), NEW lo \in Nat, 1 <= lo, NEW hi \in Nat, lo <= hi + 1,
         hi <= Len(said)
  PROVE  \A i \in lo..(hi + 1) :
           Scan(said, lo, hi)[i] = FeedOutside(said, Scan(said, lo, hi), i, hi)
<1> DEFINE D == lo..(hi + 1)
           Body(f, i) == FeedOutside(said, f, i, hi)
           step == [i \in D |-> [f \in [D -> Feds] |-> Body(f, i)]]
           rank == [i \in D |-> hi + 1 - i]
           P(g) == g = [i \in D |-> Body(g, i)]
<1>1. ASSUME NEW i \in D, NEW f \in [D -> Feds], NEW g \in [D -> Feds],
             \A k \in D : rank[k] < rank[i] => f[k] = g[k]
      PROVE  Body(f, i) \in Feds /\ Body(f, i) = Body(g, i)
  <2>1. i \in Nat /\ 1 <= i /\ i <= hi + 1
    OBVIOUS
  <2>2. ASSUME NEW k \in Nat, i < k, k <= hi + 1 PROVE f[k] \in Feds /\ f[k] = g[k]
    <3>1. k \in D /\ rank[k] < rank[i]
      BY <2>2
    <3>2. QED
      BY <1>1, <3>1
  <2> HIDE DEF D, rank
  <2>3. QED
    BY <2>1, <2>2, FeedOutsideIs
<1>2. Feds # {}
  <2>1. PICK out \in BOOLEAN : out = FALSE
    OBVIOUS
  <2>2. 0 \in 0..2
    OBVIOUS
  <2>3. Fed(<<>>, out, 0, out) \in Feds
    BY <2>2, FedNothing
  <2>4. QED
    BY <2>3
<1>3. rank \in [D -> 0..(hi + 1)]
  OBVIOUS
<1>4. Scan(said, lo, hi) = CHOOSE g : P(g)
  BY DEF Scan
<1> HIDE DEF Body
<1>5. step \in [D -> [[D -> Feds] -> Feds]]
  <2>1. ASSUME NEW i \in D, NEW f \in [D -> Feds] PROVE Body(f, i) \in Feds
    BY <1>1
  <2>2. QED
    BY <2>1
<1>6. \A i \in D, f \in [D -> Feds] : step[i][f] = Body(f, i)
  OBVIOUS
<1> HIDE DEF step, rank
<1>7. \A i \in D, f, g \in [D -> Feds] :
        (\A k \in D : rank[k] < rank[i] => f[k] = g[k]) => step[i][f] = step[i][g]
  BY <1>1, <1>6
<1>8. PICK h \in [D -> Feds] : \A i \in D : h[i] = step[i][h]
  <2>1. Ranked(D, Feds, hi + 1, rank, step)
    <3>1. hi + 1 \in Nat
      OBVIOUS
    <3>2. QED
      BY <1>2, <1>3, <1>5, <1>7, <3>1 DEF Ranked
  <2> HIDE DEF D
  <2>2. QED
    BY <2>1, Recursion
<1>9. P(h)
  BY <1>6, <1>8
<1>10. P(Scan(said, lo, hi))
  <2> HIDE DEF P
  <2>1. QED
    BY <1>4, <1>9
<1>11. QED
  BY <1>10 DEF Body

(* From every place at which the filter may go on outside of a block.       *)
LEMMA ScanOK ==
  ASSUME NEW said \in Seq(Chars), NEW lo \in Nat, 1 <= lo, NEW hi \in Nat, lo <= hi + 1,
         hi <= Len(said), NEW out \in BOOLEAN, out = FALSE
  PROVE  \A i \in Nat : lo <= i /\ i <= hi + 1 /\ Ready(said, i, out) =>
           FedOK(said, i, hi, Scan(said, lo, hi)[i])
<1> DEFINE scan == Scan(said, lo, hi)
           OK(i) == Ready(said, i, out) => FedOK(said, i, hi, scan[i])
           S == {n \in Nat : \A i \in Nat : lo <= i /\ i <= hi + 1 /\ hi + 1 <= i + n => OK(i)}
<1>0. \A i \in lo..(hi + 1) : scan[i] = FeedOutside(said, scan, i, hi)
  BY ScanIs
<1> HIDE DEF scan
<1>1. ASSUME NEW i \in Nat, lo <= i, i <= hi + 1,
             \A k \in Nat : i < k /\ k <= hi + 1 => OK(k)
      PROVE  OK(i)
  <2> SUFFICES ASSUME Ready(said, i, out) PROVE FedOK(said, i, hi, scan[i])
    OBVIOUS
  <2>1. \A k \in Nat : i < k /\ k <= hi + 1 /\ Ready(said, k, out) => FedOK(said, k, hi, scan[k])
    BY <1>1
  <2>2. FedOK(said, i, hi, FeedOutside(said, scan, i, hi))
    BY <1>1, <2>1, FeedOutsideOK
  <2>3. i \in lo..(hi + 1)
    BY <1>1
  <2>4. QED
    BY <1>0, <2>2, <2>3
<1> HIDE DEF OK
<1>2. 0 \in S
  <2> SUFFICES ASSUME NEW i \in Nat, lo <= i, i <= hi + 1, hi + 1 <= i + 0 PROVE OK(i)
    OBVIOUS
  <2>1. \A k \in Nat : i < k /\ k <= hi + 1 => OK(k)
    OBVIOUS
  <2>2. QED
    BY <1>1, <2>1
<1>3. ASSUME NEW n \in Nat, n \in S PROVE n + 1 \in S
  <2> SUFFICES ASSUME NEW i \in Nat, lo <= i, i <= hi + 1, hi + 1 <= i + (n + 1) PROVE OK(i)
    OBVIOUS
  <2>1. ASSUME NEW k \in Nat, i < k, k <= hi + 1 PROVE OK(k)
    <3>1. lo <= k /\ hi + 1 <= k + n
      BY <2>1
    <3>2. QED
      BY <1>3, <2>1, <3>1
  <2>2. QED
    BY <1>1, <2>1
<1>4. Nat \subseteq S
  <2> HIDE DEF S
  <2>1. QED
    BY <1>2, <1>3, Inductive
<1>5. hi + 1 \in S
  BY <1>4
<1>6. \A i \in Nat : lo <= i /\ i <= hi + 1 => OK(i)
  BY <1>5
<1>7. QED
  BY <1>6 DEF OK, scan

(* What feed returns. A feed that ends in a block lets nothing through.     *)
FeedOK(said, lo, hi, fed) ==
  /\ fed \in Feds /\ lo + fed.held <= hi + 1
  /\ Ready(said, hi + 1 - fed.held, fed.inside)
  /\ Range(fed.visible) \subseteq Visible(said) \cap lo..(hi - fed.held)
  /\ Ascending(fed.visible)
  /\ \/ Visible(said) \cap lo..(hi - fed.held) \subseteq Range(fed.visible)
     \/ InBlock(said)[hi] = TRUE /\ InBlock(said)[hi + 1] = TRUE

LEMMA FeedIs ==
  ASSUME NEW said \in Seq(Chars), NEW lo \in Nat, NEW inside, Ready(said, lo, inside),
         NEW hi \in Nat, lo <= hi + 1, hi <= Len(said)
  PROVE  FeedOK(said, lo, hi, Feed(said, lo, hi, inside))
<1> DEFINE scan == Scan(said, lo, hi)
           fed == IF inside THEN FeedInside(said, scan, lo, hi) ELSE scan[lo]
           all == Feed(said, lo, hi, inside)
<1> SUFFICES FeedOK(said, lo, hi, all)
  OBVIOUS
<1>0. 1 <= lo /\ inside \in BOOLEAN
  BY DEF Ready
<1>1. all = IF fed.silent THEN [fed EXCEPT !.visible = <<>>] ELSE fed
  BY DEF Feed
<1>2. FedOK(said, lo, hi, fed)
  <2>1. PICK in, out \in BOOLEAN : in = TRUE /\ out = FALSE
    OBVIOUS
  <2>2. \A i \in Nat : lo <= i /\ i <= hi + 1 /\ Ready(said, i, out) => FedOK(said, i, hi, scan[i])
    BY <1>0, <2>1, ScanOK
  <2> HIDE DEF scan
  <2>3. CASE inside = in
    <3>1. \A k \in Nat : lo < k /\ k <= hi + 1 /\ Ready(said, k, out) => FedOK(said, k, hi, scan[k])
      BY <2>2
    <3>2. Ready(said, lo, in)
      BY <2>3
    <3>3. FedOK(said, lo, hi, FeedInside(said, scan, lo, hi))
      BY <2>1, <3>1, <3>2, FeedInsideOK
    <3>4. fed = FeedInside(said, scan, lo, hi)
      BY <2>1, <2>3
    <3>5. QED
      BY <3>3, <3>4
  <2>4. CASE inside = out
    <3>1. Ready(said, lo, out)
      BY <2>4
    <3>2. FedOK(said, lo, hi, scan[lo])
      BY <2>2, <3>1
    <3>3. fed = scan[lo]
      BY <2>1, <2>4
    <3>4. QED
      BY <3>2, <3>3
  <2>5. QED
    BY <1>0, <2>1, <2>3, <2>4
<1> HIDE DEF all, fed
<1>3. /\ fed \in Feds /\ fed.held \in 0..2 /\ fed.silent \in BOOLEAN
  BY <1>2 DEF FedOK, Feds
<1>4. CASE fed.silent = TRUE
  <2>1. all = [fed EXCEPT !.visible = <<>>]
    BY <1>1, <1>4
  <2>2. <<>> \in Seq(Nat) /\ Range(<<>>) = {} /\ Ascending(<<>>)
    BY DEF Range, Ascending
  <2>3. PICK none \in Seq(Nat) : none = <<>>
    BY <2>2
  <2>4. all = [fed EXCEPT !.visible = none]
    BY <2>1, <2>3
  <2>5. /\ all \in Feds /\ all.visible = none /\ all.inside = fed.inside
        /\ all.held = fed.held /\ all.silent = fed.silent
    BY <1>3, <2>4, FedWith
  <2>6. InBlock(said)[hi] = TRUE /\ InBlock(said)[hi + 1] = TRUE
    BY <1>2, <1>4 DEF FedOK
  <2>7. lo + all.held <= hi + 1 /\ Ready(said, hi + 1 - all.held, all.inside)
    BY <1>2, <2>5 DEF FedOK
  <2>8. QED
    BY <2>2, <2>3, <2>5, <2>6, <2>7 DEF FeedOK
<1>5. CASE fed.silent = FALSE
  <2>1. all = fed
    BY <1>1, <1>5
  <2>2. QED
    BY <1>2, <1>5, <2>1 DEF FedOK, FeedOK
<1>6. QED
  BY <1>3, <1>4, <1>5

(* At the end of the text, what was held back is visible outside of a       *)
(* block, and hidden in one.                                                *)
LEMMA FlushIs ==
  ASSUME NEW said \in Seq(Chars), NEW held \in 0..2, NEW inside, NEW hi \in Nat, hi = Len(said),
         held <= hi, Ready(said, hi + 1 - held, inside)
  PROVE  LET visible == Flush(hi, held, inside)
         IN  /\ visible \in Seq(Nat) /\ Ascending(visible)
             /\ Range(visible) = Visible(said) \cap (hi + 1 - held)..hi
<1> DEFINE lo == hi + 1 - held
           visible == Flush(hi, held, inside)
<1>0. lo \in Nat /\ 1 <= lo /\ lo <= hi + 1 /\ inside \in BOOLEAN /\ hi + 1 \in Nat
      /\ hi + 1 <= Len(said) + 1 /\ hi <= lo + 1
  BY DEF Ready
<1>1. Ready(said, lo, inside)
  OBVIOUS
<1>2. visible = IF inside THEN <<>> ELSE Positions(lo, hi)
  BY DEF Flush
<1> HIDE DEF lo, visible
<1>3. /\ visible \in Seq(Nat) /\ Ascending(visible)
      /\ Range(visible) = Visible(said) \cap lo..hi
  <2>1. CASE inside = TRUE
    <3>1. <<>> \in Seq(Nat) /\ Range(<<>>) = {} /\ Ascending(<<>>)
      BY DEF Range, Ascending
    <3>2. visible = <<>>
      BY <1>2, <2>1
    <3>3. \A q \in Nat : lo <= q /\ q + 2 < hi + 1 => ~At(said, Awaited(inside), q)
      BY <1>0
    <3>4. \A p \in Nat : lo <= p /\ p <= hi + 1 => InBlock(said)[p] = inside
      BY <1>0, <1>1, <3>3, Steady
    <3>5. ASSUME NEW p \in Visible(said), p \in lo..hi PROVE FALSE
      <4>1. p \in Nat /\ lo <= p /\ p <= hi + 1
        BY <1>0, <3>5
      <4>2. InBlock(said)[p] = TRUE
        BY <2>1, <3>4, <4>1
      <4>3. QED
        BY <4>2, Hidden
    <3>6. QED
      BY <3>1, <3>2, <3>5
  <2>2. CASE inside = FALSE
    <3>1. visible = Positions(lo, hi)
      BY <1>2, <2>2
    <3>2. visible \in Seq(Nat) /\ Ascending(visible) /\ Range(visible) = lo..hi
      BY <1>0, <3>1, PositionsIs, PositionsOrder
    <3>3. \A q \in Nat : lo <= q /\ q < hi + 1 => ~At(said, Open, q)
      <4> SUFFICES ASSUME NEW q \in Nat, lo <= q, At(said, Open, q) PROVE FALSE
        OBVIOUS
      <4>1. q + 2 <= hi
        BY DEF At
      <4>2. QED
        BY <1>0, <4>1
    <3>4. Ready(said, lo, FALSE)
      BY <1>1, <2>2
    <3>5. lo..((hi + 1) - 1) \subseteq Visible(said)
      BY <1>0, <3>3, <3>4, Shown
    <3>6. (hi + 1) - 1 = hi
      OBVIOUS
    <3>7. QED
      BY <3>2, <3>5, <3>6
  <2>3. QED
    BY <1>0, <2>1, <2>2
<1>4. QED
  BY <1>3 DEF lo, visible

-----------------------------------------------------------------------------
(* What the reader has and the items on their way to it                     *)

Items == [item : {"token", "error", "done"}, got : Seq(Nat)]

Piece(got, q, i) == IF i = 0 THEN got ELSE q[i].got

(* Everything delivered is visible, from the first `limit` characters, and  *)
(* in order.                                                                *)
Delivered(said, got, q, limit) ==
  /\ got \in Seq(Nat) /\ q \in Seq(Items) /\ limit \in Nat
  /\ \A i \in 0..Len(q) : /\ Ascending(Piece(got, q, i))
                          /\ Range(Piece(got, q, i)) \subseteq Visible(said) \cap 1..limit
  /\ \A i, j \in 0..Len(q) : i < j =>
       \A p \in Range(Piece(got, q, i)), r \in Range(Piece(got, q, j)) : p < r

(* All that is delivered.                                                   *)
Content(got, q) == UNION {Range(Piece(got, q, i)) : i \in 0..Len(q)}

LEMMA ItemPut ==
  ASSUME NEW q \in Seq(Items), NEW item \in Items
  PROVE  /\ q \o <<item>> \in Seq(Items) /\ Len(q \o <<item>>) = Len(q) + 1 /\ Len(q) \in Nat
         /\ \A i \in 1..Len(q) : (q \o <<item>>)[i] = q[i]
         /\ (q \o <<item>>)[Len(q) + 1] = item
<1>1. q \o <<item>> = Append(q, item)
  BY AppendIsConcat
<1>2. QED
  BY <1>1, AppendProperties, LenProperties

LEMMA ItemContent ==
  ASSUME NEW got \in Seq(Nat), NEW q \in Seq(Items), NEW item \in Items
  PROVE  Content(got, q \o <<item>>) = Content(got, q) \cup Range(item.got)
<1> DEFINE u == q \o <<item>>
<1>1. /\ u \in Seq(Items) /\ Len(u) = Len(q) + 1 /\ Len(q) \in Nat
      /\ \A i \in 1..Len(q) : u[i] = q[i]
      /\ u[Len(q) + 1] = item
  BY ItemPut
<1> HIDE DEF u
<1>2. \A i \in 0..Len(q) : Piece(got, u, i) = Piece(got, q, i)
  <2> SUFFICES ASSUME NEW i \in 0..Len(q) PROVE Piece(got, u, i) = Piece(got, q, i)
    OBVIOUS
  <2>1. CASE i = 0
    BY <2>1 DEF Piece
  <2>2. CASE i # 0
    <3>1. i \in 1..Len(q)
      BY <1>1, <2>2
    <3>2. u[i] = q[i]
      BY <1>1, <3>1
    <3>3. QED
      BY <2>2, <3>2 DEF Piece
  <2>3. QED
    BY <2>1, <2>2
<1>3. Piece(got, u, Len(q) + 1) = item.got
  <2>1. Len(q) + 1 # 0
    BY <1>1
  <2>2. QED
    BY <1>1, <2>1 DEF Piece
<1>4. \A i \in 0..Len(u) : i \in 0..Len(q) \/ i = Len(q) + 1
  BY <1>1
<1>5. 0..Len(q) \subseteq 0..Len(u) /\ Len(q) + 1 \in 0..Len(u)
  BY <1>1
<1>6. Content(got, u) = Content(got, q) \cup Range(item.got)
  BY <1>2, <1>3, <1>4, <1>5 DEF Content
<1>7. QED
  BY <1>6 DEF u

LEMMA PutOK ==
  ASSUME NEW said, NEW got, NEW q, NEW limit, Delivered(said, got, q, limit),
         NEW item \in Items, NEW more \in Nat, limit <= more, Ascending(item.got),
         Range(item.got) \subseteq Visible(said) \cap (limit + 1)..more
  PROVE  Delivered(said, got, q \o <<item>>, more)
<1> DEFINE u == q \o <<item>>
<1>0. got \in Seq(Nat) /\ q \in Seq(Items) /\ limit \in Nat
  BY DEF Delivered
<1>1. /\ u \in Seq(Items) /\ Len(u) = Len(q) + 1 /\ Len(q) \in Nat
      /\ \A i \in 1..Len(q) : u[i] = q[i]
      /\ u[Len(q) + 1] = item
  BY <1>0, ItemPut
<1> HIDE DEF u
<1>2. \A i \in 0..Len(q) : Piece(got, u, i) = Piece(got, q, i)
  <2> SUFFICES ASSUME NEW i \in 0..Len(q) PROVE Piece(got, u, i) = Piece(got, q, i)
    OBVIOUS
  <2>1. CASE i = 0
    BY <2>1 DEF Piece
  <2>2. CASE i # 0
    <3>1. i \in 1..Len(q)
      BY <1>1, <2>2
    <3>2. u[i] = q[i]
      BY <1>1, <3>1
    <3>3. QED
      BY <2>2, <3>2 DEF Piece
  <2>3. QED
    BY <2>1, <2>2
<1>3. Piece(got, u, Len(q) + 1) = item.got
  <2>1. Len(q) + 1 # 0
    BY <1>1
  <2>2. QED
    BY <1>1, <2>1 DEF Piece
<1>4. \A i \in 0..Len(u) : i \in 0..Len(q) \/ i = Len(q) + 1
  BY <1>1
<1>5. 0..Len(q) \subseteq 0..Len(u) /\ Len(q) + 1 \in 0..Len(u)
  BY <1>1
<1>6. ASSUME NEW i \in 0..Len(q)
      PROVE  /\ Ascending(Piece(got, q, i))
             /\ Range(Piece(got, q, i)) \subseteq Visible(said) \cap 1..limit
  BY DEF Delivered
<1>7. 1..limit \subseteq 1..more /\ (limit + 1)..more \subseteq 1..more
  BY <1>0
<1>8. \A i \in 0..Len(u) : /\ Ascending(Piece(got, u, i))
                           /\ Range(Piece(got, u, i)) \subseteq Visible(said) \cap 1..more
  BY <1>2, <1>3, <1>4, <1>6, <1>7
<1>9. ASSUME NEW i \in 0..Len(u), NEW j \in 0..Len(u), i < j,
             NEW p \in Range(Piece(got, u, i)), NEW r \in Range(Piece(got, u, j))
      PROVE  p < r
  <2>1. i \in 0..Len(q)
    BY <1>1, <1>9
  <2>2. p \in Range(Piece(got, q, i)) /\ p \in 1..limit
    BY <1>2, <1>6, <2>1
  <2>3. CASE j \in 0..Len(q)
    <3>1. r \in Range(Piece(got, q, j))
      BY <1>2, <2>3
    <3>2. QED
      BY <1>9, <2>1, <2>2, <2>3, <3>1 DEF Delivered
  <2>4. CASE j = Len(q) + 1
    <3>1. r \in (limit + 1)..more
      BY <1>3, <2>4
    <3>2. QED
      BY <1>0, <2>2, <3>1
  <2>5. QED
    BY <1>4, <2>3, <2>4
<1>10. Delivered(said, got, u, more)
  BY <1>0, <1>1, <1>8, <1>9 DEF Delivered
<1>11. QED
  BY <1>10 DEF u

(* The reader takes the first item.                                         *)
LEMMA TakeOK ==
  ASSUME NEW said, NEW got, NEW q, NEW limit, Delivered(said, got, q, limit), q # <<>>
  PROVE  /\ Delivered(said, got \o Head(q).got, Tail(q), limit)
         /\ Content(got, q) \subseteq Content(got \o Head(q).got, Tail(q))
<1> DEFINE first == Head(q).got
           all == got \o first
           u == Tail(q)
<1>0. got \in Seq(Nat) /\ q \in Seq(Items) /\ limit \in Nat
  BY DEF Delivered
<1>1. /\ u \in Seq(Items) /\ Len(q) \in Nat /\ Len(q) # 0 /\ Len(u) = Len(q) - 1
      /\ \A i \in 1..Len(u) : u[i] = q[i + 1]
      /\ Head(q) = q[1] /\ Head(q) \in Items
  BY <1>0, HeadTailProperties, EmptySeq, LenProperties
<1>2. first \in Seq(Nat) /\ first = Piece(got, q, 1) /\ got = Piece(got, q, 0)
  BY <1>1 DEF Items, Piece
<1>3. 0 \in 0..Len(q) /\ 1 \in 0..Len(q) /\ \A i \in 0..Len(u) : i + 1 \in 0..Len(q)
  BY <1>1
<1>4. \A i \in 0..Len(q) : /\ Ascending(Piece(got, q, i))
                           /\ Range(Piece(got, q, i)) \subseteq Visible(said) \cap 1..limit
  BY DEF Delivered
<1>5. ASSUME NEW i \in 0..Len(q), NEW j \in 0..Len(q), i < j,
             NEW p \in Range(Piece(got, q, i)), NEW r \in Range(Piece(got, q, j))
      PROVE  p < r
  BY <1>5 DEF Delivered
<1> HIDE DEF u, first
<1>6. all \in Seq(Nat) /\ Ascending(all) /\ Range(all) = Range(got) \cup Range(first)
  <2>1. Ascending(got) /\ Ascending(first)
    BY <1>2, <1>3, <1>4
  <2>2. \A p \in Range(got), r \in Range(first) : p < r
    BY <1>2, <1>3, <1>5
  <2>3. QED
    BY <1>0, <1>2, <2>1, <2>2, ConcatOrder
<1> HIDE DEF all
<1>7. ASSUME NEW i \in 1..Len(u) PROVE i + 1 \in 2..Len(q) /\ Piece(all, u, i) = Piece(got, q, i + 1)
  <2>1. i # 0 /\ i + 1 # 0 /\ i + 1 \in 2..Len(q)
    BY <1>1
  <2>2. QED
    BY <1>1, <2>1 DEF Piece
<1>8. Piece(all, u, 0) = all
  BY DEF Piece
<1>9. ASSUME NEW i \in 0..Len(u)
      PROVE  /\ Ascending(Piece(all, u, i))
             /\ Range(Piece(all, u, i)) \subseteq Visible(said) \cap 1..limit
  <2>1. CASE i = 0
    <3>1. /\ Range(got) \subseteq Visible(said) \cap 1..limit
          /\ Range(first) \subseteq Visible(said) \cap 1..limit
      BY <1>2, <1>3, <1>4
    <3>2. QED
      BY <1>6, <1>8, <2>1, <3>1
  <2>2. CASE i # 0
    <3>1. i \in 1..Len(u)
      BY <1>1, <2>2
    <3>2. QED
      BY <1>3, <1>4, <1>7, <3>1
  <2>3. QED
    BY <2>1, <2>2
<1>10. ASSUME NEW i \in 0..Len(u), NEW j \in 0..Len(u), i < j,
              NEW p \in Range(Piece(all, u, i)), NEW r \in Range(Piece(all, u, j))
       PROVE  p < r
  <2>1. j \in 1..Len(u) /\ j + 1 \in 0..Len(q) /\ 1 < j + 1 /\ 0 < j + 1
    BY <1>1, <1>10
  <2>2. r \in Range(Piece(got, q, j + 1))
    BY <1>7, <2>1
  <2>3. CASE i = 0
    <3>1. p \in Range(Piece(got, q, 0)) \/ p \in Range(Piece(got, q, 1))
      BY <1>2, <1>6, <1>8, <2>3
    <3>2. QED
      BY <1>3, <1>5, <2>1, <2>2, <3>1
  <2>4. CASE i # 0
    <3>1. i \in 1..Len(u) /\ i + 1 \in 0..Len(q) /\ i + 1 < j + 1
      BY <1>1, <1>10, <2>4
    <3>2. p \in Range(Piece(got, q, i + 1))
      BY <1>7, <3>1
    <3>3. QED
      BY <1>5, <2>1, <2>2, <3>1, <3>2
  <2>5. QED
    BY <2>3, <2>4
<1>11. Delivered(said, all, u, limit)
  BY <1>0, <1>1, <1>6, <1>9, <1>10 DEF Delivered
<1>12. ASSUME NEW p \in Content(got, q) PROVE p \in Content(all, u)
  <2>1. PICK i \in 0..Len(q) : p \in Range(Piece(got, q, i))
    BY <1>12 DEF Content
  <2>2. 0 \in 0..Len(u)
    BY <1>1
  <2>3. CASE i = 0 \/ i = 1
    <3>1. p \in Range(Piece(all, u, 0))
      BY <1>2, <1>6, <1>8, <2>1, <2>3
    <3>2. QED
      BY <2>2, <3>1 DEF Content
  <2>4. CASE i # 0 /\ i # 1
    <3>1. i - 1 \in 1..Len(u) /\ i - 1 \in 0..Len(u) /\ (i - 1) + 1 = i
      BY <1>1, <2>4
    <3>2. p \in Range(Piece(all, u, i - 1))
      BY <1>7, <2>1, <3>1
    <3>3. QED
      BY <3>1, <3>2 DEF Content
  <2>5. QED
    BY <2>3, <2>4
<1>13. QED
  BY <1>11, <1>12 DEF all, first, u

LEMMA DeliveredLater ==
  ASSUME NEW said, NEW got, NEW q, NEW limit, Delivered(said, got, q, limit),
         NEW more \in Nat, limit <= more
  PROVE  Delivered(said, got, q, more)
<1>1. limit \in Nat /\ 1..limit \subseteq 1..more
  BY DEF Delivered
<1>2. \A i \in 0..Len(q) : Range(Piece(got, q, i)) \subseteq Visible(said) \cap 1..more
  BY <1>1 DEF Delivered
<1>3. QED
  BY <1>2 DEF Delivered

LEMMA NothingDelivered ==
  ASSUME NEW said PROVE Delivered(said, <<>>, <<>>, 0)
<1>1. <<>> \in Seq(Nat) /\ <<>> \in Seq(Items) /\ Len(<<>>) = 0 /\ Range(<<>>) = {}
      /\ Ascending(<<>>) /\ 0 \in Nat
  BY EmptySeq DEF Range, Ascending
<1>2. \A i \in 0..0 : i = 0
  OBVIOUS
<1>3. Piece(<<>>, <<>>, 0) = <<>>
  BY DEF Piece
<1>4. \A i, j \in 0..0 : ~(i < j)
  OBVIOUS
<1>5. QED
  BY <1>1, <1>2, <1>3, <1>4 DEF Delivered

-----------------------------------------------------------------------------
(* What is left of a whole text                                             *)

LEMMA InOrderIs ==
  ASSUME NEW said \in Seq(Chars), NEW kept
  PROVE  LET order == InOrder(said, kept)
         IN  order \in Seq(Nat) /\ Ascending(order) /\ Range(order) = kept \cap 1..Len(said)
<1> DEFINE D == 0..Len(said)
           V == Seq(Nat)
           Body(f, p) == IF p = 0 THEN <<>> ELSE IF p \in kept THEN Append(f[p - 1], p) ELSE f[p - 1]
           step == [p \in D |-> [f \in [D -> V] |-> Body(f, p)]]
           rank == [p \in D |-> p]
           P(g) == g = [p \in D |-> Body(g, p)]
           upTo == CHOOSE g : P(g)
<1>0. Len(said) \in Nat /\ <<>> \in V
  BY LenProperties
<1>1. ASSUME NEW p \in D, NEW f \in [D -> V], NEW g \in [D -> V],
             \A q \in D : rank[q] < rank[p] => f[q] = g[q]
      PROVE  Body(f, p) \in V /\ Body(f, p) = Body(g, p)
  <2>1. CASE p = 0
    BY <1>0, <2>1
  <2>2. CASE p # 0
    <3>1. p - 1 \in D /\ rank[p - 1] < rank[p] /\ p \in Nat
      BY <1>0, <2>2
    <3>2. f[p - 1] = g[p - 1] /\ f[p - 1] \in V
      BY <1>1, <3>1
    <3>3. Append(f[p - 1], p) \in V
      BY <3>1, <3>2, AppendProperties
    <3>4. QED
      BY <2>2, <3>2, <3>3
  <2>3. QED
    BY <2>1, <2>2
<1>2. rank \in [D -> 0..Len(said)]
  OBVIOUS
<1>3. InOrder(said, kept) = upTo[Len(said)]
  BY DEF InOrder
<1> HIDE DEF Body
<1>4. step \in [D -> [[D -> V] -> V]]
  <2>1. ASSUME NEW p \in D, NEW f \in [D -> V] PROVE Body(f, p) \in V
    BY <1>1
  <2>2. QED
    BY <2>1
<1>5. \A p \in D, f \in [D -> V] : step[p][f] = Body(f, p)
  OBVIOUS
<1> HIDE DEF step, rank
<1>6. \A p \in D, f, g \in [D -> V] :
        (\A q \in D : rank[q] < rank[p] => f[q] = g[q]) => step[p][f] = step[p][g]
  <2> HIDE DEF D, V
  <2>1. QED
    BY <1>1, <1>5
<1>7. PICK h \in [D -> V] : \A p \in D : h[p] = step[p][h]
  <2>1. Ranked(D, V, Len(said), rank, step)
    BY <1>0, <1>2, <1>4, <1>6 DEF Ranked
  <2> HIDE DEF D, V
  <2>2. QED
    BY <2>1, Recursion
<1>8. P(h)
  BY <1>5, <1>7
<1>9. P(upTo)
  <2> HIDE DEF P
  <2>1. QED
    BY <1>8
<1>10. \A p \in D : upTo[p] = Body(upTo, p)
  BY <1>9
<1> HIDE DEF upTo
<1> DEFINE OK(p) == /\ upTo[p] \in Seq(Nat) /\ Ascending(upTo[p])
                    /\ Range(upTo[p]) = kept \cap 1..p
           S == {p \in Nat : p \in D => OK(p)}
<1>11. 0 \in S
  <2>1. upTo[0] = <<>>
    <3>1. 0 \in D
      BY <1>0
    <3>2. upTo[0] = Body(upTo, 0)
      BY <1>10, <3>1
    <3>3. QED
      BY <3>2 DEF Body
  <2>2. Range(<<>>) = {} /\ Ascending(<<>>) /\ 1..0 = {}
    BY DEF Range, Ascending
  <2>3. QED
    BY <1>0, <2>1, <2>2
<1>12. ASSUME NEW n \in Nat, n \in S PROVE n + 1 \in S
  <2> SUFFICES ASSUME n + 1 \in D PROVE OK(n + 1)
    OBVIOUS
  <2> DEFINE p == n + 1
             s == upTo[n]
  <2>1. p \in Nat /\ p # 0 /\ p - 1 = n /\ n \in D
    BY <1>0
  <2>2. s \in Seq(Nat) /\ Ascending(s) /\ Range(s) = kept \cap 1..n
    BY <1>12, <2>1
  <2>3. upTo[p] = IF p \in kept THEN Append(s, p) ELSE s
    <3>1. upTo[p] = Body(upTo, p)
      BY <1>10
    <3>2. QED
      BY <2>1, <3>1 DEF Body
  <2>4. 1..p = 1..n \cup {p}
    OBVIOUS
  <2> HIDE DEF p, s
  <2>5. CASE p \notin kept
    BY <2>2, <2>3, <2>4, <2>5 DEF p
  <2>6. CASE p \in kept
    <3> DEFINE t == <<p>>
    <3>1. t \in Seq(Nat) /\ Len(t) = 1 /\ t[1] = p
      BY <2>1
    <3>2. Range(t) = {p}
      <4>1. 1..Len(t) = {1}
        BY <3>1
      <4>2. \A q : q \in Range(t) <=> \E k \in 1..Len(t) : t[k] = q
        BY <3>1, RangeOf
      <4> HIDE DEF t
      <4>3. QED
        BY <3>1, <4>1, <4>2
    <3>3. Ascending(t)
      BY <2>1 DEF Ascending
    <3> HIDE DEF t
    <3>4. \A q \in Range(s), r \in Range(t) : q < r
      <4> SUFFICES ASSUME NEW q \in 1..n PROVE q < p
        BY <2>2, <3>2
      <4>1. QED
        BY DEF p
    <3>5. s \o t \in Seq(Nat) /\ Ascending(s \o t) /\ Range(s \o t) = Range(s) \cup Range(t)
      BY <2>2, <3>1, <3>3, <3>4, ConcatOrder
    <3>6. Append(s, p) = s \o t
      BY <2>1, <2>2, AppendIsConcat DEF t
    <3>7. upTo[p] = s \o t
      BY <2>3, <2>6, <3>6
    <3>8. Range(upTo[p]) = kept \cap 1..p
      BY <2>2, <2>4, <2>6, <3>2, <3>5, <3>7
    <3>9. OK(p)
      BY <3>5, <3>7, <3>8
    <3>10. QED
      BY <3>9 DEF p
  <2>7. QED
    BY <2>5, <2>6
<1> HIDE DEF OK
<1>13. Nat \subseteq S
  <2> HIDE DEF S
  <2>1. QED
    BY <1>11, <1>12, Inductive
<1>14. OK(Len(said))
  <2>1. Len(said) \in S /\ Len(said) \in D
    BY <1>0, <1>13
  <2>2. QED
    BY <2>1
<1>15. QED
  BY <1>3, <1>14 DEF OK

(* Two sequences that ascend and have the same numbers are the same.        *)
LEMMA AscendingLeft ==
  ASSUME NEW s \in Seq(Nat), NEW t \in Seq(Nat), Ascending(s), Ascending(t), Range(s) = Range(t),
         NEW n \in 1..Len(s), \A k \in 1..Len(s) : k < n => k \in 1..Len(t) /\ s[k] = t[k]
  PROVE  n \in 1..Len(t) /\ t[n] <= s[n]
<1>0. /\ DOMAIN s = 1..Len(s) /\ DOMAIN t = 1..Len(t) /\ Len(s) \in Nat /\ Len(t) \in Nat
      /\ \A k \in 1..Len(s) : s[k] \in Nat
      /\ \A k \in 1..Len(t) : t[k] \in Nat
  BY LenProperties, ElementOfSeq
<1>1. PICK m \in 1..Len(t) : t[m] = s[n]
  BY RangeOf
<1>2. ~(m < n)
  <2> SUFFICES ASSUME m < n PROVE FALSE
    OBVIOUS
  <2>1. m \in 1..Len(s)
    BY <1>0
  <2>2. s[m] = t[m] /\ s[m] < s[n]
    BY <1>0, <2>1 DEF Ascending
  <2>3. s[m] \in Nat /\ s[n] \in Nat
    BY <1>0, <2>1
  <2>4. QED
    BY <1>1, <2>2, <2>3
<1>3. n \in 1..Len(t)
  BY <1>0, <1>2
<1>4. t[n] <= t[m]
  <2>1. CASE n = m
    BY <1>0, <1>3, <2>1
  <2>2. CASE n < m
    <3>1. t[n] < t[m]
      BY <1>0, <1>3, <2>2 DEF Ascending
    <3>2. QED
      BY <1>0, <1>3, <3>1
  <2>3. QED
    BY <1>0, <1>2, <1>3, <2>1, <2>2
<1>5. QED
  BY <1>1, <1>3, <1>4

LEMMA AscendingUnique ==
  ASSUME NEW s \in Seq(Nat), NEW t \in Seq(Nat), Ascending(s), Ascending(t), Range(s) = Range(t)
  PROVE  s = t
<1> DEFINE Same(n) == /\ \A k \in 1..Len(s) : k <= n => k \in 1..Len(t) /\ s[k] = t[k]
                      /\ \A k \in 1..Len(t) : k <= n => k \in 1..Len(s) /\ s[k] = t[k]
           S == {n \in Nat : Same(n)}
<1>0. /\ Len(s) \in Nat /\ Len(t) \in Nat
      /\ \A k \in 1..Len(s) : s[k] \in Nat
      /\ \A k \in 1..Len(t) : t[k] \in Nat
  BY LenProperties, ElementOfSeq
<1>1. 0 \in S
  <2>1. \A k \in 1..Len(s) : ~(k <= 0)
    OBVIOUS
  <2>2. \A k \in 1..Len(t) : ~(k <= 0)
    OBVIOUS
  <2>3. QED
    BY <2>1, <2>2
<1>2. ASSUME NEW n \in Nat, n \in S PROVE n + 1 \in S
  <2>0. \A k \in Nat : k < n + 1 <=> k <= n
    OBVIOUS
  <2>1. /\ \A k \in 1..Len(s) : k < n + 1 => k \in 1..Len(t) /\ s[k] = t[k]
        /\ \A k \in 1..Len(t) : k < n + 1 => k \in 1..Len(s) /\ t[k] = s[k]
    <3>1. Same(n)
      BY <1>2
    <3>2. QED
      BY <2>0, <3>1
  <2>2. n + 1 \in 1..Len(s) => n + 1 \in 1..Len(t) /\ t[n + 1] <= s[n + 1]
    BY <2>1, AscendingLeft
  <2>3. n + 1 \in 1..Len(t) => n + 1 \in 1..Len(s) /\ s[n + 1] <= t[n + 1]
    BY <2>1, AscendingLeft
  <2>4. n + 1 \in 1..Len(s) \/ n + 1 \in 1..Len(t) =>
          n + 1 \in 1..Len(s) /\ n + 1 \in 1..Len(t) /\ s[n + 1] = t[n + 1]
    <3> SUFFICES ASSUME n + 1 \in 1..Len(s) \/ n + 1 \in 1..Len(t)
                 PROVE  n + 1 \in 1..Len(s) /\ n + 1 \in 1..Len(t) /\ s[n + 1] = t[n + 1]
      OBVIOUS
    <3>1. n + 1 \in 1..Len(s) /\ n + 1 \in 1..Len(t)
      BY <2>2, <2>3
    <3>2. PICK a, b \in Nat : a = s[n + 1] /\ b = t[n + 1]
      BY <1>0, <3>1
    <3>3. a <= b /\ b <= a
      BY <2>2, <2>3, <3>1, <3>2
    <3>4. a = b
      BY <3>3
    <3>5. QED
      BY <3>1, <3>2, <3>4
  <2>5. \A k \in Nat : k <= n + 1 => k < n + 1 \/ k = n + 1
    OBVIOUS
  <2>6. Same(n + 1)
    BY <2>1, <2>4, <2>5
  <2>7. QED
    BY <2>6
<1>3. Nat \subseteq S
  <2> HIDE DEF S
  <2>1. QED
    BY <1>1, <1>2, Inductive
<1>4. Len(s) + Len(t) \in Nat /\ \A k \in 1..Len(s) : k <= Len(s) + Len(t)
  BY <1>0
<1>5. \A k \in 1..Len(t) : k <= Len(s) + Len(t)
  BY <1>0
<1>6. Same(Len(s) + Len(t))
  BY <1>3, <1>4
<1>7. /\ \A k \in 1..Len(s) : k \in 1..Len(t) /\ s[k] = t[k]
      /\ \A k \in 1..Len(t) : k \in 1..Len(s)
  BY <1>4, <1>5, <1>6
<1>8. Len(s) = Len(t)
  <2>1. Len(s) <= Len(t)
    <3>1. CASE Len(s) = 0
      BY <1>0, <3>1
    <3>2. CASE Len(s) # 0
      <4>1. Len(s) \in 1..Len(s)
        BY <1>0, <3>2
      <4>2. QED
        BY <1>0, <1>7, <4>1
    <3>3. QED
      BY <3>1, <3>2
  <2>2. Len(t) <= Len(s)
    <3>1. CASE Len(t) = 0
      BY <1>0, <3>1
    <3>2. CASE Len(t) # 0
      <4>1. Len(t) \in 1..Len(t)
        BY <1>0, <3>2
      <4>2. QED
        BY <1>0, <1>7, <4>1
    <3>3. QED
      BY <3>1, <3>2
  <2>3. QED
    BY <1>0, <2>1, <2>2
<1>9. QED
  BY <1>7, <1>8, SeqEqual

(* A block that is open at m is closed by a tag further on, unless it is    *)
(* open at the end.                                                         *)
LEMMA BlockCloses ==
  ASSUME NEW said \in Seq(Chars), NEW m \in 1..Len(said), InBlock(said)[m] = TRUE,
         InBlock(said)[Len(said) + 1] = FALSE
  PROVE  \E q \in m..Len(said) : InBlock(said)[q] = TRUE /\ EndsTag(said, Close, q)
<1> SUFFICES ASSUME \A q \in m..Len(said) : InBlock(said)[q] = TRUE => ~EndsTag(said, Close, q)
             PROVE  FALSE
  OBVIOUS
<1>0. Len(said) \in Nat /\ m \in Nat
  BY LenProperties
<1>b. PICK yes \in BOOLEAN : yes = TRUE
  OBVIOUS
<1> DEFINE in == InBlock(said)
           S == {d \in Nat : m + d <= Len(said) + 1 => in[m + d] = yes}
<1>1. 0 \in S
  <2>0. m + 0 = m
    BY <1>0
  <2>1. in[m + 0] = yes
    BY <1>b, <2>0
  <2>2. QED
    BY <2>1
<1>2. ASSUME NEW d \in Nat, d \in S PROVE d + 1 \in S
  <2> SUFFICES ASSUME m + (d + 1) <= Len(said) + 1 PROVE in[m + (d + 1)] = yes
    OBVIOUS
  <2> DEFINE p == m + d
  <2>1. p \in m..Len(said) /\ p \in 1..Len(said) /\ m + (d + 1) = p + 1 /\ p <= Len(said) + 1
    BY <1>0
  <2>2. in[p] = TRUE
    BY <1>2, <1>b, <2>1
  <2> HIDE DEF p
  <2>3. ~EndsTag(said, Close, p)
    BY <2>1, <2>2
  <2>4. in[p + 1] = IF in[p] THEN ~EndsTag(said, Close, p) ELSE EndsTag(said, Open, p)
    BY <2>1, InBlockIs
  <2>5. in[p + 1] = TRUE
    BY <2>2, <2>3, <2>4
  <2>6. QED
    BY <1>b, <2>1, <2>5
<1>3. Nat \subseteq S
  <2> HIDE DEF S
  <2>1. QED
    BY <1>1, <1>2, Inductive
<1>4. Len(said) + 1 - m \in Nat /\ m + (Len(said) + 1 - m) = Len(said) + 1
  BY <1>0
<1>5. in[Len(said) + 1] = TRUE
  <2>1. in[m + (Len(said) + 1 - m)] = yes
    BY <1>3, <1>4
  <2>2. QED
    BY <1>b, <1>4, <2>1
<1>6. QED
  BY <1>5

(* Of a text whose last block is closed, every hidden character is in a     *)
(* block that is closed.                                                    *)
LEMMA HiddenIsClosed ==
  ASSUME NEW said \in Seq(Chars), InBlock(said)[Len(said) + 1] = FALSE
  PROVE  DOMAIN said \ ClosedBlocks(said) = Visible(said)
<1>0. /\ DOMAIN said = 1..Len(said) /\ Len(said) \in Nat
      /\ InBlock(said) \in [1..(Len(said) + 1) -> BOOLEAN]
  BY LenProperties, InBlockIs
<1>1. Visible(said) \subseteq DOMAIN said /\ Visible(said) \cap ClosedBlocks(said) = {}
  BY DEF Visible, ClosedBlocks
<1>2. ASSUME NEW p \in DOMAIN said, p \notin Visible(said) PROVE p \in ClosedBlocks(said)
  <2>1. PICK m \in 1..Len(said) : p <= m /\ InBlock(said)[m] = TRUE
    <3>1. CASE InBlock(said)[p] = TRUE
      BY <1>0, <3>1
    <3>2. CASE InBlock(said)[p] = FALSE
      <4>1. PICK k \in 0..(TagLen - 1) :
              p + k <= Len(said) /\ EndsTag(said, Open, p + k) /\ ~InBlock(said)[p + k]
        BY <1>2, <3>2 DEF Visible
      <4> DEFINE e == p + k
      <4>2. e \in 1..Len(said) /\ e + 1 \in 1..(Len(said) + 1) /\ p <= e + 1
        BY <1>0, <4>1 DEF TagLen
      <4>3. EndsTag(said, Open, e) /\ ~InBlock(said)[e]
        BY <4>1
      <4> HIDE DEF e
      <4>4. InBlock(said)[e + 1] = IF InBlock(said)[e] THEN ~EndsTag(said, Close, e)
                                                      ELSE EndsTag(said, Open, e)
        BY <4>2, InBlockIs
      <4>5. InBlock(said)[e + 1] \in BOOLEAN /\ InBlock(said)[e + 1]
        <5>1. InBlock(said)[e + 1] \in BOOLEAN
          BY <1>0, <4>2
        <5>2. QED
          BY <4>3, <4>4, <5>1
      <4>6. e + 1 # Len(said) + 1
        <5> SUFFICES ASSUME e + 1 = Len(said) + 1 PROVE FALSE
          OBVIOUS
        <5>1. InBlock(said)[e + 1] = FALSE
          OBVIOUS
        <5>2. QED
          BY <4>5, <5>1
      <4>7. e + 1 \in 1..Len(said)
        BY <1>0, <4>2, <4>6
      <4>8. InBlock(said)[e + 1] = TRUE
        BY <4>5
      <4>9. QED
        BY <4>2, <4>7, <4>8
    <3>3. InBlock(said)[p] \in BOOLEAN
      <4>1. p \in 1..(Len(said) + 1)
        BY <1>0
      <4>2. QED
        BY <1>0, <4>1
    <3>4. QED
      BY <3>1, <3>2, <3>3
  <2>2. PICK q \in m..Len(said) : InBlock(said)[q] = TRUE /\ EndsTag(said, Close, q)
    BY <2>1, BlockCloses
  <2>3. q \in p..Len(said)
    BY <1>0, <2>1
  <2>4. QED
    BY <1>2, <2>2, <2>3 DEF ClosedBlocks
<1>3. QED
  BY <1>1, <1>2

LEMMA StripIs ==
  ASSUME NEW said \in Seq(Chars)
  PROVE  LET left == StripThinkBlocks(said)
         IN  /\ left \in Seq(Nat) /\ Ascending(left)
             /\ Range(left) \cap ClosedBlocks(said) = {}
             /\ /\ InBlock(said)[Len(said) + 1] = FALSE
                /\ \A tag \in {Open, Close} : TagsIn(said, Visible(said), tag) = {}
                => Range(left) = Visible(said)
<1> DEFINE outside == DOMAIN said \ ClosedBlocks(said)
           kept == Without(said, Without(said, outside, Open), Close)
<1>1. StripThinkBlocks(said) = InOrder(said, kept)
  BY DEF StripThinkBlocks
<1>2. kept \subseteq outside
  BY DEF Without
<1> HIDE DEF kept
<1>3. LET order == InOrder(said, kept)
      IN  order \in Seq(Nat) /\ Ascending(order) /\ Range(order) = kept \cap 1..Len(said)
  BY InOrderIs
<1>4. ASSUME InBlock(said)[Len(said) + 1] = FALSE,
             \A tag \in {Open, Close} : TagsIn(said, Visible(said), tag) = {}
      PROVE  kept = Visible(said) /\ Visible(said) \subseteq 1..Len(said)
  <2>1. outside = Visible(said)
    BY <1>4, HiddenIsClosed
  <2>2. Without(said, Visible(said), Open) = Visible(said)
    BY <1>4 DEF Without
  <2>3. Without(said, Visible(said), Close) = Visible(said)
    BY <1>4 DEF Without
  <2>4. kept = Visible(said)
    BY <2>1, <2>2, <2>3 DEF kept
  <2>5. Visible(said) \subseteq 1..Len(said)
    BY Hidden
  <2>6. QED
    BY <2>4, <2>5
<1>5. QED
  BY <1>1, <1>2, <1>3, <1>4

(* strip() leaves a part of what it is given, in order.                     *)
LEMMA StripPart ==
  ASSUME NEW said, NEW left \in Seq(Nat), Ascending(left)
  PROVE  LET part == Strip(said, left)
         IN  part \in Seq(Nat) /\ Ascending(part) /\ Range(part) \subseteq Range(left)
<1> DEFINE ink == {i \in DOMAIN left : said[left[i]] # Blank}
           part == Strip(said, left)
<1>0. Len(left) \in Nat /\ DOMAIN left = 1..Len(left) /\ \A i \in 1..Len(left) : left[i] \in Nat
  BY LenProperties, ElementOfSeq
<1>1. CASE ink = {}
  <2>1. part = <<>>
    BY <1>1 DEF Strip
  <2>2. part \in Seq(Nat) /\ DOMAIN part = {}
    BY <2>1
  <2>3. QED
    BY <2>2 DEF Ascending, Range
<1>2. CASE ink # {}
  <2>1. ink \in SUBSET Nat /\ ink \in SUBSET (0..Len(left))
    BY <1>0
  <2>2. /\ \E m \in ink : \A k \in ink : m <= k
        /\ \E m \in ink : \A k \in ink : k <= m
    BY <1>0, <1>2, <2>1, Least, Greatest
  <2>3. \E m \in ink : \A k \in ink : m >= k
    BY <2>1, <2>2
  <2>4. Min(ink) \in ink /\ Max(ink) \in ink
    BY <2>2, <2>3 DEF Min, Max
  <2>5. PICK lo \in 1..Len(left), hi \in 1..Len(left) : lo = Min(ink) /\ hi = Max(ink)
    BY <1>0, <2>4
  <2>6. part = SubSeq(left, lo, hi)
    BY <1>2, <2>5 DEF Strip
  <2> HIDE DEF part, ink
  <2>7. lo \in Int /\ hi \in Int /\ \A i \in lo..hi : left[i] \in Nat
    BY <1>0
  <2>8. /\ part \in Seq(Nat)
        /\ Len(part) = IF lo <= hi THEN hi - lo + 1 ELSE 0
        /\ \A i \in 1..(hi - lo + 1) : part[i] = left[lo + i - 1]
    BY <2>6, <2>7, SubSeqProperties
  <2>9. DOMAIN part = 1..Len(part)
    BY <2>8, LenProperties
  <2>10. \A i \in DOMAIN part : lo + i - 1 \in DOMAIN left /\ part[i] = left[lo + i - 1]
    <3> SUFFICES ASSUME NEW i \in DOMAIN part
                 PROVE  lo + i - 1 \in DOMAIN left /\ part[i] = left[lo + i - 1]
      OBVIOUS
    <3>1. i \in 1..(hi - lo + 1)
      BY <2>8, <2>9
    <3>2. lo + i - 1 \in 1..Len(left)
      BY <1>0, <3>1
    <3>3. QED
      BY <1>0, <2>8, <3>1, <3>2
  <2>11. Ascending(part)
    <3> SUFFICES ASSUME NEW k \in DOMAIN part, NEW l \in DOMAIN part, k < l
                 PROVE  part[k] < part[l]
      BY DEF Ascending
    <3>1. lo + k - 1 < lo + l - 1
      BY <2>8, <2>9
    <3>2. left[lo + k - 1] < left[lo + l - 1]
      BY <2>10, <3>1 DEF Ascending
    <3>3. QED
      BY <2>10, <3>2
  <2>12. Range(part) \subseteq Range(left)
    BY <2>10 DEF Range
  <2>13. QED
    BY <2>8, <2>11, <2>12 DEF part
<1>3. QED
  BY <1>1, <1>2

(* A full answer has nothing of a closed block, and the rest in order.      *)
LEMMA MessageIs ==
  ASSUME NEW said \in Seq(Chars)
  PROVE  LET content == MessageContent(said)
         IN  /\ content \in Seq(Nat) /\ Ascending(content)
             /\ Range(content) \cap ClosedBlocks(said) = {}
<1> DEFINE left == StripThinkBlocks(said)
           content == MessageContent(said)
<1>1. left \in Seq(Nat) /\ Ascending(left) /\ Range(left) \cap ClosedBlocks(said) = {}
  BY StripIs
<1>2. content = Strip(said, left)
  BY DEF MessageContent
<1> HIDE DEF left, content
<1>3. content \in Seq(Nat) /\ Ascending(content) /\ Range(content) \subseteq Range(left)
  BY <1>1, <1>2, StripPart
<1>4. QED
  BY <1>1, <1>3 DEF content

-----------------------------------------------------------------------------
(* The inductive invariant                                                  *)

Readers == [pc : {"waiting", "joining", "complete", "failed", "left"}, got : Seq(Nat),
            error : Errors \cup {"none"}]

GatewayType ==
  /\ kind \in {"stream", "text", "json"}
  /\ pc \in {"build", "send", "reading", "closing", "finally", "ended"}
  /\ text = <<>> \/ text \in Texts
  /\ sent \in 0..Len(text) /\ terminal \in BOOLEAN
  /\ filter \in [inside : BOOLEAN, held : 0..2]
  /\ swallowed \subseteq DOMAIN text
  /\ error \in Errors \cup {"none"}
  /\ queue \in Seq(Items) /\ reader \in Readers

(* Until the request is answered there is nothing.                          *)
Unanswered ==
  pc \in {"build", "send"} =>
    /\ text = <<>> /\ sent = 0 /\ terminal = FALSE
    /\ filter.inside = FALSE /\ filter.held = 0
    /\ swallowed = {} /\ error = "none" /\ queue = <<>>
    /\ reader.pc \in {"waiting", "left"} /\ reader.got = <<>>

(* A full answer comes at once, without the thread and its queue.           *)
Full ==
  kind # "stream" =>
    /\ pc \in {"build", "send", "ended"} /\ queue = <<>> /\ error = "none"
    /\ Ascending(reader.got) /\ Range(reader.got) \cap ClosedBlocks(text) = {}
    /\ reader.pc \in IF pc = "ended" THEN {"complete", "failed"} ELSE {"waiting"}
    /\ reader.pc = "complete" => sent = Len(text)

(* While a stream is read, the filter is ready at the first character it    *)
(* holds back.                                                              *)
Reading ==
  kind = "stream" /\ pc \in {"reading", "closing"} =>
    /\ error = "none" /\ filter.held <= sent
    /\ Ready(text, sent + 1 - filter.held, filter.inside)

(* A stream that ends without an error has been sent to its end.            *)
AtEnd ==
  kind = "stream" =>
    /\ terminal = TRUE => sent = Len(text)
    /\ pc \in {"finally", "ended"} /\ error = "none" => sent = Len(text)

(* How much of the text has left the filter.                                *)
Limit == IF pc \in {"reading", "closing"} THEN sent - filter.held ELSE sent

(* What has left it reaches the reader, unless a feed swallowed it.         *)
Whole ==
  kind = "stream" =>
    /\ Delivered(text, reader.got, queue, Limit)
    /\ error = "none" =>
         Visible(text) \cap 1..Limit \subseteq swallowed \cup Content(reader.got, queue)

(* The last items: the error there was, and the end.                        *)
LastItems ==
  kind = "stream" =>
    /\ \A i \in 1..Len(queue) :
         /\ queue[i].item # "token" => queue[i].got = <<>>
         /\ queue[i].item = "error" => error # "none"
         /\ queue[i].item = "done" => pc = "ended" /\ i = Len(queue)
    /\ reader.pc = "waiting" /\ error # "none" => \E i \in 1..Len(queue) : queue[i].item = "error"
    /\ reader.pc \in {"joining", "complete", "failed"} =>
         /\ reader.error = error
         /\ error = "none" => pc = "ended" /\ queue = <<>>
    /\ reader.pc = "complete" => error = "none"
    /\ reader.pc = "failed" => error # "none"

GatewayInv ==
  /\ GatewayType /\ Unanswered /\ Full /\ Reading /\ AtEnd /\ Whole /\ LastItems

LEMMA TextIs ==
  ASSUME NEW said, said = <<>> \/ said \in Texts
  PROVE  said \in Seq(Chars) /\ Len(said) \in Nat /\ DOMAIN said = 1..Len(said)
<1>1. said \in Seq(STRING)
  <2>1. <<>> \in Seq(STRING) /\ Texts \subseteq Seq(STRING)
    BY GatewayAssumption, EmptySeq
  <2>2. QED
    BY <2>1
<1>2. STRING \subseteq Chars
  BY DEF Chars
<1>3. said \in Seq(Chars)
  <2>1. /\ Len(said) \in Nat /\ said = [i \in 1..Len(said) |-> said[i]]
        /\ \A i \in 1..Len(said) : said[i] \in STRING
    BY <1>1, LenProperties
  <2>2. \A i \in 1..Len(said) : said[i] \in Chars
    BY <1>2, <2>1
  <2>3. [i \in 1..Len(said) |-> said[i]] \in Seq(Chars)
    BY <2>1, <2>2
  <2>4. QED
    BY <2>1, <2>3
<1>4. QED
  BY <1>3, LenProperties

(* What a feed or the flush lets through is put in the queue, if anything.  *)
LEMMA TokenItems ==
  ASSUME NEW q \in Seq(Items), NEW visible \in Seq(Nat)
  PROVE  LET u == q \o Token(visible)
         IN  /\ u \in Seq(Items)
             /\ \A i \in 1..Len(u) : (i \in 1..Len(q) /\ u[i] = q[i]) \/ u[i].item = "token"
<1> DEFINE u == q \o Token(visible)
<1>1. CASE visible = <<>>
  <2>1. u = q
    BY <1>1, ConcatEmptySeq DEF Token
  <2>2. QED
    BY <2>1
<1>2. CASE visible # <<>>
  <2> DEFINE item == [item |-> "token", got |-> visible]
  <2>1. item \in Items /\ item.item = "token"
    BY DEF Items
  <2>2. u = q \o <<item>>
    BY <1>2 DEF Token
  <2> HIDE DEF item
  <2>3. /\ u \in Seq(Items) /\ Len(u) = Len(q) + 1 /\ Len(q) \in Nat
        /\ \A i \in 1..Len(q) : u[i] = q[i]
        /\ u[Len(q) + 1] = item
    BY <2>1, <2>2, ItemPut
  <2> HIDE DEF u
  <2>4. \A i \in 1..Len(u) : i \in 1..Len(q) \/ i = Len(q) + 1
    BY <2>3
  <2>5. \A i \in 1..Len(u) : (i \in 1..Len(q) /\ u[i] = q[i]) \/ u[i].item = "token"
    BY <2>1, <2>3, <2>4
  <2>6. QED
    BY <2>3, <2>5 DEF u
<1>3. QED
  BY <1>1, <1>2

LEMMA TokenContent ==
  ASSUME NEW got \in Seq(Nat), NEW q \in Seq(Items), NEW visible \in Seq(Nat)
  PROVE  Content(got, q \o Token(visible)) = Content(got, q) \cup Range(visible)
<1>1. CASE visible = <<>>
  <2>1. q \o Token(visible) = q
    BY <1>1, ConcatEmptySeq DEF Token
  <2>2. Range(visible) = {}
    BY <1>1 DEF Range
  <2>3. QED
    BY <2>1, <2>2
<1>2. CASE visible # <<>>
  <2> DEFINE item == [item |-> "token", got |-> visible]
  <2>1. item \in Items /\ item.got = visible
    BY DEF Items
  <2>2. q \o Token(visible) = q \o <<item>>
    BY <1>2 DEF Token
  <2> HIDE DEF item
  <2>3. QED
    BY <2>1, <2>2, ItemContent
<1>3. QED
  BY <1>1, <1>2

LEMMA TokenPut ==
  ASSUME NEW said, NEW got, NEW q, NEW limit, Delivered(said, got, q, limit),
         NEW visible \in Seq(Nat), NEW more \in Nat, limit <= more, Ascending(visible),
         Range(visible) \subseteq Visible(said) \cap (limit + 1)..more,
         NEW u, u = q \o Token(visible)
  PROVE  Delivered(said, got, u, more)
<1>1. CASE visible = <<>>
  <2>1. u = q
    BY <1>1, ConcatEmptySeq DEF Token, Delivered
  <2>2. QED
    BY <2>1, DeliveredLater
<1>2. CASE visible # <<>>
  <2> DEFINE item == [item |-> "token", got |-> visible]
  <2>1. item \in Items /\ item.got = visible
    BY DEF Items
  <2>2. u = q \o <<item>>
    BY <1>2 DEF Token
  <2> HIDE DEF item
  <2>3. QED
    BY <2>1, <2>2, PutOK
<1>3. QED
  BY <1>1, <1>2

(* An item without text.                                                    *)
LEMMA SignalContent ==
  ASSUME NEW got \in Seq(Nat), NEW q \in Seq(Items), NEW item \in Items, item.got = <<>>
  PROVE  Content(got, q \o <<item>>) = Content(got, q)
<1>1. Range(item.got) = {}
  BY DEF Range
<1>2. Content(got, q \o <<item>>) = Content(got, q) \cup Range(item.got)
  BY ItemContent
<1>3. QED
  BY <1>1, <1>2

LEMMA SignalPut ==
  ASSUME NEW said, NEW got, NEW q, NEW limit, Delivered(said, got, q, limit),
         NEW item \in Items, item.got = <<>>, NEW u, u = q \o <<item>>
  PROVE  Delivered(said, got, u, limit)
<1>1. q \in Seq(Items) /\ Len(q) \in Nat /\ limit \in Nat
  BY LenProperties DEF Delivered
<1>2. <<>> \in Seq(Nat) /\ Range(<<>>) = {} /\ Ascending(<<>>)
  BY DEF Range, Ascending
<1>3. Ascending(item.got) /\ Range(item.got) = {}
  BY <1>2
<1>4. PICK more \in Nat : more = limit
  BY <1>1
<1>5. limit <= more /\ Range(item.got) \subseteq Visible(said) \cap (limit + 1)..more
  BY <1>1, <1>3, <1>4
<1>6. Delivered(said, got, q \o <<item>>, more)
  BY <1>3, <1>5, PutOK
<1>7. QED
  BY <1>4, <1>6

LEMMA InitGateway == Init => GatewayInv
<1> SUFFICES ASSUME Init PROVE GatewayInv
  OBVIOUS
<1>1. Len(text) = 0 /\ text = <<>> /\ queue = <<>> /\ <<>> \in Seq(Nat) /\ <<>> \in Seq(Items)
  BY DEF Init
<1>2. GatewayType
  <2>1. reader \in Readers
    BY <1>1 DEF Init, Readers
  <2>2. filter \in [inside : BOOLEAN, held : 0..2]
    BY DEF Init
  <2>3. /\ sent \in 0..Len(text) /\ swallowed \subseteq DOMAIN text
        /\ queue \in Seq(Items) /\ error \in Errors \cup {"none"}
    <3>1. sent = 0 /\ swallowed = {} /\ error = "none" /\ 0 \in 0..0
      BY DEF Init
    <3>2. QED
      BY <1>1, <3>1
  <2>6. terminal \in BOOLEAN
    BY DEF Init
  <2>4. /\ kind \in {"stream", "text", "json"} /\ text = <<>>
        /\ pc \in {"build", "send", "reading", "closing", "finally", "ended"}
    BY DEF Init
  <2>5. QED
    BY <2>1, <2>2, <2>3, <2>4, <2>6 DEF GatewayType
<1>3. Unanswered
  BY DEF Init, Unanswered
<1>4. Full
  <2>1. Range(<<>>) = {} /\ Ascending(<<>>)
    BY DEF Range, Ascending
  <2>2. QED
    BY <2>1 DEF Init, Full
<1>5. Reading /\ AtEnd
  BY DEF Init, Reading, AtEnd
<1>6. Whole
  <2>1. Limit = 0 /\ 1..0 = {} /\ reader.got = <<>>
    BY DEF Init, Limit
  <2>2. QED
    BY <1>1, <2>1, NothingDelivered DEF Whole
<1>7. LastItems
  BY <1>1 DEF Init, LastItems
<1>8. QED
  BY <1>2, <1>3, <1>4, <1>5, <1>6, <1>7 DEF GatewayInv

LEMMA KeptByBuildPayload ==
  ASSUME GatewayInv, BuildPayload PROVE GatewayInv'
<1>1. /\ pc = "build" /\ pc' = "send"
      /\ UNCHANGED <<kind, text, sent, terminal, filter, swallowed, error, queue, reader>>
  BY DEF BuildPayload, stream
<1>2. GatewayType'
  BY <1>1 DEF GatewayInv, GatewayType
<1>3. Unanswered'
  BY <1>1 DEF GatewayInv, Unanswered
<1>4. Full'
  BY <1>1 DEF GatewayInv, Full
<1>5. Reading' /\ AtEnd'
  BY <1>1 DEF GatewayInv, Reading, AtEnd
<1>6. Whole'
  <2>1. Limit' = Limit
    BY <1>1 DEF Limit
  <2>2. QED
    BY <1>1, <2>1 DEF GatewayInv, Whole
<1>7. LastItems'
  BY <1>1 DEF GatewayInv, LastItems
<1>8. QED
  BY <1>2, <1>3, <1>4, <1>5, <1>6, <1>7 DEF GatewayInv

LEMMA KeptByFullFails ==
  ASSUME GatewayInv, FullFails PROVE GatewayInv'
<1>1. PICK e \in Errors : reader' = [reader EXCEPT !.pc = "failed", !.error = e]
  BY DEF FullFails
<1>2. /\ pc = "send" /\ kind # "stream" /\ pc' = "ended"
      /\ UNCHANGED <<kind, text, sent, terminal, filter, swallowed, error, queue>>
  BY DEF FullFails, stream
<1>3. reader' \in Readers /\ reader'.pc = "failed" /\ reader'.got = reader.got
  BY <1>1 DEF GatewayInv, GatewayType, Readers
<1>4. GatewayType'
  BY <1>2, <1>3 DEF GatewayInv, GatewayType
<1>5. Unanswered' /\ Reading' /\ AtEnd' /\ Whole' /\ LastItems'
  BY <1>2 DEF Unanswered, Reading, AtEnd, Whole, LastItems
<1>6. Full'
  BY <1>2, <1>3 DEF GatewayInv, Full
<1>7. QED
  BY <1>4, <1>5, <1>6 DEF GatewayInv

LEMMA KeptByFullAnswer ==
  ASSUME GatewayInv, FullAnswer PROVE GatewayInv'
<1>1. PICK t \in Texts :
        /\ text' = t /\ sent' = Len(t)
        /\ reader' = [reader EXCEPT !.pc = "complete", !.got = MessageContent(t)]
  BY DEF FullAnswer
<1>2. /\ pc = "send" /\ kind # "stream" /\ pc' = "ended"
      /\ UNCHANGED <<kind, terminal, filter, swallowed, error, queue>>
  BY DEF FullAnswer
<1>3. t \in Seq(Chars) /\ Len(t) \in Nat
  BY TextIs
<1>4. /\ MessageContent(t) \in Seq(Nat) /\ Ascending(MessageContent(t))
      /\ Range(MessageContent(t)) \cap ClosedBlocks(t) = {}
  BY <1>3, MessageIs
<1>5. reader' \in Readers /\ reader'.pc = "complete" /\ reader'.got = MessageContent(t)
  BY <1>1, <1>4 DEF GatewayInv, GatewayType, Readers
<1>6. GatewayType'
  <2>1. sent' \in 0..Len(text') /\ text' \in Texts
    BY <1>1, <1>3
  <2>2. swallowed' \subseteq DOMAIN text'
    BY <1>2 DEF GatewayInv, Unanswered
  <2>3. QED
    BY <1>2, <1>5, <2>1, <2>2 DEF GatewayInv, GatewayType
<1>7. Unanswered' /\ Reading' /\ AtEnd' /\ Whole' /\ LastItems'
  BY <1>2 DEF Unanswered, Reading, AtEnd, Whole, LastItems
<1>8. Full'
  BY <1>1, <1>2, <1>4, <1>5 DEF GatewayInv, Full
<1>9. QED
  BY <1>6, <1>7, <1>8 DEF GatewayInv

LEMMA KeptByStreamOpens ==
  ASSUME GatewayInv, StreamOpens PROVE GatewayInv'
<1>1. /\ pc = "send" /\ kind = "stream" /\ text' \in Texts /\ pc' = "reading"
      /\ UNCHANGED <<kind, sent, terminal, filter, swallowed, error, queue, reader>>
  BY DEF StreamOpens
<1>2. /\ sent = 0 /\ terminal = FALSE /\ filter.inside = FALSE /\ filter.held = 0
      /\ swallowed = {} /\ error = "none" /\ queue = <<>>
      /\ reader.pc \in {"waiting", "left"} /\ reader.got = <<>>
  BY <1>1 DEF GatewayInv, Unanswered
<1>3. text' \in Seq(Chars) /\ Len(text') \in Nat
  BY <1>1, TextIs
<1>4. GatewayType'
  <2>1. sent' \in 0..Len(text') /\ swallowed' \subseteq DOMAIN text'
    BY <1>1, <1>2, <1>3
  <2>2. QED
    BY <1>1, <2>1 DEF GatewayInv, GatewayType
<1>5. Unanswered' /\ Full'
  BY <1>1 DEF Unanswered, Full
<1>6. Reading'
  <2>1. Ready(text', 1, FALSE)
    BY <1>3, ReadyAtFirst
  <2>2. sent' + 1 - filter'.held = 1 /\ filter'.held <= sent'
    BY <1>1, <1>2
  <2>3. Ready(text', sent' + 1 - filter'.held, filter'.inside)
    BY <1>1, <1>2, <2>1, <2>2, Zenon
  <2>4. QED
    BY <1>1, <1>2, <2>2, <2>3 DEF Reading
<1>7. AtEnd'
  BY <1>1, <1>2 DEF AtEnd
<1>8. Whole'
  <2>1. Limit' = 0 /\ 1..0 = {}
    BY <1>1, <1>2 DEF Limit
  <2>2. Delivered(text', reader'.got, queue', Limit')
    BY <1>1, <1>2, <2>1, NothingDelivered
  <2>3. Visible(text') \cap 1..Limit' = {}
    BY <2>1
  <2>4. QED
    BY <2>2, <2>3 DEF Whole
<1>9. LastItems'
  <2>1. \A i \in 1..Len(queue') : FALSE
    BY <1>1, <1>2
  <2>2. QED
    BY <1>1, <1>2, <2>1 DEF LastItems
<1>10. QED
  BY <1>4, <1>5, <1>6, <1>7, <1>8, <1>9 DEF GatewayInv

LEMMA KeptByStreamDone ==
  ASSUME GatewayInv, StreamDone PROVE GatewayInv'
<1>1. /\ pc = "reading" /\ sent = Len(text) /\ terminal' = TRUE /\ pc' = "closing"
      /\ UNCHANGED <<kind, text, sent, filter, swallowed, error, queue, reader>>
  BY DEF StreamDone
<1>2. GatewayType'
  BY <1>1 DEF GatewayInv, GatewayType
<1>3. Unanswered' /\ Full'
  BY <1>1 DEF GatewayInv, Unanswered, Full
<1>4. Reading' /\ AtEnd'
  BY <1>1 DEF GatewayInv, Reading, AtEnd
<1>5. Whole'
  <2>1. Limit' = Limit
    BY <1>1 DEF Limit
  <2>2. QED
    BY <1>1, <2>1 DEF GatewayInv, Whole
<1>6. LastItems'
  BY <1>1 DEF GatewayInv, LastItems
<1>7. QED
  BY <1>2, <1>3, <1>4, <1>5, <1>6 DEF GatewayInv

LEMMA KeptByStreamEof ==
  ASSUME GatewayInv, StreamEof PROVE GatewayInv'
<1>1. /\ pc = "reading" /\ pc' = "closing"
      /\ UNCHANGED <<kind, text, sent, terminal, filter, swallowed, error, queue, reader>>
  BY DEF StreamEof, stream
<1>2. GatewayType'
  BY <1>1 DEF GatewayInv, GatewayType
<1>3. Unanswered' /\ Full'
  BY <1>1 DEF GatewayInv, Unanswered, Full
<1>4. Reading' /\ AtEnd'
  BY <1>1 DEF GatewayInv, Reading, AtEnd
<1>5. Whole'
  <2>1. Limit' = Limit
    BY <1>1 DEF Limit
  <2>2. QED
    BY <1>1, <2>1 DEF GatewayInv, Whole
<1>6. LastItems'
  BY <1>1 DEF GatewayInv, LastItems
<1>7. QED
  BY <1>2, <1>3, <1>4, <1>5, <1>6 DEF GatewayInv

LEMMA KeptByRaise ==
  ASSUME GatewayInv, kind = "stream", pc \in {"send", "reading", "closing"},
         NEW e \in Errors, Raise(e)
  PROVE  GatewayInv'
<1> DEFINE item == [item |-> "error", got |-> <<>>]
<1>1. /\ error' = e /\ queue' = queue \o <<item>> /\ pc' = "finally"
      /\ UNCHANGED <<kind, text, sent, terminal, filter, swallowed, reader>>
  BY DEF Raise, Put
<1>2. e # "none" /\ error = "none"
  BY DEF GatewayInv, Unanswered, Reading, Errors
<1>3. /\ reader.pc \in {"waiting", "left"} /\ reader' = reader
      /\ sent \in Nat /\ filter.held \in 0..2 /\ Len(text) \in Nat
  <2>1. reader.pc \in {"waiting", "joining", "complete", "failed", "left"}
    BY DEF GatewayInv, GatewayType, Readers
  <2>2. text = <<>> \/ text \in Texts
    BY DEF GatewayInv, GatewayType
  <2>3. Len(text) \in Nat
    BY <2>2, TextIs
  <2>4. sent \in Nat /\ filter.held \in 0..2
    BY <2>3 DEF GatewayInv, GatewayType
  <2>5. QED
    BY <1>1, <1>2, <2>1, <2>3, <2>4 DEF GatewayInv, LastItems
<1>4. Delivered(text, reader.got, queue, Limit) /\ Limit \in Nat
  <2>1. Delivered(text, reader.got, queue, Limit)
    BY DEF GatewayInv, Whole
  <2>2. QED
    BY <2>1 DEF Delivered
<1>5. /\ Delivered(text, reader.got, queue', Limit)
      /\ queue' \in Seq(Items) /\ Len(queue) \in Nat /\ Len(queue') = Len(queue) + 1
      /\ \A i \in 1..Len(queue) : queue'[i] = queue[i]
      /\ queue'[Len(queue) + 1].item = "error" /\ queue'[Len(queue) + 1].got = <<>>
  <2>1. item \in Items /\ item.item = "error" /\ item.got = <<>>
    <3>1. <<>> \in Seq(Nat)
      OBVIOUS
    <3>2. QED
      BY <3>1 DEF Items
  <2> HIDE DEF item
  <2>2. QED
    <3>1. Delivered(text, reader.got, queue', Limit)
      BY <1>1, <1>4, <2>1, SignalPut
    <3>2. /\ queue' \in Seq(Items) /\ Len(queue) \in Nat /\ Len(queue') = Len(queue) + 1
          /\ \A i \in 1..Len(queue) : queue'[i] = queue[i]
          /\ queue'[Len(queue) + 1] = item
      <4>1. queue \in Seq(Items)
        BY DEF GatewayInv, GatewayType
      <4>2. QED
        BY <1>1, <2>1, <4>1, ItemPut
    <3>3. QED
      BY <2>1, <3>1, <3>2
<1>6. GatewayType'
  BY <1>1, <1>5 DEF GatewayInv, GatewayType
<1>7. Unanswered' /\ Full' /\ Reading'
  BY <1>1 DEF Unanswered, Full, Reading
<1>8. AtEnd'
  BY <1>1, <1>2 DEF GatewayInv, AtEnd
<1>9. Whole'
  <2>1. Limit' = sent /\ Limit <= sent
    BY <1>1, <1>3 DEF Limit
  <2>2. Delivered(text, reader.got, queue', sent)
    BY <1>3, <1>5, <2>1, DeliveredLater
  <2>3. QED
    BY <1>1, <1>2, <2>1, <2>2 DEF Whole
<1>10. LastItems'
  <2>1. \A i \in 1..Len(queue') : i \in 1..Len(queue) \/ i = Len(queue) + 1
    BY <1>5
  <2>2. ASSUME NEW i \in 1..Len(queue')
        PROVE  /\ queue'[i].item # "token" => queue'[i].got = <<>>
               /\ queue'[i].item = "error" => error' # "none"
               /\ queue'[i].item # "done"
    <3>1. CASE i \in 1..Len(queue)
      <4>1. /\ queue[i].item # "token" => queue[i].got = <<>>
            /\ queue[i].item # "done"
        BY <3>1 DEF GatewayInv, LastItems
      <4>2. QED
        BY <1>1, <1>2, <1>5, <3>1, <4>1
    <3>2. CASE i = Len(queue) + 1
      BY <1>1, <1>2, <1>5, <3>2
    <3>3. QED
      BY <2>1, <3>1, <3>2
  <2>3. Len(queue) + 1 \in 1..Len(queue')
    BY <1>5
  <2>4. QED
    BY <1>1, <1>3, <1>5, <2>2, <2>3 DEF LastItems
<1>11. QED
  BY <1>6, <1>7, <1>8, <1>9, <1>10 DEF GatewayInv

LEMMA KeptByFinally ==
  ASSUME GatewayInv, Finally PROVE GatewayInv'
<1> DEFINE item == [item |-> "done", got |-> <<>>]
<1>1. /\ pc = "finally" /\ queue' = queue \o <<item>> /\ pc' = "ended"
      /\ UNCHANGED <<kind, text, sent, terminal, filter, swallowed, error, reader>>
  BY DEF Finally, Put, stream
<1>2. kind = "stream"
  BY <1>1 DEF GatewayInv, Full
<1>3. Delivered(text, reader.got, queue, Limit) /\ Limit' = Limit
  BY <1>1, <1>2 DEF GatewayInv, Whole, Limit
<1>4. /\ Delivered(text, reader.got, queue', Limit)
      /\ Content(reader.got, queue') = Content(reader.got, queue)
      /\ queue' \in Seq(Items) /\ Len(queue) \in Nat /\ Len(queue') = Len(queue) + 1
      /\ \A i \in 1..Len(queue) : queue'[i] = queue[i]
      /\ queue'[Len(queue) + 1].item = "done" /\ queue'[Len(queue) + 1].got = <<>>
  <2>1. item \in Items /\ item.item = "done" /\ item.got = <<>>
    <3>1. <<>> \in Seq(Nat)
      OBVIOUS
    <3>2. QED
      BY <3>1 DEF Items
  <2> HIDE DEF item
  <2>2. QED
    <3>1. Delivered(text, reader.got, queue', Limit)
      BY <1>1, <1>3, <2>1, SignalPut
    <3>2. /\ queue' \in Seq(Items) /\ Len(queue) \in Nat /\ Len(queue') = Len(queue) + 1
          /\ \A i \in 1..Len(queue) : queue'[i] = queue[i]
          /\ queue'[Len(queue) + 1] = item
      <4>1. queue \in Seq(Items)
        BY DEF GatewayInv, GatewayType
      <4>2. QED
        BY <1>1, <2>1, <4>1, ItemPut
    <3>3. Content(reader.got, queue') = Content(reader.got, queue)
      <4>1. queue \in Seq(Items)
        BY DEF GatewayInv, GatewayType
      <4>2. Content(reader.got, queue \o <<item>>) = Content(reader.got, queue)
        <5>1. reader.got \in Seq(Nat)
          BY DEF GatewayInv, GatewayType, Readers
        <5>2. QED
          BY <2>1, <4>1, <5>1, SignalContent
      <4>3. QED
        BY <1>1, <4>2
    <3>4. QED
      BY <2>1, <3>1, <3>2, <3>3
<1>5. GatewayType'
  BY <1>1, <1>4 DEF GatewayInv, GatewayType
<1>6. Unanswered' /\ Full' /\ Reading'
  BY <1>1, <1>2 DEF Unanswered, Full, Reading
<1>7. AtEnd'
  BY <1>1, <1>2 DEF GatewayInv, AtEnd
<1>8. Whole'
  BY <1>1, <1>2, <1>3, <1>4 DEF GatewayInv, Whole
<1>9. LastItems'
  <2>1. \A i \in 1..Len(queue') : i \in 1..Len(queue) \/ i = Len(queue) + 1
    BY <1>4
  <2>2. ASSUME NEW i \in 1..Len(queue')
        PROVE  /\ queue'[i].item # "token" => queue'[i].got = <<>>
               /\ queue'[i].item = "error" => error' # "none"
               /\ queue'[i].item = "done" => i = Len(queue')
    <3>1. CASE i \in 1..Len(queue)
      <4>1. /\ queue[i].item # "token" => queue[i].got = <<>>
            /\ queue[i].item = "error" => error # "none"
            /\ queue[i].item # "done"
        BY <1>1, <1>2, <3>1 DEF GatewayInv, LastItems
      <4>2. QED
        BY <1>1, <1>4, <3>1, <4>1
    <3>2. CASE i = Len(queue) + 1
      BY <1>1, <1>4, <3>2
    <3>3. QED
      BY <2>1, <3>1, <3>2
  <2>3. ASSUME reader.pc = "waiting", error # "none"
        PROVE  \E i \in 1..Len(queue') : queue'[i].item = "error"
    <3>1. PICK i \in 1..Len(queue) : queue[i].item = "error"
      BY <1>2, <2>3 DEF GatewayInv, LastItems
    <3>2. i \in 1..Len(queue') /\ queue'[i] = queue[i]
      BY <1>4
    <3>3. QED
      BY <3>1, <3>2
  <2>4. reader.pc \in {"joining", "complete", "failed"} => reader.error = error /\ error # "none"
    BY <1>1, <1>2 DEF GatewayInv, LastItems
  <2>5. QED
    BY <1>1, <1>2, <2>2, <2>3, <2>4 DEF GatewayInv, LastItems
<1>10. QED
  BY <1>5, <1>6, <1>7, <1>8, <1>9 DEF GatewayInv

LEMMA KeptByReadToken ==
  ASSUME GatewayInv, ReadToken PROVE GatewayInv'
<1> DEFINE all == reader.got \o Head(queue).got
<1>1. /\ reader.pc = "waiting" /\ queue # <<>> /\ Head(queue).item = "token"
      /\ reader' = [reader EXCEPT !.got = all] /\ queue' = Tail(queue)
      /\ UNCHANGED <<kind, pc, text, sent, terminal, filter, swallowed, error>>
  BY DEF ReadToken, stream
<1>2. kind = "stream"
  BY <1>1 DEF GatewayInv, Full
<1>3. Delivered(text, reader.got, queue, Limit) /\ Limit' = Limit
  BY <1>1, <1>2 DEF GatewayInv, Whole, Limit
<1>4. /\ Delivered(text, all, queue', Limit)
      /\ Content(reader.got, queue) \subseteq Content(all, queue')
  BY <1>1, <1>3, TakeOK
<1>5. all \in Seq(Nat) /\ queue' \in Seq(Items)
  BY <1>4 DEF Delivered
<1> HIDE DEF all
<1>6. /\ reader' \in Readers /\ reader'.pc = "waiting" /\ reader'.got = all
      /\ reader'.error = reader.error
  BY <1>1, <1>5 DEF GatewayInv, GatewayType, Readers
<1>7. /\ Len(queue) \in Nat /\ Len(queue') = Len(queue) - 1 /\ queue[1] = Head(queue)
      /\ \A i \in 1..Len(queue') : queue'[i] = queue[i + 1]
      /\ \A i \in 1..Len(queue') : i + 1 \in 1..Len(queue)
  <2>1. queue \in Seq(Items)
    BY DEF GatewayInv, GatewayType
  <2>2. /\ Len(queue) \in Nat /\ Len(queue') = Len(queue) - 1 /\ queue[1] = Head(queue)
        /\ \A i \in 1..Len(queue') : queue'[i] = queue[i + 1]
    BY <1>1, <2>1, HeadTailProperties, LenProperties
  <2>3. QED
    BY <2>2
<1>8. GatewayType'
  BY <1>1, <1>5, <1>6 DEF GatewayInv, GatewayType
<1>9. Unanswered'
  <2>1. pc \notin {"build", "send"}
    BY <1>1 DEF GatewayInv, Unanswered
  <2>2. QED
    BY <1>1, <2>1 DEF Unanswered
<1>10. Full'
  BY <1>1, <1>2 DEF Full
<1>11. Reading' /\ AtEnd'
  BY <1>1 DEF GatewayInv, Reading, AtEnd
<1>12. Whole'
  BY <1>1, <1>2, <1>3, <1>4, <1>6 DEF GatewayInv, Whole
<1>13. LastItems'
  <2>1. ASSUME NEW i \in 1..Len(queue')
        PROVE  /\ queue'[i].item # "token" => queue'[i].got = <<>>
               /\ queue'[i].item = "error" => error' # "none"
               /\ queue'[i].item = "done" => pc' = "ended" /\ i = Len(queue')
    <3>1. /\ queue[i + 1].item # "token" => queue[i + 1].got = <<>>
          /\ queue[i + 1].item = "error" => error # "none"
          /\ queue[i + 1].item = "done" => pc = "ended" /\ i + 1 = Len(queue)
      BY <1>2, <1>7 DEF GatewayInv, LastItems
    <3>2. i + 1 = Len(queue) => i = Len(queue')
      BY <1>7
    <3>3. QED
      BY <1>1, <1>7, <3>1, <3>2
  <2>2. ASSUME error # "none"
        PROVE  \E i \in 1..Len(queue') : queue'[i].item = "error"
    <3>1. PICK i \in 1..Len(queue) : queue[i].item = "error"
      BY <1>1, <1>2, <2>2 DEF GatewayInv, LastItems
    <3>2. i # 1
      BY <1>1, <1>7, <3>1
    <3>3. i - 1 \in 1..Len(queue') /\ (i - 1) + 1 = i
      BY <1>7, <3>2
    <3>4. queue'[i - 1] = queue[i]
      BY <1>7, <3>3
    <3>5. QED
      BY <3>1, <3>3, <3>4
  <2>3. QED
    BY <1>1, <1>6, <2>1, <2>2 DEF LastItems
<1>14. QED
  BY <1>8, <1>9, <1>10, <1>11, <1>12, <1>13 DEF GatewayInv

LEMMA KeptByReadEnd ==
  ASSUME GatewayInv, ReadEnd PROVE GatewayInv'
<1> DEFINE e == IF Head(queue).item = "error" THEN error ELSE "none"
<1>1. /\ reader.pc = "waiting" /\ queue # <<>> /\ Head(queue).item # "token"
      /\ reader' = [reader EXCEPT !.pc = "joining", !.error = e] /\ queue' = Tail(queue)
      /\ UNCHANGED <<kind, pc, text, sent, terminal, filter, swallowed, error>>
  BY DEF ReadEnd, stream
<1>2. kind = "stream"
  BY <1>1 DEF GatewayInv, Full
<1>3. /\ queue \in Seq(Items) /\ Len(queue) \in Nat /\ 1 \in 1..Len(queue)
      /\ Len(queue') = Len(queue) - 1 /\ queue[1] = Head(queue)
      /\ \A i \in 1..Len(queue') : queue'[i] = queue[i + 1]
      /\ \A i \in 1..Len(queue') : i + 1 \in 1..Len(queue)
  <2>1. queue \in Seq(Items)
    BY DEF GatewayInv, GatewayType
  <2>2. /\ Len(queue) \in Nat /\ Len(queue) # 0 /\ Len(queue') = Len(queue) - 1
        /\ queue[1] = Head(queue)
        /\ \A i \in 1..Len(queue') : queue'[i] = queue[i + 1]
    BY <1>1, <2>1, HeadTailProperties, LenProperties, EmptySeq
  <2>3. QED
    BY <2>1, <2>2
<1>4. /\ Head(queue).got = <<>> /\ Head(queue) \in Items
      /\ Head(queue).item = "error" => error # "none"
      /\ Head(queue).item = "done" => pc = "ended" /\ Len(queue) = 1
  <2>1. /\ queue[1].item # "token" => queue[1].got = <<>>
        /\ queue[1].item = "error" => error # "none"
        /\ queue[1].item = "done" => pc = "ended" /\ 1 = Len(queue)
    BY <1>2, <1>3 DEF GatewayInv, LastItems
  <2>2. queue[1] \in Items
    BY <1>3, ElementOfSeq
  <2>3. QED
    BY <1>1, <1>3, <2>1, <2>2
<1>5. e = error
  <2>1. CASE Head(queue).item = "error"
    BY <2>1
  <2>2. CASE Head(queue).item # "error"
    <3>1. Head(queue).item = "done"
      BY <1>1, <1>4, <2>2 DEF Items
    <3>2. \A i \in 1..Len(queue) : i = 1
      <4>1. Len(queue) = 1
        BY <1>4, <3>1
      <4>2. QED
        BY <4>1
    <3>3. ~\E i \in 1..Len(queue) : queue[i].item = "error"
      BY <1>3, <2>2, <3>2
    <3>4. error = "none"
      BY <1>1, <1>2, <3>3 DEF GatewayInv, LastItems
    <3>5. QED
      BY <2>2, <3>4
  <2>3. QED
    BY <2>1, <2>2
<1> HIDE DEF e
<1>6. /\ reader' \in Readers /\ reader'.pc = "joining" /\ reader'.got = reader.got
      /\ reader'.error = error
  BY <1>1, <1>5 DEF GatewayInv, GatewayType, Readers
<1>7. Delivered(text, reader.got, queue, Limit) /\ Limit' = Limit
  BY <1>1, <1>2 DEF GatewayInv, Whole, Limit
<1>8. /\ Delivered(text, reader.got, queue', Limit)
      /\ Content(reader.got, queue) \subseteq Content(reader.got, queue')
  <2>1. reader.got \o Head(queue).got = reader.got
    <3>1. reader.got \in Seq(Nat)
      BY DEF GatewayInv, GatewayType, Readers
    <3>2. QED
      BY <1>4, <3>1, ConcatEmptySeq
  <2>2. /\ Delivered(text, reader.got \o Head(queue).got, queue', Limit)
        /\ Content(reader.got, queue) \subseteq Content(reader.got \o Head(queue).got, queue')
    BY <1>1, <1>7, TakeOK
  <2>3. QED
    BY <2>1, <2>2
<1>9. GatewayType'
  <2>1. queue' \in Seq(Items)
    BY <1>8 DEF Delivered
  <2>2. QED
    BY <1>1, <1>6, <2>1 DEF GatewayInv, GatewayType
<1>10. Unanswered'
  <2>1. pc \notin {"build", "send"}
    BY <1>1 DEF GatewayInv, Unanswered
  <2>2. QED
    BY <1>1, <2>1 DEF Unanswered
<1>11. Full'
  BY <1>1, <1>2 DEF Full
<1>12. Reading' /\ AtEnd'
  BY <1>1 DEF GatewayInv, Reading, AtEnd
<1>13. Whole'
  BY <1>1, <1>2, <1>6, <1>7, <1>8 DEF GatewayInv, Whole
<1>14. LastItems'
  <2>1. ASSUME NEW i \in 1..Len(queue')
        PROVE  /\ queue'[i].item # "token" => queue'[i].got = <<>>
               /\ queue'[i].item = "error" => error' # "none"
               /\ queue'[i].item = "done" => pc' = "ended" /\ i = Len(queue')
    <3>1. /\ queue[i + 1].item # "token" => queue[i + 1].got = <<>>
          /\ queue[i + 1].item = "error" => error # "none"
          /\ queue[i + 1].item = "done" => pc = "ended" /\ i + 1 = Len(queue)
      BY <1>2, <1>3 DEF GatewayInv, LastItems
    <3>2. i + 1 = Len(queue) => i = Len(queue')
      BY <1>3
    <3>3. QED
      BY <1>1, <1>3, <3>1, <3>2
  <2>2. error = "none" => pc = "ended" /\ queue' = <<>>
    <3> SUFFICES ASSUME error = "none" PROVE pc = "ended" /\ queue' = <<>>
      OBVIOUS
    <3>1. Head(queue).item = "done"
      BY <1>1, <1>4 DEF Items
    <3>2. Len(queue') = 0 /\ queue' \in Seq(Items)
      BY <1>3, <1>4, <1>8, <3>1 DEF Delivered
    <3>3. QED
      BY <1>4, <3>1, <3>2, EmptySeq
  <2>3. QED
    BY <1>1, <1>6, <2>1, <2>2 DEF LastItems
<1>15. QED
  BY <1>9, <1>10, <1>11, <1>12, <1>13, <1>14 DEF GatewayInv

LEMMA KeptByJoin ==
  ASSUME GatewayInv, Join PROVE GatewayInv'
<1> DEFINE end == IF reader.error = "none" THEN "complete" ELSE "failed"
<1>1. /\ reader.pc = "joining" /\ pc = "ended" /\ reader' = [reader EXCEPT !.pc = end]
      /\ UNCHANGED <<kind, pc, text, sent, terminal, filter, swallowed, error, queue>>
  BY DEF Join, stream
<1>2. kind = "stream"
  BY <1>1 DEF GatewayInv, Full
<1>3. reader.error = error /\ (error = "none" => queue = <<>>)
  BY <1>1, <1>2 DEF GatewayInv, LastItems
<1>4. /\ reader' \in Readers /\ reader'.pc = end /\ reader'.got = reader.got
      /\ reader'.error = error
  BY <1>1, <1>3 DEF GatewayInv, GatewayType, Readers
<1>5. GatewayType'
  BY <1>1, <1>4 DEF GatewayInv, GatewayType
<1>6. Unanswered' /\ Full'
  BY <1>1, <1>2 DEF Unanswered, Full
<1>7. Reading' /\ AtEnd'
  BY <1>1 DEF GatewayInv, Reading, AtEnd
<1>8. Whole'
  <2>1. Limit' = Limit
    BY <1>1 DEF Limit
  <2>2. QED
    BY <1>1, <1>4, <2>1 DEF GatewayInv, Whole
<1>9. LastItems'
  BY <1>1, <1>2, <1>3, <1>4 DEF GatewayInv, LastItems
<1>10. QED
  BY <1>5, <1>6, <1>7, <1>8, <1>9 DEF GatewayInv

LEMMA KeptByLeave ==
  ASSUME GatewayInv, Leave PROVE GatewayInv'
<1>1. /\ kind = "stream" /\ pc # "build" /\ reader' = [reader EXCEPT !.pc = "left"]
      /\ UNCHANGED <<kind, pc, text, sent, terminal, filter, swallowed, error, queue>>
  BY DEF Leave, stream
<1>2. /\ reader' \in Readers /\ reader'.pc = "left" /\ reader'.got = reader.got
  BY <1>1 DEF GatewayInv, GatewayType, Readers
<1>3. GatewayType'
  BY <1>1, <1>2 DEF GatewayInv, GatewayType
<1>4. Unanswered' /\ Full'
  BY <1>1, <1>2 DEF GatewayInv, Unanswered, Full
<1>5. Reading' /\ AtEnd'
  BY <1>1 DEF GatewayInv, Reading, AtEnd
<1>6. Whole'
  <2>1. Limit' = Limit
    BY <1>1 DEF Limit
  <2>2. QED
    BY <1>1, <1>2, <2>1 DEF GatewayInv, Whole
<1>7. LastItems'
  BY <1>1, <1>2 DEF GatewayInv, LastItems
<1>8. QED
  BY <1>3, <1>4, <1>5, <1>6, <1>7 DEF GatewayInv

LEMMA TypesOf ==
  ASSUME GatewayInv
  PROVE  /\ text \in Seq(Chars) /\ Len(text) \in Nat /\ DOMAIN text = 1..Len(text)
         /\ sent \in Nat /\ sent <= Len(text)
         /\ filter.held \in 0..2 /\ filter.inside \in BOOLEAN
         /\ terminal \in BOOLEAN
<1>1. text = <<>> \/ text \in Texts
  BY DEF GatewayInv, GatewayType
<1>2. text \in Seq(Chars) /\ Len(text) \in Nat /\ DOMAIN text = 1..Len(text)
  BY <1>1, TextIs
<1>3. sent \in 0..Len(text) /\ filter \in [inside : BOOLEAN, held : 0..2] /\ terminal \in BOOLEAN
  BY DEF GatewayInv, GatewayType
<1>4. sent \in Nat /\ sent <= Len(text)
  BY <1>2, <1>3
<1>5. filter.held \in 0..2 /\ filter.inside \in BOOLEAN
  BY <1>3
<1>6. QED
  BY <1>2, <1>3, <1>4, <1>5

(* While the thread reads or flushes, every item is a token.                *)
LEMMA OnlyTokens ==
  ASSUME GatewayInv, kind = "stream", pc \in {"reading", "closing"}
  PROVE  /\ error = "none" /\ reader.pc \in {"waiting", "left"}
         /\ \A i \in 1..Len(queue) : queue[i].item = "token"
<1>1. error = "none"
  BY DEF GatewayInv, Reading
<1>2. reader.pc \in {"waiting", "joining", "complete", "failed", "left"}
  BY DEF GatewayInv, GatewayType, Readers
<1>3. reader.pc \in {"waiting", "left"}
  BY <1>1, <1>2 DEF GatewayInv, LastItems
<1>4. ASSUME NEW i \in 1..Len(queue) PROVE queue[i].item = "token"
  <2>1. queue[i].item # "error" /\ queue[i].item # "done"
    BY <1>1 DEF GatewayInv, LastItems
  <2>2. queue[i] \in Items
    <3>1. queue \in Seq(Items)
      BY DEF GatewayInv, GatewayType
    <3>2. QED
      BY <3>1, ElementOfSeq
  <2>3. QED
    BY <2>1, <2>2 DEF Items
<1>5. QED
  BY <1>1, <1>3, <1>4

LEMMA KeptByStreamFlush ==
  ASSUME GatewayInv, StreamFlush PROVE GatewayInv'
<1> DEFINE visible == Flush(sent, filter.held, filter.inside)
<1>1. /\ pc = "closing" /\ terminal /\ queue' = queue \o Token(visible)
      /\ filter' = [filter EXCEPT !.held = 0] /\ pc' = "finally"
      /\ UNCHANGED <<kind, text, sent, terminal, swallowed, error, reader>>
  BY DEF StreamFlush, Put
<1>2. kind = "stream"
  BY <1>1 DEF GatewayInv, Full
<1>3. /\ text \in Seq(Chars) /\ Len(text) \in Nat /\ sent \in Nat /\ filter.held \in 0..2
      /\ terminal = TRUE
  BY <1>1, TypesOf
<1>4. /\ filter.held <= sent /\ Ready(text, sent + 1 - filter.held, filter.inside)
      /\ sent = Len(text)
  BY <1>1, <1>2, <1>3 DEF GatewayInv, Reading, AtEnd
<1>5. /\ error = "none" /\ reader.pc \in {"waiting", "left"}
      /\ \A i \in 1..Len(queue) : queue[i].item = "token"
  BY <1>1, <1>2, OnlyTokens
<1>6. /\ visible \in Seq(Nat) /\ Ascending(visible)
      /\ Range(visible) = Visible(text) \cap (sent + 1 - filter.held)..sent
  BY <1>3, <1>4, FlushIs
<1> HIDE DEF visible
<1>7. Delivered(text, reader.got, queue, Limit)
  BY <1>2 DEF GatewayInv, Whole
<1>8. /\ Limit = sent - filter.held /\ Limit' = sent /\ Limit <= sent
      /\ Limit + 1 = sent + 1 - filter.held /\ Limit \in Nat
  BY <1>1, <1>3, <1>4 DEF Limit
<1>9. Range(visible) \subseteq Visible(text) \cap (Limit + 1)..sent
  BY <1>6, <1>8
<1>10. /\ Delivered(text, reader.got, queue', sent)
       /\ Content(reader.got, queue') = Content(reader.got, queue) \cup Range(visible)
       /\ queue' \in Seq(Items)
       /\ \A i \in 1..Len(queue') :
            (i \in 1..Len(queue) /\ queue'[i] = queue[i]) \/ queue'[i].item = "token"
  <2>1. Delivered(text, reader.got, queue', sent)
    BY <1>1, <1>3, <1>6, <1>7, <1>8, <1>9, TokenPut
  <2>4. Content(reader.got, queue') = Content(reader.got, queue) \cup Range(visible)
    <3>1. queue \in Seq(Items)
      BY <1>7 DEF Delivered
    <3>2. Content(reader.got, queue \o Token(visible))
            = Content(reader.got, queue) \cup Range(visible)
      <4>1. reader.got \in Seq(Nat)
        BY <1>7 DEF Delivered
      <4>2. QED
        BY <1>6, <3>1, <4>1, TokenContent
    <3>3. QED
      BY <1>1, <3>2
  <2>2. /\ queue' \in Seq(Items)
        /\ \A i \in 1..Len(queue') :
             (i \in 1..Len(queue) /\ queue'[i] = queue[i]) \/ queue'[i].item = "token"
    <3>1. queue \in Seq(Items)
      BY <1>7 DEF Delivered
    <3>2. QED
      BY <1>1, <1>6, <3>1, TokenItems
  <2>3. QED
    BY <2>1, <2>2, <2>4
<1>11. GatewayType'
  <2>1. filter' \in [inside : BOOLEAN, held : 0..2]
    BY <1>1 DEF GatewayInv, GatewayType
  <2>2. QED
    BY <1>1, <1>10, <2>1 DEF GatewayInv, GatewayType
<1>12. Unanswered' /\ Full' /\ Reading'
  BY <1>1, <1>2 DEF Unanswered, Full, Reading
<1>13. AtEnd'
  BY <1>1, <1>4 DEF AtEnd
<1>14. Whole'
  <2>1. ASSUME NEW p \in Visible(text) \cap 1..sent
        PROVE  p \in swallowed \cup Content(reader.got, queue')
    <3>1. p \in 1..Limit \/ p \in (sent + 1 - filter.held)..sent
      BY <1>3, <1>4, <1>8
    <3>2. CASE p \in 1..Limit
      <4>1. p \in swallowed \cup Content(reader.got, queue)
        BY <1>2, <1>5, <2>1, <3>2 DEF GatewayInv, Whole
      <4>2. QED
        BY <1>10, <4>1
    <3>3. CASE p \in (sent + 1 - filter.held)..sent
      <4>1. p \in Range(visible)
        BY <1>6, <2>1, <3>3
      <4>2. QED
        BY <1>10, <4>1
    <3>4. QED
      BY <3>1, <3>2, <3>3
  <2>2. QED
    BY <1>1, <1>8, <1>10, <2>1 DEF Whole
<1>15. LastItems'
  <2>1. \A i \in 1..Len(queue') : queue'[i].item = "token"
    BY <1>5, <1>10
  <2>2. QED
    BY <1>1, <1>5, <2>1 DEF LastItems
<1>16. QED
  BY <1>11, <1>12, <1>13, <1>14, <1>15 DEF GatewayInv

(* A chunk that carries text, up to hi, and what feed makes of it.          *)
Chunk(hi, fed) ==
  /\ kind = "stream" /\ pc = "reading" /\ sent < hi /\ hi <= Len(text)
  /\ fed = Feed(text, sent + 1 - filter.held, hi, filter.inside)
  /\ terminal' \in BOOLEAN
  /\ terminal' = TRUE => hi = Len(text)
  /\ sent' = hi
  /\ filter' = [inside |-> fed.inside, held |-> fed.held]
  /\ swallowed' = IF InBlock(text)[hi] /\ InBlock(text)[hi + 1]
                  THEN swallowed \cup (sent + 1 - filter.held)..hi ELSE swallowed
  /\ Put(Token(fed.visible))
  /\ UNCHANGED <<kind, pc, text, error, reader>>

LEMMA KeptByChunk ==
  ASSUME GatewayInv, NEW hi \in Nat, NEW fed, Chunk(hi, fed) PROVE GatewayInv'
<1> DEFINE lo == sent + 1 - filter.held
           limit == hi - fed.held
<1>1. /\ queue' = queue \o Token(fed.visible) /\ kind' = kind /\ pc' = pc /\ text' = text
      /\ error' = error /\ reader' = reader
      /\ kind = "stream" /\ pc = "reading" /\ sent < hi /\ hi <= Len(text) /\ sent' = hi
  BY DEF Chunk, Put
<1>2. /\ text \in Seq(Chars) /\ Len(text) \in Nat /\ DOMAIN text = 1..Len(text)
      /\ sent \in Nat /\ filter.held \in 0..2
  BY TypesOf
<1>3. filter.held <= sent /\ Ready(text, lo, filter.inside)
  BY <1>1 DEF GatewayInv, Reading
<1>4. /\ error = "none" /\ reader.pc \in {"waiting", "left"}
      /\ \A i \in 1..Len(queue) : queue[i].item = "token"
  BY <1>1, OnlyTokens
<1>5. lo \in Nat /\ 1 <= lo /\ lo <= hi + 1
  BY <1>1, <1>2, <1>3
<1> HIDE DEF lo
<1>6. FeedOK(text, lo, hi, fed)
  <2>1. fed = Feed(text, lo, hi, filter.inside)
    BY DEF Chunk, lo
  <2>2. FeedOK(text, lo, hi, Feed(text, lo, hi, filter.inside))
    BY <1>1, <1>2, <1>3, <1>5, FeedIs
  <2>3. QED
    BY <2>1, <2>2
<1>7. /\ fed.visible \in Seq(Nat) /\ fed.inside \in BOOLEAN /\ fed.held \in 0..2
      /\ lo + fed.held <= hi + 1
  BY <1>6 DEF FeedOK, Feds
<1>8. /\ Ready(text, hi + 1 - fed.held, fed.inside) /\ Ascending(fed.visible)
      /\ Range(fed.visible) \subseteq Visible(text) \cap lo..limit
  BY <1>6 DEF FeedOK
<1>9. filter'.inside = fed.inside /\ filter'.held = fed.held
  BY DEF Chunk
<1>10. /\ limit \in Nat /\ fed.held <= hi /\ Limit = sent - filter.held /\ Limit \in Nat
       /\ Limit + 1 = lo /\ Limit <= limit
  <2>1. Limit = sent - filter.held
    BY <1>1 DEF Limit
  <2>2. PICK before, after \in 0..2 : before = filter.held /\ after = fed.held
    BY <1>2, <1>7
  <2>3. lo = sent + 1 - before /\ before <= sent /\ lo + after <= hi + 1 /\ Limit = sent - before
    BY <1>3, <1>7, <2>1, <2>2 DEF lo
  <2>4. /\ hi - after \in Nat /\ after <= hi /\ Limit \in Nat /\ Limit + 1 = lo
        /\ Limit <= hi - after
    BY <1>1, <1>2, <1>5, <2>3
  <2>5. QED
    BY <2>1, <2>2, <2>4
<1>11. Limit' = limit
  <2>1. Limit' = sent' - filter'.held
    BY <1>1 DEF Limit
  <2>2. QED
    BY <1>1, <1>9, <2>1
<1> HIDE DEF limit
<1>12. /\ Delivered(text, reader.got, queue, Limit) /\ reader.got \in Seq(Nat)
       /\ queue \in Seq(Items)
  <2>1. Delivered(text, reader.got, queue, Limit)
    BY <1>1 DEF GatewayInv, Whole
  <2>2. QED
    BY <2>1 DEF Delivered
<1>13. Delivered(text, reader.got, queue', limit)
  BY <1>1, <1>7, <1>8, <1>10, <1>12, TokenPut
<1>14. Content(reader.got, queue') = Content(reader.got, queue) \cup Range(fed.visible)
  <2>1. Content(reader.got, queue \o Token(fed.visible))
          = Content(reader.got, queue) \cup Range(fed.visible)
    BY <1>7, <1>12, TokenContent
  <2>2. QED
    BY <1>1, <2>1
<1>15. /\ queue' \in Seq(Items)
       /\ \A i \in 1..Len(queue') :
            (i \in 1..Len(queue) /\ queue'[i] = queue[i]) \/ queue'[i].item = "token"
  BY <1>1, <1>7, <1>12, TokenItems
<1>16. GatewayType'
  <2>1. filter' \in [inside : BOOLEAN, held : 0..2]
    BY <1>7 DEF Chunk
  <2>2. sent' \in 0..Len(text')
    BY <1>1, <1>2
  <2>3. swallowed' \subseteq DOMAIN text'
    <3>1. lo..hi \subseteq 1..Len(text)
      BY <1>1, <1>2, <1>5
    <3>2. swallowed \subseteq DOMAIN text
      BY DEF GatewayInv, GatewayType
    <3>3. swallowed' \subseteq swallowed \cup lo..hi
      BY DEF Chunk, lo
    <3>4. QED
      BY <1>1, <1>2, <3>1, <3>2, <3>3
  <2>4. terminal' \in BOOLEAN
    BY DEF Chunk
  <2>5. QED
    BY <1>1, <1>15, <2>1, <2>2, <2>3, <2>4 DEF GatewayInv, GatewayType
<1>17. Unanswered' /\ Full'
  BY <1>1 DEF Unanswered, Full
<1>18. Reading'
  <2>1. Ready(text', sent' + 1 - filter'.held, filter'.inside) /\ filter'.held <= sent'
    BY <1>1, <1>8, <1>9, <1>10
  <2>2. QED
    BY <1>1, <1>4, <2>1 DEF Reading
<1>19. AtEnd'
  BY <1>1 DEF AtEnd, Chunk
<1>20. Whole'
  <2>1. ASSUME NEW p \in Visible(text) \cap 1..limit
        PROVE  p \in swallowed' \cup Content(reader.got, queue')
    <3>1. p \in 1..Limit \/ p \in lo..limit
      BY <1>10, <2>1
    <3>2. CASE p \in 1..Limit
      <4>1. p \in swallowed \cup Content(reader.got, queue)
        BY <1>1, <1>4, <2>1, <3>2 DEF GatewayInv, Whole
      <4>2. swallowed \subseteq swallowed'
        BY DEF Chunk
      <4>3. QED
        BY <1>14, <4>1, <4>2
    <3>3. CASE p \in lo..limit /\ Visible(text) \cap lo..limit \subseteq Range(fed.visible)
      BY <1>14, <2>1, <3>3
    <3>4. CASE p \in lo..limit /\ InBlock(text)[hi] = TRUE /\ InBlock(text)[hi + 1] = TRUE
      <4>1. swallowed' = swallowed \cup lo..hi
        BY <3>4 DEF Chunk, lo
      <4>2. p \in lo..hi
        BY <1>5, <1>7, <1>10, <3>4 DEF limit
      <4>3. QED
        BY <4>1, <4>2
    <3>5. \/ Visible(text) \cap lo..limit \subseteq Range(fed.visible)
          \/ InBlock(text)[hi] = TRUE /\ InBlock(text)[hi + 1] = TRUE
      BY <1>6 DEF FeedOK, limit
    <3>6. QED
      BY <3>1, <3>2, <3>3, <3>4, <3>5
  <2>2. QED
    BY <1>1, <1>11, <1>13, <2>1 DEF Whole
<1>21. LastItems'
  <2>1. \A i \in 1..Len(queue') : queue'[i].item = "token"
    BY <1>4, <1>15
  <2>2. QED
    BY <1>1, <1>4, <2>1 DEF LastItems
<1>22. QED
  BY <1>16, <1>17, <1>18, <1>19, <1>20, <1>21 DEF GatewayInv

LEMMA KeptByStreamEvent ==
  ASSUME GatewayInv, StreamEvent PROVE GatewayInv'
<1>1. PICK n \in 0..(Len(text) - sent), finish \in BOOLEAN :
        LET hi == sent + n
            fed == Feed(text, sent + 1 - filter.held, hi, filter.inside)
        IN  /\ n > 0 \/ finish
            /\ finish => hi = Len(text)
            /\ terminal' = (terminal \/ finish)
            /\ sent' = hi
            /\ IF n = 0 THEN UNCHANGED <<filter, swallowed, queue>>
               ELSE /\ filter' = [inside |-> fed.inside, held |-> fed.held]
                    /\ swallowed' = IF InBlock(text)[hi] /\ InBlock(text)[hi + 1]
                                    THEN swallowed \cup (sent + 1 - filter.held)..hi
                                    ELSE swallowed
                    /\ Put(Token(fed.visible))
  BY DEF StreamEvent
<1>2. pc = "reading" /\ UNCHANGED <<kind, payload, pc, text, error, reader>>
  BY DEF StreamEvent
<1>3. kind = "stream"
  BY <1>2 DEF GatewayInv, Full
<1>4. Len(text) \in Nat /\ sent \in Nat /\ sent <= Len(text) /\ terminal \in BOOLEAN
  BY TypesOf
<1>5. PICK hi \in Nat : hi = sent + n /\ hi <= Len(text) /\ sent <= hi /\ (n # 0 => sent < hi)
  BY <1>4
<1>6. /\ sent' = hi /\ terminal' \in BOOLEAN
      /\ terminal' = TRUE => hi = Len(text)
  <2>1. terminal' = (terminal \/ finish) /\ (finish => hi = Len(text)) /\ sent' = hi
    BY <1>1, <1>5
  <2>2. terminal = TRUE => sent = Len(text)
    BY <1>3 DEF GatewayInv, AtEnd
  <2>3. sent = Len(text) => hi = Len(text)
    BY <1>4, <1>5
  <2>4. QED
    BY <1>4, <2>1, <2>2, <2>3
<1>7. CASE n # 0
  <2> DEFINE fed == Feed(text, sent + 1 - filter.held, hi, filter.inside)
  <2>1. /\ filter' = [inside |-> fed.inside, held |-> fed.held]
        /\ swallowed' = IF InBlock(text)[hi] /\ InBlock(text)[hi + 1]
                        THEN swallowed \cup (sent + 1 - filter.held)..hi ELSE swallowed
        /\ Put(Token(fed.visible))
    BY <1>1, <1>5, <1>7
  <2>2. fed = Feed(text, sent + 1 - filter.held, hi, filter.inside)
    OBVIOUS
  <2> HIDE DEF fed
  <2>3. sent < hi
    BY <1>5, <1>7
  <2>4. Chunk(hi, fed)
    BY <1>2, <1>3, <1>5, <1>6, <2>1, <2>2, <2>3 DEF Chunk
  <2>5. QED
    BY <2>4, KeptByChunk
<1>8. CASE n = 0
  <2>1. UNCHANGED <<filter, swallowed, queue>> /\ sent' = sent
    BY <1>1, <1>4, <1>5, <1>6, <1>8
  <2>2. GatewayType'
    BY <1>2, <1>6, <2>1 DEF GatewayInv, GatewayType
  <2>3. Unanswered' /\ Full'
    BY <1>2, <1>3 DEF Unanswered, Full
  <2>4. Reading' /\ LastItems'
    BY <1>2, <2>1 DEF GatewayInv, Reading, LastItems
  <2>5. AtEnd'
    BY <1>2, <1>6, <2>1 DEF AtEnd
  <2>6. Whole'
    <3>1. Limit' = Limit
      BY <1>2, <2>1 DEF Limit
    <3>2. QED
      BY <1>2, <2>1, <3>1 DEF GatewayInv, Whole
  <2>7. QED
    BY <2>2, <2>3, <2>4, <2>5, <2>6 DEF GatewayInv
<1>9. QED
  BY <1>7, <1>8

LEMMA GatewayStutter ==
  ASSUME GatewayInv, UNCHANGED vars PROVE GatewayInv'
<1>1. /\ kind' = kind /\ pc' = pc /\ text' = text /\ sent' = sent /\ terminal' = terminal
      /\ filter' = filter /\ swallowed' = swallowed /\ error' = error /\ queue' = queue
      /\ reader' = reader
  BY DEF vars
<1>2. Limit' = Limit
  BY <1>1 DEF Limit
<1>3. GatewayType' /\ Unanswered' /\ Full'
  BY <1>1 DEF GatewayInv, GatewayType, Unanswered, Full
<1>4. Reading' /\ AtEnd'
  BY <1>1 DEF GatewayInv, Reading, AtEnd
<1>5. Whole' /\ LastItems'
  BY <1>1, <1>2 DEF GatewayInv, Whole, LastItems
<1>6. QED
  BY <1>3, <1>4, <1>5 DEF GatewayInv

LEMMA GatewayKept ==
  ASSUME GatewayInv, [Next]_vars PROVE GatewayInv'
<1>1. CASE BuildPayload
  BY <1>1, KeptByBuildPayload
<1>2. CASE FullFails
  BY <1>2, KeptByFullFails
<1>3. CASE FullAnswer
  BY <1>3, KeptByFullAnswer
<1>4. CASE StreamOpens
  BY <1>4, KeptByStreamOpens
<1>5. CASE StreamEvent
  BY <1>5, KeptByStreamEvent
<1>6. CASE StreamDone
  BY <1>6, KeptByStreamDone
<1>7. CASE StreamEof
  BY <1>7, KeptByStreamEof
<1>8. CASE StreamFails
  <2>1. pc \in {"send", "reading", "closing"} /\ kind = "stream"
    BY <1>8 DEF StreamFails
  <2>2. PICK e \in Errors : Raise(e)
    BY <1>8 DEF StreamFails
  <2>3. QED
    BY <2>1, <2>2, KeptByRaise
<1>9. CASE StreamInterrupted
  <2>1. pc \in {"send", "reading", "closing"} /\ kind = "stream"
    BY <1>9 DEF StreamInterrupted, GatewayInv, Full
  <2>2. "interrupted" \in Errors /\ Raise("interrupted")
    BY <1>9 DEF StreamInterrupted, Errors
  <2>3. PICK e \in Errors : Raise(e)
    BY <2>2
  <2>4. QED
    BY <2>1, <2>3, KeptByRaise
<1>10. CASE StreamFlush
  BY <1>10, KeptByStreamFlush
<1>11. CASE Finally
  BY <1>11, KeptByFinally
<1>12. CASE ReadToken
  BY <1>12, KeptByReadToken
<1>13. CASE ReadEnd
  BY <1>13, KeptByReadEnd
<1>14. CASE Join
  BY <1>14, KeptByJoin
<1>15. CASE Leave
  BY <1>15, KeptByLeave
<1>16. CASE UNCHANGED vars
  BY <1>16, GatewayStutter
<1>17. QED
  BY <1>1, <1>2, <1>3, <1>4, <1>5, <1>6, <1>7, <1>8, <1>9, <1>10, <1>11, <1>12, <1>13,
     <1>14, <1>15, <1>16 DEF Next, Collector, Reader

(* The invariant holds in every state of the gateway.                       *)
THEOREM GatewayInvariant == Spec => []GatewayInv
<1>1. Init => GatewayInv
  BY InitGateway
<1>2. GatewayInv /\ [Next]_vars => GatewayInv'
  BY GatewayKept
<1>3. QED
  BY <1>1, <1>2, PTL DEF Spec

-----------------------------------------------------------------------------
(* What is sent                                                             *)

(* A payload is there from the time it is built until it is sent: its       *)
(* messages are those of one of the calls, with the control line.           *)
PayloadInv ==
  payload = NoValue \/
    /\ payload.call \in Calls
    /\ payload.messages = ApplyPromptControl(payload.call.messages,
                                             Select(payload.call.mode).control)

(* Nothing but BuildPayload makes a payload: the request takes it, and what *)
(* the thread and the reader do afterwards does not touch it.               *)
LEMMA PayloadMoves ==
  ASSUME [Next]_vars, ~BuildPayload
  PROVE  payload' = payload \/ payload' = NoValue
<1>request. CASE FullFails \/ FullAnswer \/ StreamOpens
  BY <1>request DEF FullFails, FullAnswer, StreamOpens
<1>events. CASE StreamEvent \/ StreamDone \/ StreamEof \/ StreamFlush \/ Finally
  BY <1>events DEF StreamEvent, StreamDone, StreamEof, StreamFlush, Finally
<1>errors. CASE StreamFails \/ StreamInterrupted
  BY <1>errors DEF StreamFails, StreamInterrupted, Raise
<1>reader. CASE Reader \/ Leave \/ UNCHANGED vars
  BY <1>reader DEF Reader, ReadToken, ReadEnd, Join, Leave, vars
<1> QED
  BY <1>request, <1>events, <1>errors, <1>reader DEF Next, Collector

LEMMA PayloadKept ==
  ASSUME PayloadInv, [Next]_vars PROVE PayloadInv'
<1>1. CASE BuildPayload
  <2>1. PICK call \in Calls :
          payload' = [call |-> call,
                      messages |-> ApplyPromptControl(call.messages, Select(call.mode).control),
                      parameters |-> MergeParameters(Select(call.mode), call.given),
                      stream |-> kind = "stream"]
    BY <1>1 DEF BuildPayload
  <2>2. /\ payload'.call = call
        /\ payload'.messages = ApplyPromptControl(call.messages, Select(call.mode).control)
    BY <2>1
  <2>3. QED
    BY <2>2 DEF PayloadInv, ApplyPromptControl, Select
<1>2. CASE payload' = NoValue
  BY <1>2 DEF PayloadInv
<1>3. CASE payload' = payload
  BY <1>3 DEF PayloadInv, ApplyPromptControl, Select, WithControl
<1>4. QED
  BY <1>1, <1>2, <1>3, PayloadMoves

(* The payload invariant holds in every state.                              *)
THEOREM PayloadInvariant == Spec => []PayloadInv
<1>1. Init => PayloadInv
  BY DEF Init, PayloadInv
<1>2. PayloadInv /\ [Next]_vars => PayloadInv'
  BY PayloadKept
<1>3. QED
  BY <1>1, <1>2, PTL DEF Spec

-----------------------------------------------------------------------------
(* The properties                                                           *)

(* What the gateway keeps has its type, whatever the server sends.          *)
THEOREM GatewayTypeCorrect == Spec => []TypeOK
<1>1. GatewayInv /\ PayloadInv => TypeOK
  <2> SUFFICES ASSUME GatewayInv, PayloadInv PROVE TypeOK
    OBVIOUS
  <2>1. queue \in Seq(Items) /\ reader \in Readers /\ filter \in [inside : BOOLEAN, held : 0..2]
    BY DEF GatewayInv, GatewayType
  <2>2. \A i \in DOMAIN queue : queue[i].item \in {"token", "error", "done"}
    <3>1. \A i \in DOMAIN queue : queue[i] \in Items
      BY <2>1, LenProperties, ElementOfSeq
    <3>2. QED
      BY <3>1 DEF Items
  <2>3. /\ reader.pc \in {"waiting", "joining", "complete", "failed", "left"}
        /\ reader.error \in Errors \cup {"none"}
    BY <2>1 DEF Readers
  <2>4. filter \in [inside : BOOLEAN, held : 0..(TagLen - 1)]
    <3>1. TagLen - 1 = 2
      BY DEF TagLen
    <3>2. QED
      BY <2>1, <3>1
  <2>5. payload = NoValue \/ payload.call \in Calls
    BY DEF PayloadInv
  <2>6. QED
    BY <2>2, <2>3, <2>4, <2>5 DEF TypeOK, GatewayInv, GatewayType
<1>2. QED
  BY <1>1, GatewayInvariant, PayloadInvariant, PTL

(* Of an answer the reader takes for complete, the server has sent all.     *)
LEMMA SentWhole ==
  ASSUME GatewayInv, reader.pc = "complete"
  PROVE  sent = Len(text) /\ error = "none" /\ queue = <<>> /\ (kind = "stream" => pc = "ended")
<1>1. CASE kind = "stream"
  <2>1. error = "none" /\ pc = "ended" /\ queue = <<>>
    BY <1>1 DEF GatewayInv, LastItems
  <2>2. QED
    BY <1>1, <2>1 DEF GatewayInv, AtEnd
<1>2. CASE kind # "stream"
  BY <1>2 DEF GatewayInv, Full
<1>3. QED
  BY <1>1, <1>2

(* An answer that completes has been sent to its end, and a stream that     *)
(* fails gives its reader the error the thread raised.                      *)
THEOREM CompleteMeansSentAlways == Spec => []CompleteMeansSent
<1>1. GatewayInv => CompleteMeansSent
  <2> SUFFICES ASSUME GatewayInv PROVE CompleteMeansSent
    OBVIOUS
  <2>1. reader.pc = "complete" => sent = Len(text) /\ error = "none" /\ queue = <<>>
    BY SentWhole
  <2>2. kind = "stream" /\ reader.pc = "failed" => reader.error = error /\ error # "none"
    BY DEF GatewayInv, LastItems
  <2>3. QED
    BY <2>1, <2>2 DEF CompleteMeansSent
<1>2. QED
  BY <1>1, GatewayInvariant, PTL

(* Only the last act of the thread ends it while its reader waits.          *)
LEMMA EndedByFinally ==
  ASSUME GatewayInv, [Next]_vars, pc # "ended", pc' = "ended", reader'.pc = "waiting"
  PROVE  Finally
<1>1. CASE FullFails
  <2>1. reader'.pc = "failed"
    BY <1>1 DEF FullFails, GatewayInv, GatewayType, Readers
  <2>2. QED
    BY <2>1
<1>2. CASE FullAnswer
  <2>1. reader'.pc = "complete"
    BY <1>2 DEF FullAnswer, GatewayInv, GatewayType, Readers
  <2>2. QED
    BY <2>1
<1>3. CASE BuildPayload \/ StreamOpens \/ StreamEvent \/ StreamDone \/ StreamEof \/ StreamFlush
  BY <1>3 DEF BuildPayload, StreamOpens, StreamEvent, StreamDone, StreamEof, StreamFlush
<1>4. CASE StreamFails \/ StreamInterrupted
  BY <1>4 DEF StreamFails, StreamInterrupted, Raise
<1>5. CASE ReadToken \/ ReadEnd \/ Join \/ Leave
  BY <1>5 DEF ReadToken, ReadEnd, Join, Leave
<1>6. CASE UNCHANGED vars
  BY <1>6 DEF vars
<1>7. QED
  BY <1>1, <1>2, <1>3, <1>4, <1>5, <1>6 DEF Next, Collector, Reader

(* After its end the thread puts nothing, and a reader that goes on waiting *)
(* has taken a token at most.                                               *)
LEMMA EndedKeepsQueue ==
  ASSUME GatewayInv, [Next]_vars, pc = "ended", reader'.pc = "waiting"
  PROVE  ReadToken \/ (queue' = queue /\ reader.pc = "waiting")
<1>0. reader \in Readers
  BY DEF GatewayInv, GatewayType
<1>1. ~Collector
  BY DEF Collector, BuildPayload, FullFails, FullAnswer, StreamOpens, StreamEvent, StreamDone,
    StreamEof, StreamFails, StreamInterrupted, StreamFlush, Finally
<1>2. CASE ReadEnd
  <2>1. reader'.pc = "joining"
    BY <1>0, <1>2 DEF ReadEnd, Readers
  <2>2. QED
    BY <2>1
<1>3. CASE Join
  <2>1. reader'.pc \in {"complete", "failed"}
    BY <1>0, <1>3 DEF Join, Readers
  <2>2. QED
    BY <2>1
<1>4. CASE Leave
  <2>1. reader'.pc = "left"
    BY <1>0, <1>4 DEF Leave, Readers
  <2>2. QED
    BY <2>1
<1>5. CASE UNCHANGED vars
  BY <1>5 DEF vars
<1>6. QED
  BY <1>1, <1>2, <1>3, <1>4, <1>5 DEF Next, Reader

(* The last item, once put, is before a reader that waits.                  *)
LastItemThere ==
  reader.pc = "waiting" /\ pc = "ended" => queue # <<>> /\ queue[Len(queue)].item = "done"

LEMMA LastItemStep ==
  ASSUME GatewayInv, [Next]_vars, LastItemThere PROVE LastItemThere'
<1> SUFFICES ASSUME reader'.pc = "waiting", pc' = "ended"
             PROVE  queue' # <<>> /\ queue'[Len(queue')].item = "done"
  BY DEF LastItemThere
<1>0. queue \in Seq(Items) /\ Len(queue) \in Nat
  BY LenProperties DEF GatewayInv, GatewayType
<1>1. CASE Finally
  <2> DEFINE item == [item |-> "done", got |-> <<>>]
  <2>1. item \in Items /\ item.item = "done"
    BY EmptySeq DEF Items
  <2>2. queue' = queue \o <<item>>
    BY <1>1 DEF Finally, Put
  <2> HIDE DEF item
  <2>3. queue' \in Seq(Items) /\ Len(queue') = Len(queue) + 1 /\ queue'[Len(queue) + 1] = item
    BY <1>0, <2>1, <2>2, ItemPut
  <2>4. queue' # <<>> /\ queue'[Len(queue')] = item
    BY <1>0, <2>3, EmptySeq, LenProperties
  <2>5. QED
    BY <2>1, <2>4
<1>2. CASE pc = "ended" /\ ReadToken
  <2>1. /\ reader.pc = "waiting" /\ queue # <<>> /\ Head(queue).item = "token"
        /\ queue' = Tail(queue)
    BY <1>2 DEF ReadToken
  <2>2. queue[Len(queue)].item = "done"
    BY <1>2, <2>1 DEF LastItemThere
  <2>3. /\ queue' \in Seq(Items) /\ Len(queue') = Len(queue) - 1 /\ queue[1] = Head(queue)
        /\ \A i \in 1..Len(queue') : queue'[i] = queue[i + 1]
    BY <1>0, <2>1, HeadTailProperties, LenProperties
  <2>4. PICK n \in Nat : n = Len(queue)
    BY <1>0
  <2>5. n # 0 /\ n # 1
    <3>1. n # 0
      BY <1>0, <2>1, <2>4, EmptySeq
    <3>2. n # 1
      BY <2>1, <2>2, <2>3, <2>4
    <3>3. QED
      BY <3>1, <3>2
  <2>6. Len(queue') = n - 1 /\ n - 1 \in 1..(n - 1) /\ n - 1 + 1 = n
    BY <2>3, <2>4, <2>5
  <2>7. queue'[n - 1] = queue[n]
    BY <2>3, <2>6
  <2>8. queue' # <<>>
    BY <2>5, <2>6, EmptySeq
  <2>9. QED
    BY <2>2, <2>4, <2>6, <2>7, <2>8
<1>3. CASE pc = "ended" /\ queue' = queue /\ reader.pc = "waiting"
  BY <1>3 DEF LastItemThere
<1>4. QED
  BY <1>1, <1>2, <1>3, EndedByFinally, EndedKeepsQueue

(* Whatever the thread goes through, its reader never waits for an item     *)
(* that does not come.                                                      *)
THEOREM ReaderNeverStrandedAlways == Spec => []ReaderNeverStranded
<1>1. Init => LastItemThere
  BY DEF Init, LastItemThere
<1>2. GatewayInv /\ LastItemThere /\ [Next]_vars => LastItemThere'
  BY LastItemStep
<1>3. GatewayInv /\ LastItemThere => ReaderNeverStranded
  <2> SUFFICES ASSUME GatewayInv, LastItemThere, reader.pc = "waiting", pc = "ended"
               PROVE  ReaderNeverStranded
    BY DEF ReaderNeverStranded
  <2>1. queue # <<>> /\ queue[Len(queue)].item = "done"
    BY DEF LastItemThere
  <2>2. kind = "stream"
    BY DEF GatewayInv, Full
  <2>3. error # "none" => \E i \in 1..Len(queue) : queue[i].item = "error"
    BY <2>2 DEF GatewayInv, LastItems
  <2>4. DOMAIN queue = 1..Len(queue)
    BY LenProperties DEF GatewayInv, GatewayType
  <2>5. QED
    BY <2>1, <2>3, <2>4 DEF ReaderNeverStranded
<1>4. QED
  BY <1>1, <1>2, <1>3, GatewayInvariant, PTL DEF Spec

(* However the server cuts its text, nothing of a think block is delivered, *)
(* and what is delivered is delivered once and in order.                    *)
THEOREM HiddenStaysHiddenAlways == Spec => []HiddenStaysHidden
<1>1. GatewayInv => HiddenStaysHidden
  <2> SUFFICES ASSUME GatewayInv PROVE HiddenStaysHidden
    OBVIOUS
  <2>1. /\ queue \in Seq(Items) /\ reader.got \in Seq(Nat) /\ Len(queue) \in Nat
    BY LenProperties DEF GatewayInv, GatewayType, Readers
  <2>2. \A i \in 0..Len(queue) : Part(i) = Piece(reader.got, queue, i)
    BY DEF Part, Piece
  <2>3. Visible(text) \cap ClosedBlocks(text) = {}
    BY DEF ClosedBlocks
  <2>4. ASSUME NEW i \in 0..Len(queue)
        PROVE  /\ kind = "stream" => Range(Part(i)) \subseteq Visible(text)
               /\ Range(Part(i)) \cap ClosedBlocks(text) = {}
               /\ Ascending(Part(i))
    <3>1. CASE kind = "stream"
      <4>1. Delivered(text, reader.got, queue, Limit)
        BY <3>1 DEF GatewayInv, Whole
      <4>2. Ascending(Part(i)) /\ Range(Part(i)) \subseteq Visible(text)
        BY <2>2, <4>1 DEF Delivered
      <4>3. QED
        BY <2>3, <4>2
    <3>2. CASE kind # "stream"
      <4>1. queue = <<>> /\ Ascending(reader.got) /\ Range(reader.got) \cap ClosedBlocks(text) = {}
        BY <3>2 DEF GatewayInv, Full
      <4>2. Len(queue) = 0
        BY <4>1
      <4>3. i = 0
        BY <4>2
      <4>4. Part(i) = reader.got
        BY <4>3 DEF Part
      <4>5. QED
        BY <3>2, <4>1, <4>4
    <3>3. QED
      BY <3>1, <3>2
  <2>5. ASSUME NEW i \in 0..Len(queue), NEW j \in i..Len(queue),
               NEW k \in DOMAIN Part(i), NEW l \in DOMAIN Part(j), i < j \/ k < l
        PROVE  Part(i)[k] < Part(j)[l]
    <3>1. i = j \/ i < j
      BY <2>1
    <3>2. CASE i = j
      <4>1. k < l
        BY <2>5, <3>2
      <4>2. QED
        BY <2>4, <3>2, <4>1 DEF Ascending
    <3>3. CASE i < j
      <4>1. j \in 0..Len(queue) /\ Len(queue) # 0
        BY <2>1, <3>3
      <4>2. kind = "stream"
        <5>1. Len(<<>>) = 0
          OBVIOUS
        <5>2. queue # <<>>
          BY <4>1, <5>1
        <5>3. QED
          BY <5>2 DEF GatewayInv, Full
      <4>3. Delivered(text, reader.got, queue, Limit)
        BY <4>2 DEF GatewayInv, Whole
      <4>4. Part(i)[k] \in Range(Part(i)) /\ Part(j)[l] \in Range(Part(j))
        BY DEF Range
      <4>5. QED
        BY <2>2, <3>3, <4>1, <4>3, <4>4 DEF Delivered
    <3>4. QED
      BY <3>1, <3>2, <3>3
  <2>6. QED
    BY <2>4, <2>5 DEF HiddenStaysHidden
<1>2. QED
  BY <1>1, GatewayInvariant, PTL

(* All a stream that completes has shown.                                   *)
LEMMA ShownWhole ==
  ASSUME GatewayInv, kind = "stream", reader.pc = "complete"
  PROVE  /\ Visible(text) \ swallowed \subseteq Range(reader.got)
         /\ Range(reader.got) \subseteq Visible(text)
         /\ reader.got \in Seq(Nat) /\ Ascending(reader.got)
<1>1. sent = Len(text) /\ error = "none" /\ queue = <<>> /\ pc = "ended"
  BY SentWhole
<1>2. text \in Seq(Chars) /\ Len(text) \in Nat
  BY TypesOf
<1>3. Limit = Len(text) /\ Len(queue) = 0 /\ Piece(reader.got, queue, 0) = reader.got
  BY <1>1 DEF Limit, Piece
<1>4. Visible(text) \subseteq 1..Len(text)
  BY <1>2, Hidden
<1>5. Delivered(text, reader.got, queue, Limit)
  BY DEF GatewayInv, Whole
<1>6. Visible(text) \cap 1..Limit \subseteq swallowed \cup Content(reader.got, queue)
  BY <1>1 DEF GatewayInv, Whole
<1>7. Content(reader.got, queue) = Range(reader.got)
  <2>1. \A i \in 0..Len(queue) : i = 0
    BY <1>3
  <2>2. 0 \in 0..Len(queue)
    BY <1>3
  <2>3. QED
    BY <1>3, <2>1, <2>2 DEF Content
<1>8. Visible(text) \ swallowed \subseteq Range(reader.got)
  BY <1>3, <1>4, <1>6, <1>7
<1>9. 0 \in 0..Len(queue)
  BY <1>3
<1>10. /\ Range(reader.got) \subseteq Visible(text)
       /\ reader.got \in Seq(Nat) /\ Ascending(reader.got)
  BY <1>3, <1>5, <1>9 DEF Delivered
<1>11. QED
  BY <1>8, <1>10

(* A stream that completes has shown all that is visible, but for what a    *)
(* feed that ended within a block swallowed.                                *)
THEOREM NothingElseIsLostAlways == Spec => []NothingElseIsLost
<1>1. GatewayInv => NothingElseIsLost
  BY ShownWhole DEF NothingElseIsLost
<1>2. QED
  BY <1>1, GatewayInvariant, PTL

(* The stream shows what the full answer with the same text would show, but *)
(* for the whitespace that strip() takes off both ends of the full answer.  *)
THEOREM StreamAgreesWithFullAlways == Spec => []StreamAgreesWithFull
<1>1. GatewayInv => StreamAgreesWithFull
  <2> SUFFICES ASSUME GatewayInv, kind = "stream", reader.pc = "complete", swallowed = {},
                      Balanced(text),
                      \A tag \in {Open, Close} : TagsIn(text, Visible(text), tag) = {}
               PROVE  Strip(text, reader.got) = MessageContent(text)
    BY DEF StreamAgreesWithFull
  <2> DEFINE left == StripThinkBlocks(text)
  <2>1. text \in Seq(Chars) /\ Len(text) \in Nat
    BY TypesOf
  <2>2. /\ Range(reader.got) = Visible(text)
        /\ reader.got \in Seq(Nat) /\ Ascending(reader.got)
    BY ShownWhole
  <2>3. InBlock(text)[Len(text) + 1] = FALSE
    <3>1. InBlock(text) \in [1..(Len(text) + 1) -> BOOLEAN]
      BY <2>1, InBlockIs
    <3>2. Len(text) + 1 \in 1..(Len(text) + 1)
      BY <2>1
    <3>3. InBlock(text)[Len(text) + 1] \in BOOLEAN
      BY <3>1, <3>2
    <3>4. ~InBlock(text)[Len(text) + 1]
      BY DEF Balanced
    <3>5. QED
      BY <3>3, <3>4
  <2>4. left \in Seq(Nat) /\ Ascending(left)
    BY <2>1, StripIs
  <2>5. Range(left) = Visible(text)
    BY <2>1, <2>3, StripIs
  <2> HIDE DEF left
  <2>6. reader.got = left
    BY <2>2, <2>4, <2>5, AscendingUnique
  <2>7. QED
    BY <2>6 DEF left, MessageContent
<1>2. QED
  BY <1>1, GatewayInvariant, PTL

EmptyLine == ""
Lines == STRING \cup {EmptyLine, "/think", "/no_think"}

(* The control line of a profile is a line, and not an empty one.           *)
LEMMA ControlIs ==
  ASSUME NEW mode
  PROVE  Select(mode).control \in Lines /\ Select(mode).control # EmptyLine
<1>1. \A name \in DOMAIN Profiles : Profiles[name].control \in {"/think", "/no_think"}
  BY GatewayAssumption DEF ProfilesOK, ProfileOK
<1>2. \E name \in DOMAIN Profiles : Select(mode) = Profiles[name]
  BY GatewayAssumption DEF Select, ProfilesOK
<1>3. Select(mode).control \in {"/think", "/no_think"}
  BY <1>1, <1>2
<1>4. "/think" # EmptyLine /\ "/no_think" # EmptyLine
  BY Zenon DEF EmptyLine
<1>5. {"/think", "/no_think"} \subseteq Lines
  BY Zenon DEF Lines
<1>6. QED
  BY <1>3, <1>4, <1>5, Zenon

(* WithControl adds the line once, or not at all where it is.               *)
LEMMA WithControlIs ==
  ASSUME NEW lines \in Seq(Lines), NEW control \in Lines, control # EmptyLine
  PROVE  LET all == WithControl(lines, control)
             places == {k \in DOMAIN all : all[k] = control}
         IN  Cardinality(places) = 1 \/ (places # {} /\ all = lines)
<1> DEFINE all == WithControl(lines, control)
           places == {k \in DOMAIN all : all[k] = control}
<1>0. Len(lines) \in Nat /\ DOMAIN lines = 1..Len(lines)
  BY LenProperties
<1>1. CASE control \in Range(lines)
  <2>1. all = lines
    BY <1>1 DEF WithControl
  <2>2. places # {}
    BY <1>1, <2>1 DEF Range
  <2>3. QED
    BY <2>1, <2>2
<1>2. CASE control \notin Range(lines)
  <2>1. \E place : places = {place}
    <3>1. CASE lines = <<>>
      <4>1. all = <<control>>
        BY <1>2, <3>1 DEF WithControl
      <4>2. all \in Seq(Lines) /\ Len(all) = 1 /\ all[1] = control
        BY <4>1
      <4>3. places = {1}
        <5> HIDE DEF all
        <5>1. DOMAIN all = {1}
          BY <4>2
        <5>2. QED
          BY <4>2, <5>1
      <4>4. QED
        BY <4>3
    <3>2. CASE lines # <<>>
      <4> DEFINE more == <<EmptyLine, control>>
      <4>1. all = lines \o more
        BY <1>2, <3>2, Zenon DEF WithControl, EmptyLine
      <4>0. EmptyLine \in Lines
        BY Zenon DEF Lines
      <4>2. more \in Seq(Lines) /\ Len(more) = 2 /\ more[1] = EmptyLine /\ more[2] = control
        BY <4>0
      <4> HIDE DEF more, all
      <4>3. /\ all \in Seq(Lines) /\ Len(all) = Len(lines) + 2
            /\ \A k \in 1..(Len(lines) + 2) :
                 all[k] = IF k <= Len(lines) THEN lines[k] ELSE more[k - Len(lines)]
        <5>1. /\ lines \o more \in Seq(Lines)
              /\ Len(lines \o more) = Len(lines) + Len(more)
              /\ \A k \in 1..(Len(lines) + Len(more)) :
                   (lines \o more)[k] = IF k <= Len(lines) THEN lines[k]
                                        ELSE more[k - Len(lines)]
          BY <4>2, ConcatProperties
        <5>2. Len(lines) + Len(more) = Len(lines) + 2
          BY <4>2
        <5>3. QED
          BY <4>1, <5>1, <5>2, Zenon
      <4>4. DOMAIN all = 1..(Len(lines) + 2)
        BY <4>3
      <4>5. ASSUME NEW k \in 1..(Len(lines) + 2) PROVE all[k] = control <=> k = Len(lines) + 2
        <5>0. k <= Len(lines) \/ k = Len(lines) + 1 \/ k = Len(lines) + 2
          BY <1>0
        <5>1. CASE k <= Len(lines)
          <6>1. k \in DOMAIN lines /\ all[k] = lines[k] /\ k # Len(lines) + 2
            BY <1>0, <4>3, <5>1
          <6>2. lines[k] # control
            BY <1>2, <6>1 DEF Range
          <6>3. QED
            BY <6>1, <6>2
        <5>2. CASE k = Len(lines) + 1
          <6>1. all[k] = more[1] /\ k # Len(lines) + 2
            BY <1>0, <4>3, <5>2
          <6>2. QED
            BY <4>2, <6>1
        <5>3. CASE k = Len(lines) + 2
          <6>1. all[k] = more[2]
            BY <1>0, <4>3, <5>3
          <6>2. QED
            BY <4>2, <5>3, <6>1
        <5>4. QED
          BY <5>0, <5>1, <5>2, <5>3
      <4>6. Len(lines) + 2 \in 1..(Len(lines) + 2)
        BY <1>0
      <4>7. places = {Len(lines) + 2}
        BY <4>4, <4>5, <4>6
      <4>8. QED
        BY <4>7
    <3>3. QED
      BY <3>1, <3>2
  <2> HIDE DEF places
  <2>2. Cardinality(places) = 1
    BY <2>1, FS_Singleton
  <2>3. QED
    BY <2>2 DEF places
<1>3. QED
  BY <1>1, <1>2

Message == [role : STRING \cup {"system"}, lines : Seq(Lines)]

LEMMA SeqOfMore ==
  ASSUME NEW S, NEW T, S \subseteq T, NEW s \in Seq(S) PROVE s \in Seq(T)
<1>1. /\ Len(s) \in Nat /\ s = [i \in 1..Len(s) |-> s[i]]
      /\ \A i \in 1..Len(s) : s[i] \in S
  BY LenProperties
<1>2. [i \in 1..Len(s) |-> s[i]] \in Seq(T)
  BY <1>1
<1>3. QED
  BY <1>1, <1>2

LEMMA MessagesAre == Messages \subseteq Seq(Message)
<1> SUFFICES ASSUME NEW given \in Messages PROVE given \in Seq(Message)
  OBVIOUS
<1>1. given \in Seq([role : STRING, lines : Seq(STRING)])
  BY DEF Messages
<1>2. [role : STRING, lines : Seq(STRING)] \subseteq Message
  <2>1. Seq(STRING) \subseteq Seq(Lines)
    <3>1. STRING \subseteq Lines
      BY Zenon DEF Lines
    <3>2. QED
      BY <3>1, SeqOfMore
  <2>2. QED
    BY <2>1 DEF Message
<1>3. QED
  BY <1>1, <1>2, SeqOfMore

(* The control line is in the first system message of all, which is added   *)
(* to those that are given if there is none, and the others are as given.   *)
ControlIn(all, given, control) ==
  LET added == IF \E i \in DOMAIN given : given[i].role = "system" THEN 0 ELSE 1
  IN  \E first \in DOMAIN all :
        LET places == {k \in DOMAIN all[first].lines : all[first].lines[k] = control}
        IN  /\ all[first].role = "system"
            /\ \A i \in 1..(first - 1) : all[i].role # "system"
            /\ Cardinality(places) = 1 \/ (places # {} /\ all = given)
            /\ Len(all) = Len(given) + added
            /\ \A i \in DOMAIN given : i + added # first => all[i + added] = given[i]

LEMMA ControlApplied ==
  ASSUME NEW given \in Seq(Message), NEW control \in Lines, control # EmptyLine
  PROVE  ControlIn(ApplyPromptControl(given, control), given, control)
<1> DEFINE all == ApplyPromptControl(given, control)
           system == {i \in DOMAIN given : given[i].role = "system"}
<1>0. /\ given \in Seq(Message) /\ Len(given) \in Nat /\ DOMAIN given = 1..Len(given)
      /\ \A i \in DOMAIN given : given[i] \in Message
  BY LenProperties, ElementOfSeq
<1>1. CASE system = {}
  <2> DEFINE new == [role |-> "system", lines |-> <<control>>]
  <2>1. all = <<new>> \o given
    BY <1>1 DEF ApplyPromptControl
  <2>2. new \in Message /\ new.role = "system" /\ new.lines = <<control>>
    <3>1. <<control>> \in Seq(Lines)
      OBVIOUS
    <3>2. QED
      BY <3>1 DEF Message
  <2> HIDE DEF new, all
  <2>3. <<new>> \in Seq(Message) /\ Len(<<new>>) = 1 /\ <<new>>[1] = new
    BY <2>2
  <2>4. /\ all \in Seq(Message) /\ Len(all) = 1 + Len(given)
        /\ \A k \in 1..(1 + Len(given)) :
             all[k] = IF k <= 1 THEN <<new>>[k] ELSE given[k - 1]
    BY <1>0, <2>1, <2>3, ConcatProperties
  <2>5. DOMAIN all = 1..(1 + Len(given)) /\ all[1] = new /\ 1 \in DOMAIN all
    BY <1>0, <2>3, <2>4
  <2>6. \A i \in DOMAIN given : all[i + 1] = given[i]
    BY <1>0, <2>4
  <2>7. Cardinality({k \in DOMAIN <<control>> : <<control>>[k] = control}) = 1
    <3>0. <<control>> \in Seq(Lines)
      OBVIOUS
    <3>1. PICK only \in Seq(Lines) : only = <<control>>
      BY <3>0
    <3>2. Len(only) = 1 /\ only[1] = control
      BY <3>1
    <3>3. DOMAIN only = {1}
      BY <3>2
    <3>4. {k \in DOMAIN only : only[k] = control} = {1}
      BY <3>2, <3>3
    <3>5. QED
      BY <3>1, <3>4, FS_Singleton
  <2>8. \A i \in 1..(1 - 1) : FALSE
    OBVIOUS
  <2>9. ~ \E i \in DOMAIN given : given[i].role = "system"
    BY <1>1
  <2>10. Len(all) = Len(given) + 1
    BY <1>0, <2>4
  <2> HIDE DEF system
  <2>11. QED
    BY <2>2, <2>5, <2>6, <2>7, <2>8, <2>9, <2>10 DEF all, ControlIn
<1>2. CASE system # {}
  <2> DEFINE m == Min(system)
             lines == WithControl(given[m].lines, control)
  <2>1. m \in system /\ \A i \in system : m <= i
    <3>1. system \in SUBSET Nat
      BY <1>0
    <3>2. \E i \in system : \A k \in system : i <= k
      <4> HIDE DEF system
      <4>1. QED
        BY <1>2, <3>1, Least
    <3>3. QED
      BY <3>2 DEF Min
  <2>2. all = [given EXCEPT ![m] = [given[m] EXCEPT !.lines = lines]]
    BY <1>2 DEF ApplyPromptControl
  <2>3. m \in DOMAIN given /\ given[m].role = "system" /\ given[m].lines \in Seq(Lines)
    BY <1>0, <2>1 DEF Message
  <2> DEFINE places == {k \in DOMAIN lines : lines[k] = control}
  <2>4. Cardinality(places) = 1 \/ (places # {} /\ lines = given[m].lines)
    BY <2>3, WithControlIs
  <2>5. \A i \in 1..(m - 1) : given[i].role # "system"
    <3> SUFFICES ASSUME NEW i \in 1..(m - 1), given[i].role = "system" PROVE FALSE
      OBVIOUS
    <3>1. i \in DOMAIN given /\ m \in Nat /\ i < m
      BY <1>0, <2>3
    <3>2. i \in system
      BY <3>1
    <3>3. m <= i
      BY <2>1, <3>2
    <3> HIDE DEF m
    <3>4. QED
      BY <3>1, <3>3
  <2>6. \E i \in DOMAIN given : given[i].role = "system"
    BY <2>3
  <2> HIDE DEF m, lines, all
  <2>7. /\ all[m].role = "system" /\ all[m].lines = lines /\ DOMAIN all = DOMAIN given
        /\ \A i \in DOMAIN given : i # m => all[i] = given[i]
    BY <1>0, <2>2, <2>3
  <2>8. Len(all) = Len(given) + 0 /\ \A i \in DOMAIN given : i + 0 = i
    <3>1. Len(all) = Len(given)
      BY <1>0, <2>2, <2>3
    <3>2. QED
      BY <1>0, <3>1
  <2>9. lines = given[m].lines => all = given
    <3> SUFFICES ASSUME lines = given[m].lines PROVE all = given
      OBVIOUS
    <3>1. given[m] \in Message
      BY <1>0, <2>3
    <3>2. [given[m] EXCEPT !.lines = given[m].lines] = given[m]
      BY <3>1 DEF Message
    <3>3. all = [given EXCEPT ![m] = given[m]]
      BY <2>2, <3>2
    <3>4. QED
      BY <1>0, <2>3, <3>3
  <2>10. \A i \in 1..(m - 1) : all[i].role # "system"
    <3>1. \A i \in 1..(m - 1) : i \in DOMAIN given /\ i # m
      BY <1>0, <2>3
    <3>2. QED
      BY <2>5, <2>7, <3>1
  <2>11. \A i \in DOMAIN given : i + 0 # m => all[i + 0] = given[i]
    BY <2>7, <2>8
  <2>12. Cardinality(places) = 1 \/ (places # {} /\ all = given)
    BY <2>4, <2>9
  <2> HIDE DEF system
  <2>13. m \in DOMAIN all
    BY <2>3, <2>7
  <2>14. QED
    <3>1. /\ all[m].role = "system"
          /\ Cardinality({k \in DOMAIN all[m].lines : all[m].lines[k] = control}) = 1
             \/ ({k \in DOMAIN all[m].lines : all[m].lines[k] = control} # {} /\ all = given)
      BY <2>7, <2>12
    <3>2. ControlIn(all, given, control)
      BY <2>6, <2>8, <2>10, <2>11, <2>13, <3>1 DEF ControlIn
    <3>3. QED
      BY <3>2 DEF all
<1>3. QED
  BY <1>1, <1>2

(* Every payload carries the control line of its profile in its first       *)
(* system message, once unless the caller gave it more often, and changes   *)
(* no other message.                                                        *)
THEOREM ControlGivenOnceAlways == Spec => []ControlGivenOnce
<1>1. PayloadInv => ControlGivenOnce
  <2> SUFFICES ASSUME PayloadInv, payload # NoValue PROVE ControlGivenOnce
    BY DEF ControlGivenOnce
  <2> DEFINE control == Select(payload.call.mode).control
             given == payload.call.messages
  <2>1. given \in Seq(Message)
    <3>1. given \in Messages
      BY GatewayAssumption DEF PayloadInv
    <3>2. QED
      BY <3>1, MessagesAre
  <2>2. control \in Lines /\ control # EmptyLine
    BY ControlIs
  <2>3. payload.messages = ApplyPromptControl(given, control)
    BY DEF PayloadInv
  <2> HIDE DEF control, given
  <2>4. ControlIn(payload.messages, given, control)
    BY <2>1, <2>2, <2>3, ControlApplied
  <2>5. QED
    BY <2>4 DEF ControlGivenOnce, ControlIn, control, given
<1>2. QED
  BY <1>1, PayloadInvariant, PTL

=============================================================================
