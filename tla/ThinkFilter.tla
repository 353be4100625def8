---------------------------- MODULE ThinkFilter -----------------------------
(***************************************************************************)
(* The two ways llama_server_gateway.py takes the reasoning of the model   *)
(* out of its text: _ThinkStreamFilter, chunk by chunk, and                *)
(* _strip_think_blocks, on the whole text.                                 *)
(*                                                                         *)
(* A text is a sequence of characters, what is left of it the sequence of  *)
(* the positions that are kept. The tags <think> and </think> are          *)
(* shortened to three characters that overlap in the same way: in their    *)
(* first one only. The case of their letters is left out.                  *)
(***************************************************************************)
EXTENDS Naturals, Sequences, FiniteSets, SequencesExt, FiniteSetsExt

Open  == <<"<", "t", ">">>
Close == <<"<", "/", ">">>
TagLen == 3

Positions(lo, hi) == [k \in 1..(hi + 1 - lo) |-> lo + k - 1]

(* text.find(tag) in text[lo..hi], 0 when there is none.                    *)
Find(text, tag, lo, hi) ==
  LET found == {i \in lo..hi : i + TagLen <= hi + 1 /\ SubSeq(text, i, i + TagLen - 1) = tag}
  IN  IF found = {} THEN 0 ELSE Min(found)

(* Mutant: a tag that is cut in two is not waited for.                      *)
OverlapSuffix_None(text, tag, lo, hi) == 0

(* Mutant: a whole text that may begin a tag is waited for.                 *)
OverlapSuffix_Everything(text, tag, lo, hi) == hi + 1 - lo

(* The length of the longest end of text[lo..hi] that may begin a tag.      *)
OverlapSuffix(text, tag, lo, hi) ==
  Max({0} \cup {n \in 1..(TagLen - 1) : /\ lo + n <= hi + 1
                                        /\ SubSeq(text, hi + 1 - n, hi) = SubSeq(tag, 1, n)})

(* What feed returns: the characters, and those it holds back, which are    *)
(* the new buffer. A chunk that ends in a block returns nothing at all,     *)
(* whatever preceded the block.                                             *)
Fed(visible, inside, held, silent) ==
  [visible |-> visible, inside |-> inside, held |-> held, silent |-> silent]

(* The loop of feed in a block, with the rest of the chunk from i on;       *)
(* `outside` is what it does outside of one.                                *)
FeedInside(text, outside, i, hi) ==
  LET close == Find(text, Close, i, hi)
  IN  CASE i > hi -> Fed(<<>>, TRUE, 0, FALSE)
        [] i <= hi /\ close = 0 -> Fed(<<>>, TRUE, OverlapSuffix(text, Close, i, hi), TRUE)
        [] i <= hi /\ close > 0 -> outside[close + TagLen]

FeedOutside(text, outside, i, hi) ==
  LET open == Find(text, Open, i, hi)
      tail == OverlapSuffix(text, Open, i, hi)
  IN  CASE i > hi -> Fed(<<>>, FALSE, 0, FALSE)
        [] i <= hi /\ open = 0 -> Fed(Positions(i, hi - tail), FALSE, tail, FALSE)
        [] i <= hi /\ open > 0 -> [FeedInside(text, outside, open + TagLen, hi) EXCEPT
                                    !.visible = Positions(i, open - 1) \o @]

Scan(text, lo, hi) ==
  LET outside[i \in lo..(hi + 1)] == FeedOutside(text, outside, i, hi)
  IN  outside

(* feed: `lo` is where the buffer begins, `hi` where the chunk ends.        *)
Feed(text, lo, hi, inside) ==
  LET scan == Scan(text, lo, hi)
      fed == IF inside THEN FeedInside(text, scan, lo, hi) ELSE scan[lo]
  IN  IF fed.silent THEN [fed EXCEPT !.visible = <<>>] ELSE fed

(* Mutant: what was held back for a tag that never came is dropped.         *)
Flush_Never(hi, held, inside) == <<>>

Flush(hi, held, inside) == IF inside THEN <<>> ELSE Positions(hi + 1 - held, hi)

-----------------------------------------------------------------------------
(* What the text hides, whatever its chunks: one pass, a character at a     *)
(* time                                                                     *)

EndsTag(text, tag, p) == p >= TagLen /\ SubSeq(text, p + 1 - TagLen, p) = tag

(* Whether the character at p is in a block, or would be one past the end.  *)
InBlock(text) ==
  LET in[p \in 1..(Len(text) + 1)] ==
        IF p = 1 THEN FALSE
        ELSE IF in[p - 1] THEN ~EndsTag(text, Close, p - 1) ELSE EndsTag(text, Open, p - 1)
  IN  in

Visible(text) ==
  LET in == InBlock(text)
  IN  {p \in DOMAIN text :
        ~in[p] /\ \A k \in 0..(TagLen - 1) : p + k <= Len(text) =>
                     ~(EndsTag(text, Open, p + k) /\ ~in[p + k])}

(* The positions of the blocks that are closed, tags included.              *)
ClosedBlocks(text) ==
  LET in == InBlock(text)
  IN  {p \in DOMAIN text \ Visible(text) :
        \E q \in p..Len(text) : in[q] /\ EndsTag(text, Close, q)}

(* Every open tag has its close tag, and every close tag its open one.      *)
Balanced(text) ==
  LET in == InBlock(text)
  IN  /\ ~in[Len(text) + 1]
      /\ \A p \in DOMAIN text : EndsTag(text, Close, p) => in[p]

(* The characters of the tags there are in what is kept of the text.        *)
TagsIn(text, kept, tag) ==
  {p \in kept :
     \E at \in [1..TagLen -> kept] :
       /\ p \in Range(at)
       /\ \A k \in 1..TagLen : text[at[k]] = tag[k]
       /\ \A k \in 1..(TagLen - 1) :
            at[k] < at[k + 1] /\ kept \cap (at[k] + 1)..(at[k + 1] - 1) = {}}

(* str.replace(tag, "") on what is left of the text.                        *)
Without(text, kept, tag) == kept \ TagsIn(text, kept, tag)

InOrder(text, kept) ==
  LET upTo[p \in 0..Len(text)] ==
        IF p = 0 THEN <<>>
        ELSE IF p \in kept THEN Append(upTo[p - 1], p) ELSE upTo[p - 1]
  IN  upTo[Len(text)]

(* Mutant: the tags are removed and what is between them stays.             *)
StripThinkBlocks_TagsOnly(text) ==
  InOrder(text, Without(text, Without(text, DOMAIN text, Open), Close))

(* _strip_think_blocks: the closed blocks, then the tags that are left. The *)
(* text of a block that is not closed stays.                                *)
StripThinkBlocks(text) ==
  LET outside == DOMAIN text \ ClosedBlocks(text)
  IN  InOrder(text, Without(text, Without(text, outside, Open), Close))

Blank == " "

(* str.strip() on what is left of the text.                                 *)
Strip(text, left) ==
  LET ink == {i \in DOMAIN left : text[left[i]] # Blank}
  IN  IF ink = {} THEN <<>> ELSE SubSeq(left, Min(ink), Max(ink))

(* _extract_message_content, of an answer that has a text.                  *)
MessageContent(text) == Strip(text, StripThinkBlocks(text))

=============================================================================
