--------------------------- MODULE MCLlamaGateway ---------------------------
(* LlamaGateway on short texts, cut in every way.                           *)
EXTENDS LlamaGateway, TLC

CONSTANT MaxLength  \* bound: characters of a text

Block == Open \o <<"x">> \o Close
Pieces == {<<"x">>, <<Blank>>, Open, Close, <<"<">>, Block}

(* Texts of up to three pieces: visible characters, blanks, tags, half      *)
(* tags, blocks; and one whose tag comes together where a block is taken    *)
(* out.                                                                     *)
ShortTexts ==
  {t \in {FlattenSeq(p) : p \in UNION {[1..n -> Pieces] : n \in 1..3}} : Len(t) <= MaxLength}
    \cup {<<"<">> \o Block \o <<"t", ">">>}

Message(role, lines) == [role |-> role, lines |-> lines]
User == Message("user", <<"/think">>)

TwoProfiles ==
  "default" :> [control |-> "/no_think", model |-> "profile", tokens |-> "few"]
    @@ "learning" :> [control |-> "/think", model |-> "profile", tokens |-> "many"]

SomeCalls ==
  [messages : {<<User>>} \cup {<<Message("system", lines), User>> :
                                 lines \in {<<>>, <<"be brief">>, <<"be brief", "/think">>}},
   mode : {NoValue, "learning", "unknown"},
   given : [model : {NoValue, "", "own"}, tokens : {NoValue}]]

=============================================================================
