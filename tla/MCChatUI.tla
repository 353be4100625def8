------------------------------ MODULE MCChatUI ------------------------------
(* ChatUI with two messages: the stream of one has up to two tokens, that   *)
(* of the other none.                                                       *)
EXTENDS ChatUI, TLC

CONSTANTS m1, m2

MCMaxTokens == m1 :> 2 @@ m2 :> 0
=============================================================================
