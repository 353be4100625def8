----------------------------- MODULE MCLLMQueue -----------------------------
(* LLMQueue on small instances.                                             *)
EXTENDS LLMQueue, TLC

CONSTANTS j1, j2, j3

(* Three structured jobs that nobody cancels are interchangeable.           *)
JobSymmetry == Permutations({j1, j2, j3})

=============================================================================
