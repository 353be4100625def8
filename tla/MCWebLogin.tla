----------------------------- MODULE MCWebLogin -----------------------------
(* WebLogin with few names, requests and attempts.                          *)
EXTENDS WebLogin, TLC

Symmetry == Permutations(Attempts) \cup Permutations(Signups)

=============================================================================
