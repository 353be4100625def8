--------------------------- MODULE MCAgentSession ---------------------------
(* AgentSession on small instances.                                         *)
EXTENDS AgentSession

CONSTANTS r1, r2, r3, translation, learning

(* r1 names its mode, the others are routed or name another one.            *)
OneSupplied == [r \in Requests |-> IF r = r1 THEN translation ELSE NoMode]
AllSupplied == [r \in Requests |-> IF r = r1 THEN translation ELSE learning]

=============================================================================
