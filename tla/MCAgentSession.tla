--------------------------- MODULE MCAgentSession ---------------------------
(* Small instances of AgentSession for TLC. *)
EXTENDS AgentSession

CONSTANTS p1, p2, s1, b1, a1, k1, c1
=============================================================================
