---------------------------- MODULE MCAgentSpace ----------------------------
(* Small instances of AgentSpace.                                          *)
EXTENDS AgentSpace, TLC
CONSTANTS c1, c2, c3, c4, t1, t2
=============================================================================
