---------------------------- MODULE MCAgentConn ----------------------------
(* Model values for checking AgentConn with TLC.  No symmetry: the runs     *)
(* check liveness.                                                          *)
EXTENDS AgentConn

CONSTANTS p1, p2

MCPair == {p1, p2}
=============================================================================
