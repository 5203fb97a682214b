----------------------------- MODULE MCMcpPages -----------------------------
(* McpPages for TLC: tabs as model values, generations and ids as numbers. *)
EXTENDS McpPages

CONSTANTS t1, t2

OneConn  == {1}
TwoConns == {1, 2}
OneReq   == {1}
TwoReqs  == {1, 2}
TwoTabs  == {t1, t2}
OneTab   == {t1}
=============================================================================
