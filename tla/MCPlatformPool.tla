--------------------------- MODULE MCPlatformPool ---------------------------
(* The instance of PlatformPool for TLC: tasks t1 and m1 (asked for by an  *)
(* administrator), checker c1 and session s1; the bounds are in the cfg.   *)
EXTENDS PlatformPool
CONSTANTS t1, m1, c1, s1
=============================================================================
