------------------------------ MODULE SeedCacheMC ------------------------------
(* SeedCache for TLC: two processes with one id and one with another.      *)
EXTENDS SeedCache, TLC

CONSTANTS p1, p2, p3

MCProcs == {p1, p2, p3}
MCPidOf == p1 :> 7 @@ p2 :> 7 @@ p3 :> 8
===============================================================================
