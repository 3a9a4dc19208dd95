------------------------------- MODULE OffloadMC -------------------------------
(* Offload for TLC: two requests, that may have the same prompt or not, and *)
(* room for one of them in GPU memory and in the host tier.                 *)
EXTENDS Offload

MCAsks == {<<"r1", "p1">>, <<"r2", "p1">>, <<"r2", "p2">>}
===============================================================================
