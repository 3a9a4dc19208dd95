----------------------------- MODULE FluxServiceMC -----------------------------
(* FluxService for TLC.  The bound on the requests is the only one.        *)
EXTENDS FluxService
===============================================================================
