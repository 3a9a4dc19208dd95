------------------------------- MODULE WitnessMC -------------------------------
(* Witness for TLC: two components and a window of three steps.            *)
EXTENDS Witness
===============================================================================
