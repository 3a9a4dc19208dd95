----------------------------- MODULE CheckpointMC -----------------------------
(* Checkpoint for TLC: one metadata file and one weight file.              *)
EXTENDS Checkpoint
===============================================================================
