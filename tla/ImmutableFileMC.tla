---------------------------- MODULE ImmutableFileMC ---------------------------
(* ImmutableFile for TLC: three processes, two values.                     *)
EXTENDS ImmutableFile
===============================================================================
