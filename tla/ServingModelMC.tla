----------------------------- MODULE ServingModelMC -----------------------------
(* ServingModel for TLC; all its constants get their values in the .cfg.    *)
EXTENDS ServingModel
===============================================================================
