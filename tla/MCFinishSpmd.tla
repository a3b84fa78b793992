---------------------------- MODULE MCFinishSpmd ----------------------------
(* Instances of FinishSpmd for TLC. *)
EXTENDS FinishSpmd
=============================================================================
