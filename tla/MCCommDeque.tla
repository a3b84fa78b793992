---------------------------- MODULE MCCommDeque -----------------------------
(* Instances of CommDeque for TLC. *)
EXTENDS CommDeque
=============================================================================
