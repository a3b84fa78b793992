------------------------------- MODULE MCDddf -------------------------------
(* Instances of Dddf for TLC: the home is the first rank. *)
EXTENDS Dddf
=============================================================================
