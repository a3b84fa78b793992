------------------------------ MODULE MCDistWS ------------------------------
(* Instances of DistWS for TLC. *)
EXTENDS DistWS, TLC

\* Tasks are interchangeable: no action distinguishes one from another.
TaskSymmetry == Permutations(Task)
=============================================================================
