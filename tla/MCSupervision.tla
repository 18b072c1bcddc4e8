---------------------------- MODULE MCSupervision ----------------------------
(* A small instance of Supervision for TLC. *)
EXTENDS Supervision, TLC

\* The children are only told apart by who they are.
Symmetry == Permutations(Procs \ {Leader})
=============================================================================
