-------------------------- MODULE MCParallelSession --------------------------
(* Model values for ParallelSession. *)
EXTENDS ParallelSession, TLC
Symmetry == Permutations(Session)
=============================================================================
