---------------------------- MODULE MC_JobQueue ----------------------------
(* Small instances of JobQueue for TLC. *)
EXTENDS JobQueue, TLC
Symmetry == Permutations(Workers) \cup Permutations(Operators)
=============================================================================
