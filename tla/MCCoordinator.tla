---------------------------- MODULE MCCoordinator ----------------------------
(* Small instances of the coordinator for TLC. *)
EXTENDS CoordinatorRefinement, TLC

\* Threads and keys are interchangeable in every safety property.
Symmetry == Permutations(Threads) \cup Permutations(Keys)
=============================================================================
