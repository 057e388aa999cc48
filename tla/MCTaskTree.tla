----------------------------- MODULE MCTaskTree -----------------------------
(* A small instance of TaskTree for TLC: three interchangeable tasks. *)
EXTENDS TaskTree, TLC

CONSTANTS k1, k2, k3

MCTasks == {k1, k2, k3}
Symmetry == Permutations(MCTasks)
=============================================================================
