------------------------------ MODULE MCSlabSmp ------------------------------
(* Small instances of SlabSmp for TLC. *)
EXTENDS SlabSmp

CONSTANTS c1, c2

TwoCpus == {c1, c2}
Work(a, b) == [c \in TwoCpus |-> IF c = c1 THEN a ELSE b]

\* Calls that never race: one processor does everything, or nobody frees, or
\* nobody allocates.
SeparateWorkloads ==
  {Work({"alloc", "free"}, {}), Work({"alloc"}, {"alloc"}), Work({"free"}, {"free"})}

\* One processor allocates while the other frees.
MixedWorkloads == {Work({"alloc"}, {"free"})}
=============================================================================
