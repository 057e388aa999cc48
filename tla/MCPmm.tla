-------------------------------- MODULE MCPmm --------------------------------
(* Small instances of Pmm for TLC: four pages of the real size. *)
EXTENDS Pmm, TLC

MCPages == 8 .. 11

\* A small request, the largest request whose end magic ends with its page, the
\* first that needs two pages, and one that is too large.
RegularSizes == {2048, 4072, 4077, 8177}

\* The request sizes for which the four bytes not counted make a difference.
EdgeSizes == {2048, 4073}

\* The objects of a slab are interchangeable.
Symmetry == Permutations(Objects)
=============================================================================
