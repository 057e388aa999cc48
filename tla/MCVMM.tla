------------------------------- MODULE MCVMM -------------------------------
(***************************************************************************)
(* A small machine: four entries per table, two of them for the kernel     *)
(* half, pages of two units.  Virtual pages 3 and 4 have their entries in  *)
(* different page tables; <<7, 2>> starts in the middle of page 3 and ends *)
(* in page 4.                                                              *)
(***************************************************************************)
EXTENDS VMM

CONSTANT a1

MCRequests == {<<6, 2>>, <<7, 2>>, <<8, 1>>}
MCPPages == {100, 101}
=============================================================================
