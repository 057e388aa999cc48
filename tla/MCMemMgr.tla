------------------------------ MODULE MCMemMgr ------------------------------
(***************************************************************************)
(* Pages of two units; a heap of four pages that grows by two; a stack of  *)
(* two pages; one executable whose code ends at a page's end, one whose    *)
(* data is empty.                                                          *)
(***************************************************************************)
EXTENDS MemMgr

MCLayouts == {<<0, 1, 3>>, <<0, 1, 1>>}
=============================================================================
