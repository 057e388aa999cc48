-------------------------- MODULE MCBuddyAllocator --------------------------
(* Small instances of BuddyAllocator for TLC. *)
EXTENDS BuddyAllocator

MCBlockSize == [k \in 0 .. MAX_SUPPORTED_ORDER |-> 2^k * PAGE_FRAME_SIZE]

Use(b, l) == [usable |-> TRUE, base |-> b, length |-> l]
Rsv(b, l) == [usable |-> FALSE, base |-> b, length |-> l]

\* Pages of 2 bytes.  The first map starts at 0, has an arena of two blocks of
\* the maximal order that are buddies, and one with an unaligned base and a
\* tail of less than a page; the second has entries too small for a page and
\* more usable entries than there are arenas.
MCMemMaps == {
  <<Use(0, 6), Rsv(6, 10), Use(16, 16), Rsv(32, 3), Use(35, 6)>>,
  <<Use(2, 4), Use(7, 1), Use(9, 2), Use(12, 8), Use(20, 2), Use(22, 2)>>,
  <<Use(0, 4), Use(4, 14)>> }
=============================================================================
