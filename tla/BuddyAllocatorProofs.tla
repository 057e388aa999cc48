------------------------ MODULE BuddyAllocatorProofs ------------------------
(***************************************************************************)
(* Proofs about BuddyAllocator for every page size, maximal order, number  *)
(* of arenas and memory map: blocks never overlap, no page is lost, blocks *)
(* are aligned usable memory, allocation fails only when it must, freeing  *)
(* merges as far as it can, and the whole implements PageAllocator.        *)
(***************************************************************************)
EXTENDS BuddyAllocator, TLAPS

\* Leaves go to Zenon unless they name the SMT solver.
USE ZenonT(30)

-----------------------------------------------------------------------------
(* Arithmetic of the address computations. *)

\* Rounding up to a page (the mask in add_buddy_arena) yields an address that
\* is not below the one rounded.
LEMMA PageAlignUpIsAbove ==
  ASSUME NEW x \in Nat
  PROVE  PageAlignUp(x) \in Nat /\ x <= PageAlignUp(x)
  BY SizeAssumption, SMTT(30) DEF PageAlignUp

\* A multiple of s leaves no remainder, and is a natural number.
LEMMA MultipleMod ==
  ASSUME NEW n \in Nat, NEW s \in Nat \ {0}
  PROVE  n * s \in Nat /\ (n * s) % s = 0
  BY SMTT(30)

\* A number without remainder is the multiple the division says.
LEMMA DivMod ==
  ASSUME NEW a \in Nat, NEW s \in Nat \ {0}, a % s = 0
  PROVE  a \div s \in Nat /\ a = (a \div s) * s
  BY SMTT(30)

\* Flipping the bit of a block's size (the xor in buddy_free_pages) moves the
\* address of an aligned block by that size, and the lower of the two addresses
\* is aligned to twice the size.
LEMMA BuddyOfAligned ==
  ASSUME NEW a \in Nat, NEW k \in Orders, k + 1 \in Orders, a % block_size[k] = 0
  PROVE  /\ BuddyOf(a, k) \in Nat
         /\ \/ /\ BuddyOf(a, k) = a + block_size[k]
               /\ a % block_size[k + 1] = 0
            \/ /\ BuddyOf(a, k) = a - block_size[k]
               /\ BuddyOf(a, k) % block_size[k + 1] = 0
<1> DEFINE s == block_size[k]
           t == block_size[k + 1]
           q == a \div s
<1>1. s \in Nat \ {0} /\ t \in Nat \ {0} /\ t = 2 * s
  BY SizeAssumption
<1>2. q \in Nat /\ a = q * s
  BY <1>1, SMTT(30)
<1>3. BuddyOf(a, k) = IF q % 2 = 0 THEN a + s ELSE a - s
  BY DEF BuddyOf
<1>4. \/ q % 2 = 0 /\ a % t = 0
      \/ q % 2 # 0 /\ a - s \in Nat /\ (a - s) % t = 0
  <2> HIDE DEF s, t, q
  <2>1. CASE q % 2 = 0
    <3>1. PICK h \in Nat : q = 2 * h
      BY <1>2, <2>1, SMTT(30)
    <3>2. a = h * t
      BY <1>1, <1>2, <3>1, SMTT(30)
    <3> QED  BY <1>1, <2>1, <3>2, MultipleMod
  <2>2. CASE q % 2 # 0
    <3>1. PICK h \in Nat : q = 2 * h + 1
      BY <1>2, <2>2, SMTT(30)
    <3>2. a - s = h * t
      BY <1>1, <1>2, <3>1, SMTT(30)
    <3>3. h * t \in Nat /\ (h * t) % t = 0
      BY <1>1, MultipleMod
    <3> QED  BY <2>2, <3>2, <3>3
  <2> QED  BY <2>1, <2>2
<1> QED  BY <1>1, <1>3, <1>4, SMTT(30)

\* Both halves of an aligned block are aligned (the splitting loop of
\* buddy_alloc_pages).
LEMMA HalvesAligned ==
  ASSUME NEW a \in Nat, NEW k \in Orders, k + 1 \in Orders, a % block_size[k + 1] = 0
  PROVE  /\ a % block_size[k] = 0
         /\ (a + block_size[k]) % block_size[k] = 0
<1> DEFINE s == block_size[k]
           t == block_size[k + 1]
           h == a \div t
<1>1. s \in Nat \ {0} /\ t \in Nat \ {0} /\ t = 2 * s
  BY SizeAssumption
<1>2. h \in Nat /\ a = h * t
  BY <1>1, DivMod
<1> HIDE DEF s, t, h
<1>3. a = (2 * h) * s /\ a + s = (2 * h + 1) * s
  BY <1>1, <1>2, SMTT(30)
<1>4. \A n \in Nat : (n * s) % s = 0
  BY <1>1, MultipleMod
<1>5. 2 * h \in Nat /\ 2 * h + 1 \in Nat
  BY <1>2, SMTT(30)
<1>6. a % s = 0 /\ (a + s) % s = 0
  BY <1>3, <1>4, <1>5
<1> QED  BY <1>6 DEF s

-----------------------------------------------------------------------------
(* The inductive invariant. *)

Booting == pc \in {"init", "add", "populate"}
IsSetUp(i) == buddy_arenas[i].length # 0
BeingPopulated(i) == pc = "populate" /\ i = arena

\* Where the boot loop is: once an arena has been counted a usable entry has
\* been passed, so that the next one cannot start at address 0.
BootOK ==
  /\ buddy_arena_counter # 0 =>
       \E e \in DOMAIN memmap : e < entry_idx /\ memmap[e].usable
  /\ pc \in {"add", "populate"} =>
       /\ entry_idx \in DOMAIN memmap
       /\ memmap[entry_idx].usable
       /\ buddy_arena_counter \in 1 .. MAX_BUDDY_ARENAS - 1
  /\ pc = "populate" =>
       /\ arena = buddy_arena_counter
       /\ buddy_arenas[arena].base <= addr
       /\ addr <= ArenaEnd(arena)

\* An arena that has been set up lies in a usable entry of its own.
ArenaInEntry(i, e) ==
  /\ memmap[e].usable
  /\ e < entry_idx \/ (BeingPopulated(i) /\ e = entry_idx)
  /\ memmap[e].base <= buddy_arenas[i].base
  /\ ArenaEnd(i) <= memmap[e].base + memmap[e].length

ArenasOK ==
  \A i \in Arenas : IsSetUp(i) =>
    /\ i < buddy_arena_counter \/ BeingPopulated(i)
    /\ 0 < buddy_arenas[i].base
    /\ \E e \in DOMAIN memmap : ArenaInEntry(i, e)

ArenasDisjoint ==
  \A i, j \in Arenas : i # j /\ IsSetUp(i) /\ IsSetUp(j) =>
    ArenaEnd(i) <= buddy_arenas[j].base \/ ArenaEnd(j) <= buddy_arenas[i].base

BlocksInArena ==
  \A b \in AllBlocks :
    /\ b \in Blocks
    /\ b.order <= buddy_arenas[b.arena].max_arena_order
    /\ buddy_arenas[b.arena].base <= b.addr
    /\ BlockEnd(b) <= ArenaEnd(b.arena)

\* populate_buddy_blocks has produced only blocks below its cursor.
CursorOK ==
  pc = "populate" =>
    \A b \in AllBlocks : b.arena = arena => BlockEnd(b) <= addr

\* The locals of a running buddy_alloc_pages or buddy_free_pages: an arena
\* that the search has left behind has nothing to offer.
LocalsOK ==
  /\ pc = "idle" => arena = 0
  /\ pc \in {"split", "coalesce"} => arena \in Arenas /\ arena < buddy_arena_counter
  /\ pc = "split" => want <= order
  /\ pc = "alloc" =>
       /\ arena <= buddy_arena_counter
       /\ \A b \in free_list : b.arena < arena => b.order < want

IInv ==
  /\ TypeOK
  /\ BootOK
  /\ ArenasOK
  /\ ArenasDisjoint
  /\ BlocksInArena
  /\ CursorOK
  /\ LocalsOK
  /\ OneHome
  /\ PairwiseDisjoint
  /\ BlocksAligned
  /\ NoPageLost

-----------------------------------------------------------------------------
(* Facts shared by the actions. *)

\* buddy_alloc_pages and buddy_free_pages leave the arenas alone.
LEMMA RunKeepsArenas ==
  ASSUME IInv, RunUnchanged, ~Booting, ~Booting'
  PROVE  BootOK' /\ ArenasOK' /\ ArenasDisjoint' /\ CursorOK'
<1> USE DEF RunUnchanged, Booting
<1>1. BootOK'
  BY DEF IInv, BootOK
<1>2. ArenasOK'
  <2> SUFFICES ASSUME NEW i \in Arenas, IsSetUp(i)'
               PROVE  /\ i < buddy_arena_counter'
                      /\ 0 < buddy_arenas'[i].base
                      /\ \E e \in DOMAIN memmap' : ArenaInEntry(i, e)'
    BY DEF ArenasOK
  <2>1. IsSetUp(i) /\ ~BeingPopulated(i) /\ ~BeingPopulated(i)'
    BY DEF IsSetUp, BeingPopulated
  <2>2. /\ i < buddy_arena_counter
        /\ 0 < buddy_arenas[i].base
        /\ \E e \in DOMAIN memmap : ArenaInEntry(i, e)
    BY <2>1 DEF IInv, ArenasOK
  <2> QED  BY <2>1, <2>2 DEF ArenaInEntry, ArenaEnd
<1>3. ArenasDisjoint'
  BY DEF IInv, ArenasDisjoint, IsSetUp, ArenaEnd
<1>4. CursorOK'
  BY DEF CursorOK
<1> QED  BY <1>1, <1>2, <1>3, <1>4

\* A block that only changes hands leaves the facts about blocks as they are.
LEMMA SameBlocks ==
  ASSUME IInv, UNCHANGED buddy_arenas, AllBlocks' = AllBlocks,
         pc # "populate", pc' # "populate"
  PROVE  BlocksInArena' /\ PairwiseDisjoint' /\ BlocksAligned' /\ NoPageLost'
<1>1. BlocksInArena' /\ PairwiseDisjoint' /\ BlocksAligned'
  BY DEF IInv, BlocksInArena, PairwiseDisjoint, BlocksAligned, DisjointBlocks, BlockEnd, ArenaEnd
<1>2. NoPageLost'
  BY DEF IInv, NoPageLost, ArenaEnd, BlockEnd
<1> QED  BY <1>1, <1>2

\* A block's end is above its start, and its fields have their types.
LEMMA BlockFacts ==
  ASSUME NEW b \in Blocks
  PROVE  /\ b.arena \in Arenas /\ b.order \in Orders /\ b.addr \in Nat
         /\ block_size[b.order] \in Nat \ {0}
         /\ BlockEnd(b) \in Nat /\ b.addr < BlockEnd(b)
  BY SizeAssumption, SMTT(30) DEF Blocks, BlockEnd

LEMMA BlockType ==
  ASSUME NEW i \in Arenas, NEW k \in Orders, NEW a \in Nat
  PROVE  /\ Block(i, k, a) \in Blocks
         /\ Block(i, k, a).arena = i
         /\ Block(i, k, a).order = k
         /\ Block(i, k, a).addr = a
  BY DEF Block, Blocks

\* While an allocated block exists outside boot, its address leads
\* buddy_free_pages back to the arena it came from, and to no other.
LEMMA FreeFindsTheArena ==
  ASSUME IInv, ~Booting, NEW b \in AllBlocks
  PROVE  ArenasOf(b.addr) = {b.arena}
<1>1. b \in Blocks /\ buddy_arenas[b.arena].base <= b.addr /\ BlockEnd(b) <= ArenaEnd(b.arena)
  BY DEF IInv, BlocksInArena
<1>2. b.arena \in Arenas /\ b.addr \in Nat /\ b.addr < BlockEnd(b) /\ BlockEnd(b) \in Nat
  BY <1>1, BlockFacts
<1>3. \A i \in Arenas : /\ buddy_arenas[i].base \in Nat
                        /\ buddy_arenas[i].length \in Nat
                        /\ ArenaEnd(i) = buddy_arenas[i].base + buddy_arenas[i].length
  BY DEF IInv, TypeOK, ArenaEnd
<1>4. b.addr < ArenaEnd(b.arena) /\ IsSetUp(b.arena)
  BY <1>1, <1>2, <1>3, SMTT(30) DEF IsSetUp
<1>5. b.arena < buddy_arena_counter
  BY <1>2, <1>4 DEF IInv, ArenasOK, Booting, BeingPopulated
<1>6. b.arena \in ArenasOf(b.addr)
  BY <1>1, <1>2, <1>4, <1>5, SMTT(30) DEF ArenasOf, Arenas, IInv, TypeOK
<1>7. ASSUME NEW i \in ArenasOf(b.addr)
      PROVE  i = b.arena
  <2>1. i \in Arenas /\ buddy_arenas[i].base <= b.addr /\ b.addr < ArenaEnd(i)
    BY SizeAssumption, SMTT(30) DEF ArenasOf, Arenas, IInv, TypeOK
  <2>2. IsSetUp(i)
    BY <1>2, <1>3, <2>1, SMTT(30) DEF IsSetUp
  <2> QED  BY <1>1, <1>2, <1>3, <1>4, <2>1, <2>2, SMTT(30) DEF IInv, ArenasDisjoint
<1> QED  BY <1>6, <1>7

-----------------------------------------------------------------------------
(* Each action preserves the invariant. *)

LEMMA InitIInv == Init => IInv
<1> SUFFICES ASSUME Init PROVE IInv
  OBVIOUS
<1> USE DEF Init
<1>0. 0 \in Orders /\ AllBlocks = {}
  BY SizeAssumption, SMTT(30) DEF Orders, AllBlocks, InFlight
<1>1. TypeOK
  BY <1>0, SizeAssumption, SMTT(30) DEF TypeOK
<1>2. BootOK /\ LocalsOK /\ CursorOK
  BY DEF BootOK, LocalsOK, CursorOK
<1>3. ArenasOK /\ ArenasDisjoint
  BY DEF ArenasOK, ArenasDisjoint, IsSetUp
<1>4. OneHome /\ BlocksInArena /\ PairwiseDisjoint /\ BlocksAligned
  BY <1>0 DEF OneHome, InFlight, BlocksInArena, PairwiseDisjoint, BlocksAligned
<1>5. NoPageLost
  BY SizeAssumption, SMTT(30) DEF NoPageLost, ArenaEnd
<1> QED  BY <1>1, <1>2, <1>3, <1>4, <1>5 DEF IInv

LEMMA AllocCallIInv ==
  ASSUME IInv, NEW k \in 0 .. MAX_SUPPORTED_ORDER + 1, AllocCall(k)
  PROVE  IInv'
<1> USE DEF AllocCall
<1>1. TypeOK'
  BY SizeAssumption, SMTT(30) DEF IInv, TypeOK, RunUnchanged, Orders
<1>2. ~Booting /\ ~Booting' /\ AllBlocks' = AllBlocks
  BY DEF Booting, AllBlocks, InFlight
<1>3. LocalsOK'
  BY <1>1, <1>2, SMTT(30) DEF IInv, TypeOK, LocalsOK, RunUnchanged, Blocks, Arenas, Booting
<1>9. OneHome'
  BY DEF IInv, OneHome, InFlight, AllocCall
<1> QED
  BY <1>9, <1>1, <1>2, <1>3, RunKeepsArenas, SameBlocks DEF IInv, RunUnchanged, Booting

LEMMA AllocTakeIInv ==
  ASSUME IInv, AllocTake
  PROVE  IInv'
<1>1. PICK b \in FreeAt(arena, want) : free_list' = free_list \ {b} /\ HandOut(b)
  BY DEF AllocTake
<1>2. TypeOK'
  BY <1>1, SizeAssumption, SMTT(30) DEF AllocTake, FreeAt, HandOut, Return, IInv, TypeOK, RunUnchanged, Orders
<1>3. ~Booting /\ ~Booting' /\ AllBlocks' = AllBlocks
  BY <1>1 DEF AllocTake, FreeAt, HandOut, Return, Booting, AllBlocks, InFlight
<1>4. LocalsOK'
  BY <1>1 DEF LocalsOK, HandOut, Return
<1>9. OneHome'
  BY <1>1 DEF IInv, OneHome, InFlight, AllocTake, HandOut, Return, FreeAt
<1> QED
  BY <1>9, <1>2, <1>3, <1>4, RunKeepsArenas, SameBlocks DEF AllocTake, IInv, RunUnchanged, Booting

LEMMA AllocUnlinkLargerIInv ==
  ASSUME IInv, AllocUnlinkLarger
  PROVE  IInv'
<1>0. PICK j \in Splittable :
        /\ \E b \in FreeAt(arena, j) : free_list' = free_list \ {b} /\ addr' = b.addr
        /\ order' = j
  BY DEF AllocUnlinkLarger
<1>1. PICK b \in FreeAt(arena, j) : free_list' = free_list \ {b} /\ addr' = b.addr
  BY <1>0
<1>2. b \in free_list /\ b \in Blocks /\ b = Block(arena, j, addr') /\ arena \in Arenas
      /\ j \in Orders /\ addr' \in Nat /\ j > want
  BY <1>1, SMTT(30) DEF FreeAt, Splittable, IInv, TypeOK, Blocks, Block, Orders
<1>3. TypeOK'
  BY <1>0, <1>1, <1>2 DEF AllocUnlinkLarger, IInv, TypeOK, RunUnchanged
<1>4. ~Booting /\ ~Booting' /\ AllBlocks' = AllBlocks
  BY <1>0, <1>1, <1>2 DEF AllocUnlinkLarger, Booting, AllBlocks, InFlight
<1>5. LocalsOK'
  BY <1>0, <1>1, <1>2, <1>3, SMTT(30) DEF AllocUnlinkLarger, LocalsOK, RunUnchanged, TypeOK, Orders
<1>9. OneHome'
  BY <1>1, <1>2, <1>0, SMTT(30) DEF IInv, OneHome, InFlight, AllocUnlinkLarger
<1> QED
  BY <1>9, <1>3, <1>4, <1>5, RunKeepsArenas, SameBlocks DEF AllocUnlinkLarger, IInv, RunUnchanged, Booting

LEMMA AllocNextArenaIInv ==
  ASSUME IInv, AllocNextArena
  PROVE  IInv'
<1> USE DEF AllocNextArena
<1>1. TypeOK'
  BY SMTT(30) DEF IInv, TypeOK, RunUnchanged
<1>2. ~Booting /\ ~Booting' /\ AllBlocks' = AllBlocks
  BY DEF Booting, AllBlocks, InFlight
<1>3. ASSUME NEW b \in free_list, b.arena < arena + 1
      PROVE  b.order < want
  <2>1. b \in Blocks /\ b.order <= buddy_arenas[b.arena].max_arena_order
    BY DEF IInv, BlocksInArena, AllBlocks
  <2>2. b.arena \in Nat /\ b.order \in Nat /\ arena \in Nat /\ want \in Nat
        /\ (b.arena \in Arenas)
    BY <2>1, SMTT(30) DEF IInv, TypeOK, Blocks, Arenas, Orders
  <2>3. CASE b.arena < arena
    BY <2>3 DEF IInv, LocalsOK
  <2>4. CASE b.arena = arena
    <3>1. b.order # want
      BY <2>4 DEF FreeAt
    <3>2. b.order \notin Splittable
      OBVIOUS
    <3>3. b \in FreeAt(arena, b.order)
      BY <2>4 DEF FreeAt
    <3>4. buddy_arenas[arena].max_arena_order \in Nat
      BY <2>2, <2>4, SMTT(30) DEF IInv, TypeOK, Orders
    <3> QED  BY <2>1, <2>2, <2>4, <3>1, <3>2, <3>3, <3>4, SMTT(30) DEF Splittable
  <2> QED  BY <1>3, <2>2, <2>3, <2>4, SMTT(30)
<1>4. LocalsOK'
  BY <1>3, SMTT(30) DEF IInv, LocalsOK, TypeOK, RunUnchanged
<1>9. OneHome'
  BY DEF IInv, OneHome, InFlight, AllocNextArena
<1> QED
  BY <1>9, <1>1, <1>2, <1>4, RunKeepsArenas, SameBlocks DEF IInv, RunUnchanged, Booting

LEMMA AllocFailIInv ==
  ASSUME IInv, AllocFail
  PROVE  IInv'
<1> USE DEF AllocFail, Return
<1>1. TypeOK'
  BY SizeAssumption, SMTT(30) DEF IInv, TypeOK, RunUnchanged, Orders
<1>2. ~Booting /\ ~Booting' /\ AllBlocks' = AllBlocks
  BY DEF Booting, AllBlocks, InFlight
<1>3. LocalsOK'
  BY DEF LocalsOK
<1>9. OneHome'
  BY DEF IInv, OneHome, InFlight, AllocFail, Return
<1> QED
  BY <1>9, <1>1, <1>2, <1>3, RunKeepsArenas, SameBlocks DEF IInv, RunUnchanged, Booting

LEMMA SplitStepIInv ==
  ASSUME IInv, SplitStep
  PROVE  IInv'
<1> DEFINE c == Block(arena, order, addr)
           l == Block(arena, order - 1, addr)
           h == addr + block_size[order - 1]
           r == Block(arena, order - 1, h)
<1>0. /\ pc = "split" /\ pc' = "split" /\ order > want /\ order' = order - 1
      /\ arena' = arena /\ addr' = addr /\ want' = want /\ allocated' = allocated
      /\ free_list' = free_list \cup {r}
      /\ RunUnchanged
  BY DEF SplitStep
<1>1. /\ order \in Orders /\ order - 1 \in Orders /\ (order - 1) + 1 = order
      /\ arena \in Arenas /\ addr \in Nat
  BY <1>0, SizeAssumption, SMTT(30) DEF IInv, TypeOK, Orders, LocalsOK
<1>2. /\ block_size[order - 1] \in Nat \ {0}
      /\ block_size[order] = 2 * block_size[order - 1]
      /\ h \in Nat
  BY <1>1, SizeAssumption, SMTT(30)
<1>3. /\ c \in Blocks /\ c.arena = arena /\ c.order = order /\ c.addr = addr
      /\ l \in Blocks /\ l.arena = arena /\ l.order = order - 1 /\ l.addr = addr
      /\ r \in Blocks /\ r.arena = arena /\ r.order = order - 1 /\ r.addr = h
  BY <1>1, <1>2, BlockType, SMTT(30)
<1>4. BlockEnd(c) = addr + 2 * block_size[order - 1] /\ BlockEnd(l) = h
      /\ BlockEnd(r) = BlockEnd(c)
  BY <1>1, <1>2, <1>3, SMTT(30) DEF BlockEnd
<1>5. c \in AllBlocks /\ \A b \in AllBlocks' : b \in AllBlocks \/ b = l \/ b = r
  BY <1>0 DEF AllBlocks, InFlight
<1>6. \A b \in AllBlocks : b # c => b \in AllBlocks'
  BY <1>0 DEF AllBlocks, InFlight
<1>7. l \in AllBlocks' /\ r \in AllBlocks'
  BY <1>0 DEF AllBlocks, InFlight
<1>8. c \notin free_list /\ c \notin allocated /\ c # l /\ c # r
      /\ (\A b \in AllBlocks' : (b \in AllBlocks /\ b # c) \/ b = l \/ b = r)
  <2>1. c \notin free_list /\ c \notin allocated
    BY <1>0 DEF IInv, OneHome, InFlight
  <2>2. c # l /\ c # r
    <3> HIDE DEF c, l, r, h
    <3> QED  BY <1>1, <1>3, SMTT(30) DEF Orders
  <2> QED  BY <1>0, <2>1, <2>2 DEF AllBlocks, InFlight
<1>9. /\ buddy_arenas[arena].base \in Nat /\ ArenaEnd(arena) \in Nat
      /\ buddy_arenas[arena].max_arena_order \in Nat
      /\ order <= buddy_arenas[arena].max_arena_order
      /\ buddy_arenas[arena].base <= addr /\ BlockEnd(c) <= ArenaEnd(arena)
  BY <1>1, <1>3, <1>5, SMTT(30) DEF IInv, TypeOK, BlocksInArena, ArenaEnd, Orders
<1>10. \A b \in AllBlocks : b # c => DisjointBlocks(b, c)
  BY <1>5 DEF IInv, PairwiseDisjoint
<1> HIDE DEF c, l, r, h
<1>11. \A b \in AllBlocks : b # c => DisjointBlocks(b, l) /\ DisjointBlocks(b, r)
  <2> TAKE b \in AllBlocks
  <2> HAVE b # c
  <2>1. DisjointBlocks(b, c) /\ b \in Blocks
    BY <1>10 DEF IInv, BlocksInArena
  <2>2. BlockEnd(b) \in Nat /\ b.addr \in Nat
    BY <2>1, BlockFacts
  <2> QED  BY <1>1, <1>2, <1>3, <1>4, <2>1, <2>2, SMTT(30) DEF DisjointBlocks, h
<1>12. TypeOK'
  BY <1>0, <1>1, <1>3 DEF IInv, TypeOK, RunUnchanged
<1>13. LocalsOK'
  BY <1>0, <1>1, SMTT(30) DEF IInv, TypeOK, LocalsOK, RunUnchanged, Orders
<1>14. OneHome'
  <2>1. l # r
    BY <1>1, <1>2, <1>3, SMTT(30) DEF h
  <2>2. r \notin allocated /\ l \notin free_list /\ l \notin allocated
    <3>1. r \in AllBlocks => r = c \/ DisjointBlocks(r, r)
      BY <1>11
    <3>2. l \in AllBlocks => l = c \/ DisjointBlocks(l, l)
      BY <1>11
    <3>3. ~DisjointBlocks(r, r) /\ ~DisjointBlocks(l, l)
      BY <1>3, BlockFacts, SMTT(30) DEF DisjointBlocks
    <3> QED  BY <1>8, <3>1, <3>2, <3>3 DEF AllBlocks
  <2> QED  BY <1>0, <2>1, <2>2 DEF IInv, OneHome, InFlight, l
<1>15. BlocksInArena'
  <2> SUFFICES ASSUME NEW b \in AllBlocks'
               PROVE  /\ b \in Blocks
                      /\ b.order <= buddy_arenas'[b.arena].max_arena_order
                      /\ buddy_arenas'[b.arena].base <= b.addr
                      /\ BlockEnd(b) <= ArenaEnd(b.arena)'
    BY DEF BlocksInArena, BlockEnd
  <2>1. CASE b \in AllBlocks
    BY <1>0, <2>1 DEF IInv, BlocksInArena, RunUnchanged, ArenaEnd
  <2>2. CASE b = l \/ b = r
    BY <1>0, <1>1, <1>2, <1>3, <1>4, <1>9, <2>2, SMTT(30) DEF RunUnchanged, ArenaEnd, h, Orders
  <2> QED  BY <1>8, <2>1, <2>2
<1>16. PairwiseDisjoint'
  <2>1. DisjointBlocks(l, r) /\ DisjointBlocks(r, l)
    BY <1>2, <1>3, <1>4, SMTT(30) DEF DisjointBlocks
  <2>2. \A b, d \in AllBlocks' : b # d => DisjointBlocks(b, d)
    <3> TAKE b \in AllBlocks', d \in AllBlocks'
    <3> HAVE b # d
    <3>1. \/ (b \in AllBlocks /\ b # c) \/ b = l \/ b = r
      BY <1>8
    <3>2. \/ (d \in AllBlocks /\ d # c) \/ d = l \/ d = r
      BY <1>8
    <3>3. CASE b \in AllBlocks /\ b # c /\ d \in AllBlocks /\ d # c
      BY <3>3 DEF IInv, PairwiseDisjoint
    <3>4. CASE b \in AllBlocks /\ b # c /\ (d = l \/ d = r)
      BY <1>11, <3>4
    <3>5. CASE d \in AllBlocks /\ d # c /\ (b = l \/ b = r)
      BY <1>11, <3>5 DEF DisjointBlocks
    <3>6. CASE (d = l \/ d = r) /\ (b = l \/ b = r)
      BY <2>1, <3>6
    <3> QED  BY <3>1, <3>2, <3>3, <3>4, <3>5, <3>6
  <2> QED  BY <2>2 DEF PairwiseDisjoint, DisjointBlocks, BlockEnd
<1>17. BlocksAligned'
  <2>1. addr % block_size[order] = 0
    BY <1>3, <1>5 DEF IInv, BlocksAligned
  <2>2. l.addr % block_size[l.order] = 0 /\ r.addr % block_size[r.order] = 0
    BY <1>1, <1>3, <2>1, HalvesAligned, SMTT(30) DEF h
  <2> QED  BY <1>8, <2>2 DEF IInv, BlocksAligned
<1>18. NoPageLost'
  <2> SUFFICES ASSUME NEW i \in Arenas,
                      NEW p \in buddy_arenas[i].base .. ArenaEnd(i) - PAGE_FRAME_SIZE
               PROVE  \E b \in AllBlocks' : b.arena = i /\ b.addr <= p /\ p < BlockEnd(b)
    BY <1>0 DEF NoPageLost, RunUnchanged, ArenaEnd, BlockEnd
  <2>1. PICK b \in AllBlocks : b.arena = i /\ b.addr <= p /\ p < BlockEnd(b)
    BY <1>0 DEF IInv, NoPageLost
  <2>2. CASE b # c
    BY <1>6, <2>1, <2>2
  <2>3. CASE b = c
    <3>1. p \in Int /\ h \in Nat
      BY <1>2, SizeAssumption, SMTT(30) DEF IInv, TypeOK, ArenaEnd
    <3>2. CASE p < h
      BY <1>3, <1>4, <1>7, <2>1, <2>3, <3>2
    <3>3. CASE h <= p
      BY <1>3, <1>4, <1>7, <2>1, <2>3, <3>3
    <3> QED  BY <3>1, <3>2, <3>3, SMTT(30)
  <2> QED  BY <2>2, <2>3
<1>19. BootOK' /\ ArenasOK' /\ ArenasDisjoint' /\ CursorOK'
  BY <1>0, RunKeepsArenas DEF Booting
<1> QED
  BY <1>12, <1>13, <1>14, <1>15, <1>16, <1>17, <1>18, <1>19 DEF IInv

LEMMA AllocReturnIInv ==
  ASSUME IInv, AllocReturn
  PROVE  IInv'
<1> DEFINE c == Block(arena, order, addr)
<1>0. /\ pc = "split" /\ pc' = "idle" /\ RunUnchanged /\ free_list' = free_list
      /\ allocated' = allocated \cup {c}
      /\ arena' = 0 /\ addr' = 0 /\ order' = 0 /\ want' = 0
  BY DEF AllocReturn, HandOut, Return
<1>1. c \in Blocks
  BY <1>0, BlockType DEF IInv, TypeOK, LocalsOK
<1>2. TypeOK'
  BY <1>0, <1>1, SizeAssumption, SMTT(30) DEF IInv, TypeOK, RunUnchanged, Orders
<1>3. AllBlocks' = AllBlocks
  BY <1>0 DEF AllBlocks, InFlight
<1>4. LocalsOK'
  BY <1>0 DEF LocalsOK
<1>5. OneHome'
  BY <1>0 DEF IInv, OneHome, InFlight
<1>6. BootOK' /\ ArenasOK' /\ ArenasDisjoint' /\ CursorOK'
  BY <1>0, RunKeepsArenas DEF Booting
<1>7. BlocksInArena' /\ PairwiseDisjoint' /\ BlocksAligned' /\ NoPageLost'
  BY <1>0, <1>3, SameBlocks DEF RunUnchanged
<1> QED  BY <1>2, <1>4, <1>5, <1>6, <1>7 DEF IInv

LEMMA FreeCallIInv ==
  ASSUME IInv, NEW b \in allocated, FreeCall(b)
  PROVE  IInv'
<1>1. b \in AllBlocks /\ b \in Blocks /\ pc = "idle"
  BY DEF FreeCall, AllBlocks, IInv, TypeOK
<1>2. ArenasOf(b.addr) = {b.arena}
  BY <1>1, FreeFindsTheArena DEF Booting
<1>3. /\ pc' = "coalesce" /\ RunUnchanged /\ free_list' = free_list
      /\ allocated' = allocated \ {b} /\ want' = want
      /\ arena' = b.arena /\ addr' = b.addr /\ order' = b.order
  BY <1>2 DEF FreeCall
<1>4. b = Block(arena', order', addr') /\ b.arena \in Arenas /\ b.order \in Orders /\ b.addr \in Nat
  BY <1>1, <1>3 DEF Block, Blocks
<1>5. TypeOK'
  BY <1>3, <1>4, SizeAssumption, SMTT(30) DEF IInv, TypeOK, RunUnchanged, Arenas
<1>6. AllBlocks' = AllBlocks
  BY <1>1, <1>3, <1>4 DEF AllBlocks, InFlight
<1>7. LocalsOK'
  <2>1. b.arena < buddy_arena_counter
    <3>1. b.arena \in ArenasOf(b.addr)
      BY <1>2
    <3>2. b.arena \in 0 .. buddy_arena_counter - 1 /\ buddy_arena_counter \in Int
      BY <3>1, SizeAssumption, SMTT(30) DEF ArenasOf, IInv, TypeOK
    <3> QED  BY <3>2, SMTT(30)
  <2> QED  BY <1>3, <1>4, <2>1 DEF LocalsOK, RunUnchanged
<1>8. OneHome'
  BY <1>1, <1>3, <1>4 DEF IInv, OneHome, InFlight
<1>9. BootOK' /\ ArenasOK' /\ ArenasDisjoint' /\ CursorOK'
  BY <1>1, <1>3, RunKeepsArenas DEF Booting
<1>10. BlocksInArena' /\ PairwiseDisjoint' /\ BlocksAligned' /\ NoPageLost'
  BY <1>1, <1>3, <1>6, SameBlocks DEF RunUnchanged
<1> QED  BY <1>5, <1>7, <1>8, <1>9, <1>10 DEF IInv

LEMMA FreeLinkIInv ==
  ASSUME IInv, FreeLink
  PROVE  IInv'
<1> DEFINE c == Block(arena, order, addr)
<1>0. /\ pc = "coalesce" /\ pc' = "idle" /\ RunUnchanged /\ free_list' = free_list \cup {c}
      /\ allocated' = allocated
      /\ arena' = 0 /\ addr' = 0 /\ order' = 0 /\ want' = 0
  BY DEF FreeLink, Return
<1>1. c \in Blocks
  BY <1>0, BlockType DEF IInv, TypeOK, LocalsOK
<1>2. TypeOK'
  BY <1>0, <1>1, SizeAssumption, SMTT(30) DEF IInv, TypeOK, RunUnchanged, Orders
<1>3. AllBlocks' = AllBlocks
  BY <1>0 DEF AllBlocks, InFlight
<1>4. LocalsOK'
  BY <1>0 DEF LocalsOK
<1>5. OneHome'
  BY <1>0 DEF IInv, OneHome, InFlight
<1>6. BootOK' /\ ArenasOK' /\ ArenasDisjoint' /\ CursorOK'
  BY <1>0, RunKeepsArenas DEF Booting
<1>7. BlocksInArena' /\ PairwiseDisjoint' /\ BlocksAligned' /\ NoPageLost'
  BY <1>0, <1>3, SameBlocks DEF RunUnchanged
<1> QED  BY <1>2, <1>4, <1>5, <1>6, <1>7 DEF IInv

LEMMA CoalesceStepIInv ==
  ASSUME IInv, CoalesceStep
  PROVE  IInv'
<1> DEFINE x == BuddyOf(addr, order)
           lo == IF x < addr THEN x ELSE addr
           c == Block(arena, order, addr)
           d == Block(arena, order, x)
           m == Block(arena, order + 1, lo)
<1>0. /\ pc = "coalesce" /\ pc' = "coalesce" /\ RunUnchanged /\ allocated' = allocated
      /\ arena' = arena /\ want' = want /\ order' = order + 1 /\ addr' = lo
      /\ order < buddy_arenas[arena].max_arena_order
      /\ d \in free_list /\ free_list' = free_list \ {d}
  BY DEF CoalesceStep, CanMerge
<1>1. /\ order \in Orders /\ order + 1 \in Orders /\ arena \in Arenas /\ addr \in Nat
      /\ buddy_arenas[arena].base \in Nat /\ ArenaEnd(arena) \in Nat
      /\ buddy_arenas[arena].max_arena_order \in Nat
  <2>1. order \in Orders /\ addr \in Nat /\ arena \in Arenas
    BY <1>0 DEF IInv, TypeOK, LocalsOK
  <2>2. buddy_arenas[arena] \in [base : Nat, length : Nat, max_arena_order : Orders]
    BY <2>1 DEF IInv, TypeOK
  <2>3. order + 1 \in Orders /\ buddy_arenas[arena].max_arena_order \in Nat
    <3>1. buddy_arenas[arena].max_arena_order \in Orders
      BY <2>2
    <3>2. order < buddy_arenas[arena].max_arena_order
      BY <1>0
    <3>3. MAX_SUPPORTED_ORDER \in Nat
      BY SizeAssumption
    <3> QED  BY <2>1, <3>1, <3>2, <3>3, SMTT(30) DEF Orders
  <2>4. buddy_arenas[arena].base \in Nat /\ ArenaEnd(arena) \in Nat
    BY <2>2, SMTT(30) DEF ArenaEnd
  <2> QED  BY <2>1, <2>3, <2>4
<1>2. c \in AllBlocks /\ c.order = order /\ c.addr = addr /\ c.arena = arena /\ c \in Blocks
  BY <1>0, <1>1, BlockType, SMTT(30) DEF AllBlocks, InFlight
<1>3. addr % block_size[order] = 0
  BY <1>2 DEF IInv, BlocksAligned
<1>4. /\ x \in Nat
      /\ \/ x = addr + block_size[order] /\ addr % block_size[order + 1] = 0
         \/ x = addr - block_size[order] /\ x % block_size[order + 1] = 0
  BY <1>1, <1>3, BuddyOfAligned
<1>5. /\ block_size[order] \in Nat \ {0} /\ block_size[order + 1] = 2 * block_size[order]
  BY <1>1, SizeAssumption
<1>6. d \in AllBlocks /\ d.order = order /\ d.addr = x /\ d.arena = arena /\ d \in Blocks
  BY <1>0, <1>1, <1>4, BlockType, SMTT(30) DEF AllBlocks
<1> HIDE DEF x
<1>7. lo \in Nat /\ lo % block_size[order + 1] = 0
      /\ \/ x = addr + block_size[order] /\ lo = addr
         \/ x = addr - block_size[order] /\ lo = x
  BY <1>1, <1>4, <1>5, SMTT(30)
<1> HIDE DEF lo
<1>8. m \in Blocks /\ m.arena = arena /\ m.order = order + 1 /\ m.addr = lo
  BY <1>1, <1>7, BlockType, SMTT(30)
<1>9. /\ c \notin free_list /\ c \notin allocated /\ d \notin allocated
      /\ c # d
  <2>1. c \notin free_list /\ c \notin allocated /\ d \notin allocated
    BY <1>0 DEF IInv, OneHome, InFlight
  <2> QED  BY <1>0, <2>1
<1>10. /\ \A b \in AllBlocks' : (b \in AllBlocks /\ b # c /\ b # d) \/ b = m
       /\ \A b \in AllBlocks : b \in AllBlocks' \/ b = c \/ b = d
       /\ m \in AllBlocks'
  BY <1>0, <1>9 DEF AllBlocks, InFlight
<1> HIDE DEF c, d, m
<1>11. /\ BlockEnd(c) = addr + block_size[order] /\ BlockEnd(d) = x + block_size[order]
       /\ BlockEnd(m) = lo + 2 * block_size[order]
  BY <1>2, <1>5, <1>6, <1>8 DEF BlockEnd
<1>12. \A b \in AllBlocks : b # c /\ b # d => DisjointBlocks(b, m)
  <2> TAKE b \in AllBlocks
  <2> HAVE b # c /\ b # d
  <2>1. DisjointBlocks(b, c) /\ DisjointBlocks(b, d) /\ b \in Blocks
    BY <1>2, <1>6 DEF IInv, PairwiseDisjoint, BlocksInArena
  <2>2. BlockEnd(b) \in Nat /\ b.addr \in Nat /\ b.addr < BlockEnd(b)
    BY <2>1, BlockFacts
  <2> QED  BY <1>1, <1>2, <1>4, <1>5, <1>6, <1>7, <1>8, <1>11, <2>1, <2>2, SMTT(30) DEF DisjointBlocks
<1>13. TypeOK'
  BY <1>0, <1>1, <1>7 DEF IInv, TypeOK, RunUnchanged
<1>14. LocalsOK'
  BY <1>0, <1>1 DEF IInv, LocalsOK, RunUnchanged
<1>15. OneHome'
  <2>1. m # c /\ m # d
    BY <1>1, <1>2, <1>6, <1>8, SMTT(30) DEF Orders
  <2>2. ~DisjointBlocks(m, m)
    BY <1>8, BlockFacts, SMTT(30) DEF DisjointBlocks
  <2>3. m \notin free_list /\ m \notin allocated
    BY <1>12, <2>1, <2>2 DEF AllBlocks
  <2> QED  BY <1>0, <2>3 DEF IInv, OneHome, InFlight, m
<1>16. BlocksInArena'
  <2> SUFFICES ASSUME NEW b \in AllBlocks'
               PROVE  /\ b \in Blocks
                      /\ b.order <= buddy_arenas'[b.arena].max_arena_order
                      /\ buddy_arenas'[b.arena].base <= b.addr
                      /\ BlockEnd(b) <= ArenaEnd(b.arena)'
    BY DEF BlocksInArena, BlockEnd
  <2>1. CASE b \in AllBlocks
    BY <1>0, <2>1 DEF IInv, BlocksInArena, RunUnchanged, ArenaEnd
  <2>2. CASE b = m
    <3>1. /\ buddy_arenas[arena].base <= addr /\ BlockEnd(c) <= ArenaEnd(arena)
          /\ buddy_arenas[arena].base <= x /\ BlockEnd(d) <= ArenaEnd(arena)
      BY <1>2, <1>6 DEF IInv, BlocksInArena
    <3>2. buddy_arenas'[arena] = buddy_arenas[arena] /\ ArenaEnd(arena)' = ArenaEnd(arena)
      BY <1>0 DEF RunUnchanged, ArenaEnd
    <3> QED
      BY <1>0, <1>1, <1>4, <1>5, <1>7, <1>8, <1>11, <2>2, <3>1, <3>2, SMTT(30) DEF Orders
  <2> QED  BY <1>10, <2>1, <2>2
<1>17. PairwiseDisjoint'
  <2>1. \A b, e \in AllBlocks' : b # e => DisjointBlocks(b, e)
    BY <1>10, <1>12 DEF IInv, PairwiseDisjoint, DisjointBlocks
  <2> QED  BY <2>1 DEF PairwiseDisjoint, DisjointBlocks, BlockEnd
<1>18. BlocksAligned'
  BY <1>7, <1>8, <1>10 DEF IInv, BlocksAligned
<1>19. NoPageLost'
  <2> SUFFICES ASSUME NEW i \in Arenas,
                      NEW p \in buddy_arenas[i].base .. ArenaEnd(i) - PAGE_FRAME_SIZE
               PROVE  \E b \in AllBlocks' : b.arena = i /\ b.addr <= p /\ p < BlockEnd(b)
    BY <1>0 DEF NoPageLost, RunUnchanged, ArenaEnd, BlockEnd
  <2>1. PICK b \in AllBlocks : b.arena = i /\ b.addr <= p /\ p < BlockEnd(b)
    BY <1>0 DEF IInv, NoPageLost
  <2>2. CASE b \in AllBlocks'
    BY <2>1, <2>2
  <2>3. CASE b = c \/ b = d
    <3>1. p \in Int
      BY SizeAssumption, SMTT(30) DEF IInv, TypeOK, ArenaEnd
    <3>2. m.arena = i /\ m.addr <= p /\ p < BlockEnd(m)
      BY <1>1, <1>2, <1>4, <1>5, <1>6, <1>7, <1>8, <1>11, <2>1, <2>3, <3>1, SMTT(30)
    <3> QED  BY <1>10, <3>2
  <2> QED  BY <1>10, <2>2, <2>3
<1>20. BootOK' /\ ArenasOK' /\ ArenasDisjoint' /\ CursorOK'
  BY <1>0, RunKeepsArenas DEF Booting
<1> QED
  BY <1>13, <1>14, <1>15, <1>16, <1>17, <1>18, <1>19, <1>20 DEF IInv

\* The memory map is a sequence of well-formed entries.
LEMMA MemMapFacts ==
  ASSUME IInv
  PROVE  /\ DOMAIN memmap = 1 .. Len(memmap) /\ Len(memmap) \in Nat
         /\ \A e \in DOMAIN memmap : memmap[e].base \in Nat /\ memmap[e].length \in Nat \ {0}
         /\ \A e, f \in DOMAIN memmap :
              e < f /\ memmap[e].usable => memmap[e].base + memmap[e].length <= memmap[f].base
<1>1. memmap \in MemMaps
  BY DEF IInv, TypeOK
<1>2. memmap \in Seq(Entries)
  BY <1>1, MemMapAssumption
<1>3. \A e \in DOMAIN memmap : memmap[e] \in Entries
  BY <1>2, SMTT(30)
<1> QED  BY <1>1, <1>2, <1>3, MemMapAssumption, SMTT(30) DEF Entries

LEMMA InitEntryIInv ==
  ASSUME IInv, InitEntry
  PROVE  IInv'
<1>0. /\ pc = "init" /\ pc' \in {"init", "idle", "add"}
      /\ UNCHANGED <<memmap, allocated, free_list, buddy_arenas>>
      /\ pc' = "idle" => arena' = 0
      /\ arena' = arena \/ arena' = 0
      /\ addr' = addr \/ addr' = 0
      /\ order' = order \/ order' = 0
      /\ want' = want \/ want' = 0
      /\ \/ entry_idx' = entry_idx /\ buddy_arena_counter' = buddy_arena_counter
         \/ entry_idx' = entry_idx + 1 /\ buddy_arena_counter' = buddy_arena_counter /\ pc' = "init"
         \/ /\ entry_idx' = entry_idx + 1 /\ buddy_arena_counter = 0
            /\ buddy_arena_counter' = 2 /\ pc' = "init"
            /\ entry_idx <= Len(memmap) /\ memmap[entry_idx].usable
      /\ pc' = "add" => /\ entry_idx <= Len(memmap) /\ memmap[entry_idx].usable
                        /\ buddy_arena_counter \in 1 .. MAX_BUDDY_ARENAS - 1
                        /\ entry_idx' = entry_idx /\ buddy_arena_counter' = buddy_arena_counter
  BY SMTT(30) DEF InitEntry, BootUnchanged, SkipEntry, InitFirstArena, Return, locals
<1>1. TypeOK'
  <2>1. TypeOK
    BY DEF IInv
  <2>2. 0 \in Orders /\ MAX_BUDDY_ARENAS \in Nat /\ 2 \in 0 .. MAX_BUDDY_ARENAS
    BY SizeAssumption, SMTT(30) DEF Orders
  <2>3. entry_idx' \in Nat \ {0} /\ buddy_arena_counter' \in 0 .. MAX_BUDDY_ARENAS
    BY <1>0, <2>1, <2>2, SMTT(30) DEF TypeOK
  <2>4. arena' \in Nat /\ addr' \in Nat /\ order' \in Orders /\ want' \in Orders
    BY <1>0, <2>1, <2>2, SMTT(30) DEF TypeOK
  <2> QED  BY <1>0, <2>1, <2>3, <2>4 DEF TypeOK
<1>2. AllBlocks' = AllBlocks
  BY <1>0 DEF AllBlocks, InFlight
<1>3. entry_idx \in Nat \ {0} /\ buddy_arena_counter \in Nat
      /\ DOMAIN memmap = 1 .. Len(memmap) /\ Len(memmap) \in Nat
  BY MemMapFacts, SizeAssumption, SMTT(30) DEF IInv, TypeOK
<1>4. BootOK'
  <2>1. buddy_arena_counter' # 0 =>
          \E e \in DOMAIN memmap' : e < entry_idx' /\ memmap'[e].usable
    BY <1>0, <1>3, SMTT(30) DEF IInv, BootOK
  <2> QED  BY <1>0, <1>3, <2>1, SMTT(30) DEF BootOK
<1>5. ArenasOK'
  <2> SUFFICES ASSUME NEW i \in Arenas, IsSetUp(i)'
               PROVE  /\ i < buddy_arena_counter'
                      /\ 0 < buddy_arenas'[i].base
                      /\ \E e \in DOMAIN memmap' : ArenaInEntry(i, e)'
    BY DEF ArenasOK
  <2>1. IsSetUp(i) /\ ~BeingPopulated(i) /\ i \in Nat
    BY <1>0, SMTT(30) DEF IsSetUp, BeingPopulated, Arenas
  <2>2. /\ i < buddy_arena_counter
        /\ 0 < buddy_arenas[i].base
        /\ \E e \in DOMAIN memmap : ArenaInEntry(i, e)
    BY <2>1 DEF IInv, ArenasOK
  <2>3. PICK e \in DOMAIN memmap : ArenaInEntry(i, e)
    BY <2>2
  <2>4. ArenaInEntry(i, e)'
    BY <1>0, <1>3, <2>1, <2>3, SMTT(30) DEF ArenaInEntry, ArenaEnd
  <2> QED  BY <1>0, <1>3, <2>1, <2>2, <2>4, SMTT(30)
<1>6. ArenasDisjoint'
  BY <1>0 DEF IInv, ArenasDisjoint, IsSetUp, ArenaEnd
<1>7. CursorOK' /\ LocalsOK'
  BY <1>0 DEF CursorOK, LocalsOK
<1>8. OneHome'
  BY <1>0 DEF IInv, OneHome, InFlight
<1>9. BlocksInArena' /\ PairwiseDisjoint' /\ BlocksAligned' /\ NoPageLost'
  BY <1>0, <1>2, SameBlocks
<1> QED  BY <1>1, <1>4, <1>5, <1>6, <1>7, <1>8, <1>9 DEF IInv

LEMMA PopulateDoneIInv ==
  ASSUME IInv, PopulateDone
  PROVE  IInv'
<1>0. /\ pc = "populate" /\ pc' = "init"
      /\ UNCHANGED <<memmap, allocated, free_list, buddy_arenas, order, want>>
      /\ buddy_arena_counter' = buddy_arena_counter + 1 /\ entry_idx' = entry_idx + 1
      /\ arena' = 0 /\ addr' = 0
      /\ ArenaEnd(arena) - addr < PAGE_FRAME_SIZE
  BY DEF PopulateDone
<1>1. /\ entry_idx \in DOMAIN memmap /\ memmap[entry_idx].usable
      /\ buddy_arena_counter \in 1 .. MAX_BUDDY_ARENAS - 1 /\ MAX_BUDDY_ARENAS \in Nat
      /\ arena = buddy_arena_counter /\ addr <= ArenaEnd(arena)
      /\ entry_idx \in Nat \ {0} /\ arena \in Arenas
      /\ ArenaEnd(arena) \in Nat /\ addr \in Nat
  <2>1. TypeOK /\ BootOK /\ MAX_BUDDY_ARENAS \in Nat
    BY SizeAssumption DEF IInv
  <2>2. arena = buddy_arena_counter /\ buddy_arena_counter \in 1 .. MAX_BUDDY_ARENAS - 1
    BY <1>0, <2>1 DEF BootOK
  <2>3. arena \in Arenas
    BY <2>1, <2>2, SMTT(30) DEF Arenas
  <2>4. buddy_arenas[arena].base \in Nat /\ buddy_arenas[arena].length \in Nat
    BY <2>1, <2>3 DEF TypeOK
  <2> QED  BY <1>0, <2>1, <2>2, <2>3, <2>4, SMTT(30) DEF TypeOK, BootOK, ArenaEnd
<1>2. TypeOK'
  BY <1>0, <1>1, SMTT(30) DEF IInv, TypeOK
<1>3. AllBlocks' = AllBlocks
  BY <1>0 DEF AllBlocks, InFlight
<1>4. BootOK' /\ CursorOK' /\ LocalsOK'
  BY <1>0, <1>1, SMTT(30) DEF BootOK, CursorOK, LocalsOK
<1>5. ArenasOK'
  <2> SUFFICES ASSUME NEW i \in Arenas, IsSetUp(i)'
               PROVE  /\ i < buddy_arena_counter'
                      /\ 0 < buddy_arenas'[i].base
                      /\ \E e \in DOMAIN memmap' : ArenaInEntry(i, e)'
    BY DEF ArenasOK
  <2>1. IsSetUp(i) /\ i \in Nat
    BY <1>0, SMTT(30) DEF IsSetUp, Arenas
  <2>2. /\ i < buddy_arena_counter \/ i = arena
        /\ 0 < buddy_arenas[i].base
        /\ \E e \in DOMAIN memmap : ArenaInEntry(i, e)
    BY <2>1 DEF IInv, ArenasOK, BeingPopulated
  <2>3. PICK e \in DOMAIN memmap : ArenaInEntry(i, e)
    BY <2>2
  <2>4. ArenaInEntry(i, e)'
    <3>1. e \in Nat
      BY MemMapFacts, SMTT(30)
    <3> QED  BY <1>0, <1>1, <2>3, <3>1, SMTT(30) DEF ArenaInEntry, ArenaEnd
  <2> QED  BY <1>0, <1>1, <2>1, <2>2, <2>4, SMTT(30)
<1>6. ArenasDisjoint'
  BY <1>0 DEF IInv, ArenasDisjoint, IsSetUp, ArenaEnd
<1>7. OneHome'
  BY <1>0 DEF IInv, OneHome, InFlight
<1>8. BlocksInArena' /\ PairwiseDisjoint' /\ BlocksAligned'
  BY <1>0, <1>3 DEF IInv, BlocksInArena, PairwiseDisjoint, BlocksAligned, DisjointBlocks,
                    BlockEnd, ArenaEnd
<1>9. NoPageLost'
  <2> SUFFICES ASSUME NEW i \in Arenas,
                      NEW p \in buddy_arenas[i].base .. ArenaEnd(i) - PAGE_FRAME_SIZE
               PROVE  \E b \in AllBlocks : b.arena = i /\ b.addr <= p /\ p < BlockEnd(b)
    BY <1>0, <1>3 DEF NoPageLost, ArenaEnd, BlockEnd
  <2>1. i = arena => p < addr
    BY <1>0, <1>1, SizeAssumption, SMTT(30)
  <2> QED  BY <2>1 DEF IInv, NoPageLost
<1> QED  BY <1>2, <1>4, <1>5, <1>6, <1>7, <1>8, <1>9 DEF IInv

LEMMA PopulateBlockIInv ==
  ASSUME IInv, PopulateBlock
  PROVE  IInv'
<1>1. PICK k \in Fitting(addr) :
        free_list' = free_list \cup {Block(arena, k, addr)} /\ addr' = addr + block_size[k]
  BY DEF PopulateBlock
<1> DEFINE n == Block(arena, k, addr)
<1>0. /\ pc = "populate" /\ pc' = "populate"
      /\ UNCHANGED <<memmap, entry_idx, buddy_arena_counter, buddy_arenas, allocated,
                     arena, order, want>>
      /\ free_list' = free_list \cup {n}
  BY <1>1 DEF PopulateBlock
<1>2. TypeOK /\ BootOK /\ MAX_BUDDY_ARENAS \in Nat
  BY SizeAssumption DEF IInv
<1>3. arena = buddy_arena_counter /\ buddy_arena_counter \in 1 .. MAX_BUDDY_ARENAS - 1
  BY <1>0, <1>2 DEF BootOK
<1>4. arena \in Arenas /\ addr \in Nat
  BY <1>2, <1>3, SMTT(30) DEF Arenas, TypeOK
<1>5. /\ buddy_arenas[arena].base \in Nat /\ buddy_arenas[arena].length \in Nat
      /\ buddy_arenas[arena].max_arena_order \in Orders
  BY <1>2, <1>4 DEF TypeOK
<1>6. /\ k \in Orders /\ k <= buddy_arenas[arena].max_arena_order
      /\ block_size[k] <= ArenaEnd(arena) - addr
      /\ addr % block_size[k] = 0
      /\ ArenaEnd(arena) \in Nat
  <2>1. /\ k \in 0 .. buddy_arenas[arena].max_arena_order
        /\ block_size[k] <= ArenaEnd(arena) - addr
        /\ addr % block_size[k] = 0
    BY DEF Fitting
  <2>2. buddy_arenas[arena].max_arena_order \in 0 .. MAX_SUPPORTED_ORDER
        /\ MAX_SUPPORTED_ORDER \in Nat
    BY <1>5, SizeAssumption DEF Orders
  <2>3. ArenaEnd(arena) \in Nat
    BY <1>5, SMTT(30) DEF ArenaEnd
  <2> QED  BY <2>1, <2>2, <2>3, SMTT(30) DEF Orders
<1>7. block_size[k] \in Nat \ {0}
  BY <1>6, SizeAssumption
<1>8. n \in Blocks /\ n.arena = arena /\ n.order = k /\ n.addr = addr
  BY <1>4, <1>6, BlockType, SMTT(30)
<1>9. AllBlocks' = AllBlocks \cup {n}
  BY <1>0 DEF AllBlocks, InFlight
<1> HIDE DEF n
<1>10. BlockEnd(n) = addr'
  BY <1>1, <1>8 DEF BlockEnd
<1>11. buddy_arenas[arena].base <= addr
  BY <1>0 DEF IInv, BootOK
<1>12. \A b \in AllBlocks : DisjointBlocks(b, n) /\ DisjointBlocks(n, b)
  <2> SUFFICES ASSUME NEW b \in AllBlocks
               PROVE  DisjointBlocks(b, n) /\ DisjointBlocks(n, b)
    OBVIOUS
  <2>1. /\ b \in Blocks /\ buddy_arenas[b.arena].base <= b.addr
        /\ BlockEnd(b) <= ArenaEnd(b.arena)
        /\ b.arena = arena => BlockEnd(b) <= addr
    BY <1>0 DEF IInv, BlocksInArena, CursorOK
  <2>2. b.arena \in Arenas /\ b.addr \in Nat /\ BlockEnd(b) \in Nat /\ b.addr < BlockEnd(b)
    BY <2>1, BlockFacts
  <2>3. CASE b.arena = arena
    BY <1>8, <2>1, <2>3 DEF DisjointBlocks
  <2>4. CASE b.arena # arena
    <3>1. buddy_arenas[b.arena].base \in Nat /\ buddy_arenas[b.arena].length \in Nat
      BY <1>2, <2>2 DEF TypeOK
    <3>2. IsSetUp(b.arena) /\ IsSetUp(arena) /\ ArenaEnd(b.arena) \in Nat
      BY <1>4, <1>5, <1>6, <1>7, <1>11, <2>1, <2>2, <3>1, SMTT(30) DEF IsSetUp, ArenaEnd
    <3>3. \/ ArenaEnd(arena) <= buddy_arenas[b.arena].base
          \/ ArenaEnd(b.arena) <= buddy_arenas[arena].base
      BY <1>4, <2>2, <2>4, <3>2 DEF IInv, ArenasDisjoint
    <3> QED  BY <1>1, <1>4, <1>5, <1>6, <1>7, <1>8, <1>10, <1>11, <2>1, <2>2, <3>1, <3>2, <3>3, SMTT(30) DEF DisjointBlocks
  <2> QED  BY <2>3, <2>4
<1>13. TypeOK'
  BY <1>0, <1>1, <1>2, <1>4, <1>7, <1>8, SMTT(30) DEF TypeOK
<1>14. BootOK'
  BY <1>0, <1>1, <1>2, <1>4, <1>5, <1>6, <1>7, <1>11, SMTT(30) DEF BootOK, ArenaEnd
<1>15. ArenasOK' /\ ArenasDisjoint'
  BY <1>0 DEF IInv, ArenasOK, ArenasDisjoint, IsSetUp, BeingPopulated, ArenaInEntry, ArenaEnd
<1>16. BlocksInArena'
  <2>1. \A b \in AllBlocks : ArenaEnd(b.arena)' = ArenaEnd(b.arena)
    BY <1>0 DEF ArenaEnd
  <2>2. ArenaEnd(arena)' = ArenaEnd(arena) /\ addr' <= ArenaEnd(arena)
    BY <1>0, <1>1, <1>4, <1>6, <1>7, SMTT(30) DEF ArenaEnd
  <2>3. ASSUME NEW b \in AllBlocks'
        PROVE  /\ b \in Blocks
               /\ b.order <= buddy_arenas[b.arena].max_arena_order
               /\ buddy_arenas[b.arena].base <= b.addr
               /\ BlockEnd(b) <= ArenaEnd(b.arena)
    BY <1>6, <1>8, <1>9, <1>10, <1>11, <2>2 DEF IInv, BlocksInArena
  <2> QED  BY <1>0, <2>3 DEF BlocksInArena, ArenaEnd, BlockEnd
<1>17. CursorOK'
  <2>1. \A b \in AllBlocks : b.arena = arena => BlockEnd(b) <= addr'
    <3> TAKE b \in AllBlocks
    <3> HAVE b.arena = arena
    <3>1. BlockEnd(b) <= addr /\ b \in Blocks
      BY <1>0 DEF IInv, CursorOK, BlocksInArena
    <3> QED  BY <1>1, <1>4, <1>7, <3>1, BlockFacts, SMTT(30)
  <2> QED  BY <1>0, <1>1, <1>4, <1>7, <1>9, <1>10, <2>1, SMTT(30) DEF CursorOK, BlockEnd
<1>18. LocalsOK'
  BY <1>0 DEF LocalsOK
<1>19. OneHome'
  <2>1. n \notin AllBlocks
    BY <1>8, <1>12, BlockFacts, SMTT(30) DEF DisjointBlocks
  <2> QED  BY <1>0, <2>1 DEF IInv, OneHome, InFlight, AllBlocks
<1>20. PairwiseDisjoint'
  <2>1. \A b, c \in AllBlocks' : b # c => DisjointBlocks(b, c)
    BY <1>9, <1>12 DEF IInv, PairwiseDisjoint
  <2> QED  BY <2>1 DEF PairwiseDisjoint, DisjointBlocks, BlockEnd
<1>21. BlocksAligned'
  BY <1>6, <1>8, <1>9 DEF IInv, BlocksAligned
<1>22. NoPageLost'
  <2> SUFFICES ASSUME NEW i \in Arenas,
                      NEW p \in buddy_arenas[i].base .. ArenaEnd(i) - PAGE_FRAME_SIZE,
                      i = arena => p < addr'
               PROVE  \E b \in AllBlocks' : b.arena = i /\ b.addr <= p /\ p < BlockEnd(b)
    BY <1>0 DEF NoPageLost, ArenaEnd, BlockEnd
  <2>1. p \in Int
    BY <1>2, SizeAssumption, SMTT(30) DEF TypeOK, ArenaEnd
  <2>2. CASE i = arena /\ addr <= p
    BY <1>8, <1>9, <1>10, <2>2
  <2>3. CASE ~(i = arena /\ addr <= p)
    <3>1. i = arena => p < addr
      BY <1>4, <2>1, <2>3, SMTT(30)
    <3> QED  BY <1>9, <3>1 DEF IInv, NoPageLost
  <2> QED  BY <2>2, <2>3
<1> QED
  BY <1>13, <1>14, <1>15, <1>16, <1>17, <1>18, <1>19, <1>20, <1>21, <1>22 DEF IInv

LEMMA AddArenaIInv ==
  ASSUME IInv, AddArena
  PROVE  IInv'
<1> DEFINE e == memmap[entry_idx]
           g == buddy_arena_counter
<1>1. /\ pc = "add" /\ UNCHANGED <<memmap, allocated, free_list>>
      /\ buddy_arena_counter' = buddy_arena_counter
  BY DEF AddArena, BootUnchanged
<1>2. TypeOK /\ BootOK /\ MAX_BUDDY_ARENAS \in Nat
  BY SizeAssumption DEF IInv
<1>3. /\ entry_idx \in DOMAIN memmap /\ e.usable /\ entry_idx \in Nat \ {0}
      /\ g \in 1 .. MAX_BUDDY_ARENAS - 1 /\ g \in Arenas
      /\ \E f \in DOMAIN memmap : f < entry_idx /\ memmap[f].usable
  BY <1>1, <1>2, SMTT(30) DEF BootOK, TypeOK, Arenas
<1>4. CASE ArenaLength(e) < PAGE_FRAME_SIZE
  <2>0. /\ pc' = "init" /\ entry_idx' = entry_idx + 1
        /\ UNCHANGED <<buddy_arenas, arena, addr, order, want>>
    <3>1. ArenaLength(e) \in Int
      <4>1. e.base \in Nat /\ e.length \in Nat
        BY <1>3, MemMapFacts
      <4>2. EntryBase(e) \in Nat
        BY <4>1, SizeAssumption, SMTT(30) DEF EntryBase
      <4> QED  BY <4>1, <4>2, PageAlignUpIsAbove, SMTT(30) DEF ArenaLength, ArenaBase
    <3> QED  BY <1>4, <3>1, SizeAssumption, SMTT(30) DEF AddArena, locals
  <2>1. TypeOK'
    BY <1>1, <1>2, <2>0, SMTT(30) DEF TypeOK
  <2>2. AllBlocks' = AllBlocks
    BY <1>1, <2>0 DEF AllBlocks, InFlight
  <2>3. BootOK' /\ CursorOK' /\ LocalsOK'
    BY <1>1, <1>3, <2>0, SMTT(30) DEF BootOK, CursorOK, LocalsOK
  <2>4. ArenasOK'
    <3> SUFFICES ASSUME NEW i \in Arenas, IsSetUp(i)'
                 PROVE  /\ i < buddy_arena_counter'
                        /\ 0 < buddy_arenas'[i].base
                        /\ \E f \in DOMAIN memmap' : ArenaInEntry(i, f)'
      BY DEF ArenasOK
    <3>1. IsSetUp(i) /\ ~BeingPopulated(i)
      BY <1>1, <2>0 DEF IsSetUp, BeingPopulated
    <3>2. /\ i < buddy_arena_counter /\ 0 < buddy_arenas[i].base
          /\ \E f \in DOMAIN memmap : ArenaInEntry(i, f)
      BY <3>1 DEF IInv, ArenasOK
    <3>3. PICK f \in DOMAIN memmap : ArenaInEntry(i, f)
      BY <3>2
    <3>4. f \in Nat
      BY MemMapFacts, SMTT(30)
    <3> QED  BY <1>1, <1>3, <2>0, <3>1, <3>2, <3>3, <3>4, SMTT(30) DEF ArenaInEntry, ArenaEnd
  <2>5. ArenasDisjoint'
    BY <2>0 DEF IInv, ArenasDisjoint, IsSetUp, ArenaEnd
  <2>6. OneHome'
    BY <1>1, <2>0 DEF IInv, OneHome, InFlight
  <2>7. BlocksInArena' /\ PairwiseDisjoint' /\ BlocksAligned' /\ NoPageLost'
    BY <1>1, <2>0, <2>2, SameBlocks
  <2> QED  BY <2>1, <2>3, <2>4, <2>5, <2>6, <2>7 DEF IInv
<1>5. CASE ArenaLength(e) >= PAGE_FRAME_SIZE
  <2> DEFINE B == ArenaBase(e)
             L == ArenaLength(e)
  <2>1. /\ e.base \in Nat /\ e.length \in Nat \ {0} /\ e.base > 0
    <3>1. PICK f \in DOMAIN memmap : f < entry_idx /\ memmap[f].usable
      BY <1>3
    <3>2. /\ memmap[f].base \in Nat /\ memmap[f].length \in Nat \ {0}
          /\ e.base \in Nat /\ e.length \in Nat \ {0}
          /\ memmap[f].base + memmap[f].length <= e.base
      BY <1>3, <3>1, MemMapFacts
    <3> QED  BY <3>2, SMTT(30)
  <2>2. EntryBase(e) = e.base
    BY <2>1, SMTT(30) DEF EntryBase
  <2>3. /\ B \in Nat /\ e.base <= B /\ L = e.base + e.length - B
    BY <2>1, <2>2, PageAlignUpIsAbove DEF ArenaBase, ArenaLength
  <2>4. L \in Nat \ {0} /\ B + L = e.base + e.length /\ B > 0
    BY <1>5, <2>1, <2>3, SizeAssumption, SMTT(30)
  <2> HIDE DEF B, L
  <2>5. PICK k \in Orders : buddy_arenas' = [buddy_arenas EXCEPT ![g] =
                              [base |-> B, length |-> L, max_arena_order |-> k]]
    BY <1>5, <2>4, SizeAssumption, SMTT(30) DEF AddArena, B, L
  <2>6. /\ pc' = "populate" /\ arena' = g /\ addr' = B
        /\ UNCHANGED <<entry_idx, order, want>>
    BY <1>5, <2>4, SizeAssumption, SMTT(30) DEF AddArena, B, L
  <2>7. /\ buddy_arenas'[g].base = B /\ buddy_arenas'[g].length = L
        /\ ArenaEnd(g)' = B + L
        /\ \A i \in Arenas : i # g => /\ buddy_arenas'[i] = buddy_arenas[i]
                                      /\ ArenaEnd(i)' = ArenaEnd(i)
                                      /\ IsSetUp(i)' <=> IsSetUp(i)
    <3>1. buddy_arenas'[g] = [base |-> B, length |-> L, max_arena_order |-> k]
      BY <1>2, <1>3, <2>5 DEF TypeOK
    <3>2. \A i \in Arenas : i # g => buddy_arenas'[i] = buddy_arenas[i]
      BY <1>2, <1>3, <2>5 DEF TypeOK
    <3>3. g' = g
      BY <1>1
    <3> QED  BY <3>1, <3>2, <3>3, SMTT(30) DEF ArenaEnd, IsSetUp
  <2>8. ~IsSetUp(g) /\ (\A i \in Arenas : IsSetUp(i) => i < g)
    BY <1>1, <1>3, SMTT(30) DEF IInv, ArenasOK, BeingPopulated
  <2>9. \A b \in AllBlocks : b \in Blocks /\ b.arena \in Arenas /\ b.arena # g
    <3> TAKE b \in AllBlocks
    <3>1. /\ b \in Blocks /\ buddy_arenas[b.arena].base <= b.addr
          /\ BlockEnd(b) <= ArenaEnd(b.arena)
      BY DEF IInv, BlocksInArena
    <3>2. b.arena \in Arenas /\ b.addr \in Nat /\ BlockEnd(b) \in Nat /\ b.addr < BlockEnd(b)
      BY <3>1, BlockFacts
    <3>3. buddy_arenas[b.arena].base \in Nat /\ buddy_arenas[b.arena].length \in Nat
      BY <1>2, <3>2 DEF TypeOK
    <3>4. IsSetUp(b.arena)
      BY <3>1, <3>2, <3>3, SMTT(30) DEF IsSetUp, ArenaEnd
    <3> QED  BY <2>8, <3>1, <3>2, <3>4
  <2>10. AllBlocks' = AllBlocks
    BY <1>1, <2>6 DEF AllBlocks, InFlight
  <2>11. TypeOK'
    BY <1>1, <1>2, <1>3, <2>3, <2>4, <2>5, <2>6, SMTT(30) DEF TypeOK, Arenas
  <2>12. BootOK'
    BY <1>1, <1>2, <1>3, <2>3, <2>4, <2>6, <2>7, SMTT(30) DEF BootOK
  <2>13. \A i \in Arenas : IsSetUp(i) =>
           /\ i < g /\ 0 < buddy_arenas[i].base
           /\ \E f \in DOMAIN memmap : /\ memmap[f].usable /\ f < entry_idx
                                       /\ memmap[f].base <= buddy_arenas[i].base
                                       /\ ArenaEnd(i) <= memmap[f].base + memmap[f].length
    BY <1>1 DEF IInv, ArenasOK, ArenaInEntry, BeingPopulated
  <2>14. ArenasOK'
    <3> SUFFICES ASSUME NEW i \in Arenas, IsSetUp(i)'
                 PROVE  /\ i < buddy_arena_counter' \/ BeingPopulated(i)'
                        /\ 0 < buddy_arenas'[i].base
                        /\ \E f \in DOMAIN memmap' : ArenaInEntry(i, f)'
      BY DEF ArenasOK
    <3>1. CASE i = g
      BY <1>1, <1>3, <2>3, <2>4, <2>6, <2>7, <3>1, SMTT(30) DEF ArenaInEntry, BeingPopulated
    <3>2. CASE i # g
      BY <1>1, <2>6, <2>7, <2>13, <3>2 DEF ArenaInEntry
    <3> QED  BY <3>1, <3>2
  <2>15. \A i \in Arenas : IsSetUp(i) => ArenaEnd(i) <= B
    <3> TAKE i \in Arenas
    <3> HAVE IsSetUp(i)
    <3>1. PICK f \in DOMAIN memmap : /\ memmap[f].usable /\ f < entry_idx
                                     /\ ArenaEnd(i) <= memmap[f].base + memmap[f].length
      BY <2>13
    <3>2. /\ memmap[f].base + memmap[f].length <= e.base
          /\ memmap[f].base \in Nat /\ memmap[f].length \in Nat
      BY <1>3, <3>1, MemMapFacts
    <3>3. ArenaEnd(i) \in Nat
      BY <1>2, SMTT(30) DEF TypeOK, ArenaEnd
    <3> QED  BY <2>1, <2>3, <3>1, <3>2, <3>3, SMTT(30)
  <2>16. ArenasDisjoint'
    <3>1. \A i, j \in Arenas : i # j /\ i # g /\ j # g /\ IsSetUp(i)' /\ IsSetUp(j)' =>
            \/ ArenaEnd(i)' <= buddy_arenas'[j].base
            \/ ArenaEnd(j)' <= buddy_arenas'[i].base
      BY <2>7 DEF IInv, ArenasDisjoint
    <3>2. \A i \in Arenas : i # g /\ IsSetUp(i)' => ArenaEnd(i)' <= buddy_arenas'[g].base
      BY <2>7, <2>15
    <3> QED  BY <3>1, <3>2 DEF ArenasDisjoint
  <2>17. BlocksInArena' /\ CursorOK'
    BY <2>6, <2>7, <2>9, <2>10 DEF IInv, BlocksInArena, CursorOK, BlockEnd
  <2>18. LocalsOK'
    BY <2>6 DEF LocalsOK
  <2>19. OneHome' /\ PairwiseDisjoint' /\ BlocksAligned'
    BY <1>1, <2>6, <2>10 DEF IInv, OneHome, InFlight, PairwiseDisjoint, BlocksAligned,
                             DisjointBlocks, BlockEnd
  <2>20. NoPageLost'
    <3> SUFFICES ASSUME NEW i \in Arenas,
                        NEW p \in buddy_arenas'[i].base .. ArenaEnd(i)' - PAGE_FRAME_SIZE,
                        i = g => p < B
                 PROVE  \E b \in AllBlocks : b.arena = i /\ b.addr <= p /\ p < BlockEnd(b)
      BY <2>6, <2>10 DEF NoPageLost, BlockEnd
    <3>1. i # g
      <4> SUFFICES ASSUME i = g PROVE FALSE
        OBVIOUS
      <4>1. buddy_arenas'[i].base = B /\ buddy_arenas'[i].length = L
        BY <2>7
      <4>2. B <= p
        BY <2>3, <2>4, <4>1, SizeAssumption, SMTT(30) DEF ArenaEnd
      <4>3. p \in Int
        BY <2>3, <2>4, <4>1, SizeAssumption, SMTT(30) DEF ArenaEnd
      <4> QED  BY <2>3, <4>2, <4>3, SMTT(30)
    <3>2. p \in buddy_arenas[i].base .. ArenaEnd(i) - PAGE_FRAME_SIZE
      BY <2>7, <3>1
    <3> QED  BY <1>1, <3>2 DEF IInv, NoPageLost
  <2> QED
    BY <2>11, <2>12, <2>14, <2>16, <2>17, <2>18, <2>19, <2>20 DEF IInv
<1>6. ArenaLength(e) < PAGE_FRAME_SIZE \/ ArenaLength(e) >= PAGE_FRAME_SIZE
  BY DEF AddArena
<1> QED  BY <1>4, <1>5, <1>6

-----------------------------------------------------------------------------
(* The theorems. *)

LEMMA IInvInductive == IInv /\ [Next]_vars => IInv'
<1> SUFFICES ASSUME IInv, [Next]_vars PROVE IInv'
  OBVIOUS
<1>1. CASE UNCHANGED vars
  <2>0. UNCHANGED <<memmap, entry_idx, buddy_arena_counter, buddy_arenas, free_list,
                    allocated, pc, arena, addr, order, want>>
    BY <1>1 DEF vars, locals
  <2>1. TypeOK' /\ BootOK' /\ LocalsOK'
    BY <2>0 DEF IInv, TypeOK, BootOK, LocalsOK, ArenaEnd
  <2>2. ArenasOK' /\ ArenasDisjoint'
    BY <2>0 DEF IInv, ArenasOK, ArenasDisjoint, ArenaInEntry, BeingPopulated, IsSetUp, ArenaEnd
  <2>3. AllBlocks' = AllBlocks /\ OneHome'
    BY <2>0 DEF IInv, AllBlocks, InFlight, OneHome
  <2>4. BlocksInArena' /\ CursorOK'
    BY <2>0, <2>3 DEF IInv, BlocksInArena, CursorOK, ArenaEnd, BlockEnd
  <2>5. PairwiseDisjoint' /\ BlocksAligned'
    BY <2>3 DEF IInv, PairwiseDisjoint, BlocksAligned, DisjointBlocks, BlockEnd
  <2>6. NoPageLost'
    BY <2>0, <2>3 DEF IInv, NoPageLost, ArenaEnd, BlockEnd
  <2> QED  BY <2>1, <2>2, <2>3, <2>4, <2>5, <2>6 DEF IInv
<1>2. CASE Step
  BY <1>2, InitEntryIInv, AddArenaIInv, PopulateBlockIInv, PopulateDoneIInv, AllocTakeIInv,
     AllocUnlinkLargerIInv, AllocNextArenaIInv, AllocFailIInv, SplitStepIInv, AllocReturnIInv,
     CoalesceStepIInv, FreeLinkIInv DEF Step
<1>3. CASE \E k \in 0 .. MAX_SUPPORTED_ORDER + 1 : AllocCall(k)
  BY <1>3, AllocCallIInv
<1>4. CASE \E b \in allocated : FreeCall(b)
  BY <1>4, FreeCallIInv
<1> QED  BY <1>1, <1>2, <1>3, <1>4 DEF Next

\* The invariant holds throughout: the arenas and blocks the boot loop builds,
\* and every split and merge after it, keep it.
THEOREM Invariance == Spec => []IInv
  BY InitIInv, IInvInductive, PTL DEF Spec

\* Type correctness of the allocator's state, in particular that no order and
\* no arena index leaves its range.
THEOREM TypeCorrectness == Spec => []TypeOK
<1>1. IInv => TypeOK
  BY DEF IInv
<1> QED  BY <1>1, Invariance, PTL

\* No two blocks share a byte, whatever the memory map and the calls.
THEOREM BlocksNeverOverlap == Spec => []NoOverlap
<1>1. IInv => NoOverlap
  BY DEF IInv, NoOverlap
<1> QED  BY <1>1, Invariance, PTL

\* Splitting and merging lose no page of an arena.
THEOREM PagesAreConserved == Spec => []NoPageLost
<1>1. IInv => NoPageLost
  BY DEF IInv
<1> QED  BY <1>1, Invariance, PTL

\* Every block is aligned to its size.
THEOREM BlocksStayAligned == Spec => []BlocksAligned
<1>1. IInv => BlocksAligned
  BY DEF IInv
<1> QED  BY <1>1, Invariance, PTL

\* Every block is usable memory of the map, and none starts at address 0.
THEOREM OnlyUsableMemory == Spec => []BlocksAreUsableMemory
<1>1. IInv => BlocksAreUsableMemory
  <2> SUFFICES ASSUME IInv, NEW b \in AllBlocks
               PROVE  /\ b.addr # 0
                      /\ \E e \in DOMAIN memmap :
                           /\ memmap[e].usable
                           /\ memmap[e].base <= b.addr
                           /\ BlockEnd(b) <= memmap[e].base + memmap[e].length
    BY DEF BlocksAreUsableMemory
  <2>1. /\ b \in Blocks /\ buddy_arenas[b.arena].base <= b.addr
        /\ BlockEnd(b) <= ArenaEnd(b.arena)
    BY DEF IInv, BlocksInArena
  <2>2. b.arena \in Arenas /\ b.addr \in Nat /\ BlockEnd(b) \in Nat /\ b.addr < BlockEnd(b)
    BY <2>1, BlockFacts
  <2>3. buddy_arenas[b.arena].base \in Nat /\ buddy_arenas[b.arena].length \in Nat
    BY <2>2 DEF IInv, TypeOK
  <2>4. IsSetUp(b.arena) /\ ArenaEnd(b.arena) \in Nat
    BY <2>1, <2>2, <2>3, SMTT(30) DEF IsSetUp, ArenaEnd
  <2>5. 0 < buddy_arenas[b.arena].base /\ \E e \in DOMAIN memmap : ArenaInEntry(b.arena, e)
    BY <2>2, <2>4 DEF IInv, ArenasOK
  <2>6. PICK e \in DOMAIN memmap : ArenaInEntry(b.arena, e)
    BY <2>5
  <2>7. memmap[e].base \in Nat /\ memmap[e].length \in Nat
    BY MemMapFacts
  <2>8. /\ memmap[e].usable
        /\ memmap[e].base <= buddy_arenas[b.arena].base
        /\ ArenaEnd(b.arena) <= memmap[e].base + memmap[e].length
    BY <2>6 DEF ArenaInEntry
  <2>9. /\ memmap[e].base <= b.addr
        /\ BlockEnd(b) <= memmap[e].base + memmap[e].length
    BY <2>1, <2>2, <2>3, <2>4, <2>7, <2>8, SMTT(30)
  <2> QED  BY <2>1, <2>2, <2>3, <2>5, <2>8, <2>9, SMTT(30)
<1> QED  BY <1>1, Invariance, PTL

\* buddy_alloc_pages gives up only when no arena can satisfy the request.
THEOREM FailureMeansExhaustion == Spec => []FailsOnlyWhenExhausted
<1>1. IInv => FailsOnlyWhenExhausted
  <2> SUFFICES ASSUME IInv, pc = "alloc", arena = buddy_arena_counter, NEW b \in free_list
               PROVE  b.order < want
    BY DEF FailsOnlyWhenExhausted
  <2>1. /\ b \in AllBlocks /\ b \in Blocks /\ buddy_arenas[b.arena].base <= b.addr
        /\ BlockEnd(b) <= ArenaEnd(b.arena)
    BY DEF IInv, BlocksInArena, AllBlocks
  <2>2. ArenasOf(b.addr) = {b.arena}
    BY <2>1, FreeFindsTheArena DEF Booting
  <2>3. b.arena \in ArenasOf(b.addr)
    BY <2>2
  <2>4. b.arena < buddy_arena_counter
    <3>1. b.arena \in 0 .. buddy_arena_counter - 1 /\ buddy_arena_counter \in Int
      BY <2>3, SizeAssumption, SMTT(30) DEF ArenasOf, IInv, TypeOK
    <3> QED  BY <3>1, SMTT(30)
  <2> QED  BY <2>4 DEF IInv, LocalsOK
<1> QED  BY <1>1, Invariance, PTL

-----------------------------------------------------------------------------
(* No two free buddies: Coalesced. *)

\* Dividing a multiple gives the multiplier back.
LEMMA MultipleDiv ==
  ASSUME NEW n \in Nat, NEW s \in Nat \ {0}
  PROVE  (n * s) \div s = n
  BY SMTT(30)

\* The remainder is what is left below the divisor.
LEMMA RemainderOf ==
  ASSUME NEW q \in Nat, NEW t \in Nat \ {0}, NEW r \in 0 .. t - 1
  PROVE  (q * t + r) % t = r
  BY SMTT(30)

\* The buddy of a block's buddy is the block itself.
LEMMA BuddyInvolution ==
  ASSUME NEW a \in Nat, NEW k \in Orders, a % block_size[k] = 0
  PROVE  BuddyOf(BuddyOf(a, k), k) = a
<1> DEFINE s == block_size[k]
           q == a \div s
<1>1. s \in Nat \ {0}
  BY SizeAssumption
<1>2. q \in Nat /\ a = q * s
  BY <1>1, SMTT(30)
<1>3. \A x \in Nat : BuddyOf(x, k) = IF (x \div s) % 2 = 0 THEN x + s ELSE x - s
  BY DEF BuddyOf
<1> HIDE DEF s, q
<1>4. \A n \in Nat : n * s \in Nat /\ (n * s) \div s = n
  BY <1>1, MultipleDiv, MultipleMod
<1>5. CASE q % 2 = 0
  <2>1. a \div s = q /\ BuddyOf(a, k) = a + s
    BY <1>1, <1>2, <1>3, <1>4, <1>5
  <2>2. a + s = (q + 1) * s /\ q + 1 \in Nat /\ (q + 1) % 2 # 0 /\ a + s \in Nat
    BY <1>1, <1>2, <1>5, SMTT(30)
  <2>3. (a + s) \div s = q + 1
    BY <1>4, <2>2
  <2>4. BuddyOf(a + s, k) = (a + s) - s
    BY <1>3, <2>2, <2>3
  <2> QED  BY <1>1, <2>1, <2>4, SMTT(30)
<1>6. CASE q % 2 # 0
  <2>1. a \div s = q /\ BuddyOf(a, k) = a - s
    BY <1>1, <1>2, <1>3, <1>4, <1>6
  <2>2. q - 1 \in Nat /\ (q - 1) % 2 = 0
    BY <1>2, <1>6, SMTT(30)
  <2>3. a - s = (q - 1) * s
    BY <1>1, <1>2, SMTT(30)
  <2>4. (a - s) \div s = q - 1 /\ a - s \in Nat
    BY <1>4, <2>2, <2>3
  <2>5. BuddyOf(a - s, k) = (a - s) + s
    BY <1>3, <2>2, <2>4
  <2> QED  BY <1>1, <2>1, <2>5, SMTT(30)
<1> QED  BY <1>5, <1>6

\* populate_buddy_blocks has given each block of the arena the largest order
\* that fits.
Greedy ==
  pc = "populate" =>
    \A b \in free_list : b.arena = arena => \A l \in Fitting(b.addr) : l <= b.order

Buddy(b) == Block(b.arena, b.order, BuddyOf(b.addr, b.order))

\* At no time, not even inside a call, are both buddies of a pair that could be
\* merged on the free lists.
NoFreePairs ==
  \A b \in free_list :
    b.order < buddy_arenas[b.arena].max_arena_order => Buddy(b) \notin free_list

\* A block may be linked when its buddy is not.
LEMMA LinkKeepsPairsApart ==
  ASSUME IInv, NoFreePairs, NEW n \in Blocks, n.addr % block_size[n.order] = 0,
         n.order < buddy_arenas[n.arena].max_arena_order => Buddy(n) \notin free_list,
         free_list' = free_list \cup {n}, UNCHANGED buddy_arenas
  PROVE  NoFreePairs'
<1> SUFFICES ASSUME NEW b \in free_list \cup {n},
                    b.order < buddy_arenas[b.arena].max_arena_order,
                    Buddy(b) \in free_list \cup {n}
             PROVE  FALSE
  BY DEF NoFreePairs, Buddy, BuddyOf, Block
<1>1. free_list \subseteq Blocks
  BY DEF IInv, TypeOK
<1>2. b.addr \in Nat /\ b.order \in Orders /\ b.arena \in Arenas
  BY <1>1, BlockFacts
<1>3. b.addr % block_size[b.order] = 0
  BY DEF IInv, BlocksAligned, AllBlocks
<1>4. Buddy(b) # b
  <2>1. BuddyOf(b.addr, b.order) # b.addr
    BY <1>2, SizeAssumption, SMTT(30) DEF BuddyOf
  <2> QED  BY <2>1, SMTT(30) DEF Buddy, Block
<1>5. Buddy(Buddy(b)) = b
  <2>1. BuddyOf(BuddyOf(b.addr, b.order), b.order) = b.addr
    BY <1>2, <1>3, BuddyInvolution
  <2>2. Buddy(Buddy(b)) = Block(b.arena, b.order, b.addr)
    BY <2>1 DEF Buddy, Block
  <2> QED  BY <1>1, <2>2 DEF Block, Blocks
<1>6. CASE b = n
  BY <1>4, <1>6
<1>7. CASE b # n /\ Buddy(b) = n
  <2>1. n.order = b.order /\ n.arena = b.arena
    BY <1>7 DEF Buddy, Block
  <2>2. Buddy(n) \notin free_list
    BY <2>1
  <2>3. Buddy(n) = b
    BY <1>5, <1>7
  <2> QED  BY <1>7, <2>2, <2>3
<1>8. CASE b # n /\ Buddy(b) # n
  BY <1>8 DEF NoFreePairs
<1> QED  BY <1>6, <1>7, <1>8

\* Unlinking a block makes no pair.
LEMMA UnlinkKeepsPairsApart ==
  ASSUME NoFreePairs, free_list' \subseteq free_list, UNCHANGED buddy_arenas
  PROVE  NoFreePairs'
BY DEF NoFreePairs, Buddy, BuddyOf, Block

PairInv == Greedy /\ NoFreePairs

LEMMA SplitStepPairs ==
  ASSUME IInv, NoFreePairs, SplitStep
  PROVE  NoFreePairs'
<1> DEFINE h == addr + block_size[order - 1]
           c == Block(arena, order, addr)
           r == Block(arena, order - 1, h)
<1>1. /\ pc = "split" /\ want < order /\ UNCHANGED buddy_arenas
      /\ free_list' = free_list \cup {r}
  BY DEF SplitStep, RunUnchanged
<1>2. /\ arena \in Arenas /\ addr \in Nat /\ order \in Orders /\ order - 1 \in Orders
      /\ want \in Orders
  BY <1>1, SizeAssumption, SMTT(30) DEF IInv, TypeOK, LocalsOK, Orders
<1>3. /\ block_size[order - 1] \in Nat \ {0} /\ block_size[order] = 2 * block_size[order - 1]
      /\ h \in Nat
  <2>1. (order - 1) + 1 = order
    BY <1>2, SMTT(30) DEF Orders
  <2>2. /\ block_size[order - 1] \in Nat \ {0}
        /\ block_size[(order - 1) + 1] = 2 * block_size[order - 1]
    BY <1>2, <2>1, SizeAssumption
  <2> QED  BY <1>2, <2>1, <2>2, SMTT(30)
<1>4. c \in AllBlocks /\ c.addr = addr /\ c.order = order
  BY <1>1 DEF AllBlocks, InFlight, Block
<1>5. addr % block_size[order] = 0
  BY <1>4 DEF IInv, BlocksAligned
<1>6. (order - 1) + 1 = order /\ (order - 1) + 1 \in Orders
  BY <1>2, SMTT(30) DEF Orders
<1>7. h % block_size[order - 1] = 0
  BY <1>2, <1>5, <1>6, HalvesAligned
<1>8. r \in Blocks /\ r.arena = arena /\ r.order = order - 1 /\ r.addr = h
  BY <1>2, <1>3, BlockType, SMTT(30)
<1>9. BuddyOf(h, order - 1) = addr
  <2>1. \/ BuddyOf(h, order - 1) = h + block_size[order - 1] /\ h % block_size[order] = 0
        \/ BuddyOf(h, order - 1) = h - block_size[order - 1]
    BY <1>2, <1>3, <1>6, <1>7, BuddyOfAligned, SMTT(30)
  <2>2. h % block_size[order] # 0
    <3> DEFINE s == block_size[order - 1]
               t == block_size[order]
               q == addr \div t
    <3>1. s \in Nat \ {0} /\ t = 2 * s /\ h = addr + s /\ addr % t = 0
      BY <1>3, <1>5
    <3> HIDE DEF s, t
    <3>2. t \in Nat \ {0}
      BY <3>1, SMTT(30)
    <3>3. q \in Nat /\ addr = q * t
      BY <1>2, <3>1, <3>2, DivMod
    <3> HIDE DEF q
    <3>4. h = q * t + s /\ s \in 0 .. t - 1
      BY <3>1, <3>3, SMTT(30)
    <3> HIDE DEF h
    <3>5. h % t = s
      BY <3>2, <3>3, <3>4, RemainderOf
    <3> QED  BY <3>1, <3>5 DEF t
  <2> QED  BY <1>2, <1>3, <2>1, <2>2, SMTT(30)
<1>10. Buddy(r) \notin free_list
  <2> DEFINE l == Block(arena, order - 1, addr)
  <2>1. Buddy(r) = l /\ l.addr = addr /\ l.order = order - 1
    BY <1>8, <1>9 DEF Buddy, Block
  <2>2. l # c
    BY <1>2, <1>4, <2>1, SMTT(30) DEF Orders
  <2>3. BlockEnd(l) = addr + block_size[order - 1] /\ BlockEnd(c) = addr + block_size[order]
    BY <1>4, <2>1 DEF BlockEnd
  <2>4. ~DisjointBlocks(l, c)
    BY <1>2, <1>3, <1>4, <2>1, <2>3, SMTT(30) DEF DisjointBlocks
  <2>5. l \notin AllBlocks
    BY <1>4, <2>2, <2>4 DEF IInv, PairwiseDisjoint
  <2> QED  BY <2>1, <2>5 DEF AllBlocks
<1> QED
  BY <1>1, <1>7, <1>8, <1>10, LinkKeepsPairsApart

LEMMA FreeLinkPairs ==
  ASSUME IInv, NoFreePairs, FreeLink
  PROVE  NoFreePairs'
<1> DEFINE c == Block(arena, order, addr)
<1>1. /\ pc = "coalesce" /\ free_list' = free_list \cup {c} /\ UNCHANGED buddy_arenas
      /\ ~CanMerge
  BY DEF FreeLink, RunUnchanged
<1>2. c \in Blocks /\ c.arena = arena /\ c.order = order /\ c.addr = addr
  BY <1>1, BlockType, SMTT(30) DEF IInv, TypeOK, LocalsOK
<1>3. c.addr % block_size[c.order] = 0
  <2>1. c \in AllBlocks
    BY <1>1 DEF AllBlocks, InFlight
  <2> QED  BY <2>1 DEF IInv, BlocksAligned
<1>4. c.order < buddy_arenas[c.arena].max_arena_order => Buddy(c) \notin free_list
  BY <1>1, <1>2 DEF CanMerge, Buddy
<1> QED
  BY <1>1, <1>2, <1>3, <1>4, LinkKeepsPairsApart

\* populate_buddy_blocks makes no pair: where the upper of two buddies is
\* placed the larger block would have fitted at the lower one.
LEMMA PopulateBlockPairs ==
  ASSUME IInv, PairInv, PopulateBlock
  PROVE  PairInv'
<1>1. PICK k \in Fitting(addr) :
        /\ \A l \in Fitting(addr) : l <= k
        /\ free_list' = free_list \cup {Block(arena, k, addr)}
        /\ addr' = addr + block_size[k]
  BY DEF PopulateBlock
<1> DEFINE n == Block(arena, k, addr)
           M == buddy_arenas[arena].max_arena_order
<1>2. /\ pc = "populate" /\ pc' = "populate" /\ UNCHANGED <<buddy_arenas, arena>>
      /\ free_list' = free_list \cup {n}
  BY <1>1 DEF PopulateBlock
<1>3. arena \in Arenas /\ addr \in Nat
  <2>1. arena = buddy_arena_counter /\ buddy_arena_counter \in 1 .. MAX_BUDDY_ARENAS - 1
    BY <1>2 DEF IInv, BootOK
  <2> QED  BY <2>1, SizeAssumption, SMTT(30) DEF Arenas, IInv, TypeOK
<1>4. M \in Orders /\ ArenaEnd(arena) \in Nat
  <2>1. /\ buddy_arenas[arena].base \in Nat /\ buddy_arenas[arena].length \in Nat
        /\ M \in Orders
    BY <1>3 DEF IInv, TypeOK
  <2> QED  BY <2>1, SMTT(30) DEF ArenaEnd
<1>5. /\ k \in Orders /\ k <= M /\ block_size[k] <= ArenaEnd(arena) - addr
      /\ addr % block_size[k] = 0
  <2>1. k \in 0 .. M /\ block_size[k] <= ArenaEnd(arena) - addr /\ addr % block_size[k] = 0
    BY DEF Fitting
  <2>2. M \in 0 .. MAX_SUPPORTED_ORDER /\ MAX_SUPPORTED_ORDER \in Nat
    BY <1>4, SizeAssumption DEF Orders
  <2> HIDE DEF M
  <2> QED  BY <2>1, <2>2, SMTT(30) DEF Orders
<1>6. n \in Blocks /\ n.arena = arena /\ n.order = k /\ n.addr = addr
  BY <1>3, <1>5, BlockType, SMTT(30)
<1>7. k < M => Buddy(n) \notin free_list
  <2> SUFFICES ASSUME k < M, Buddy(n) \in free_list PROVE FALSE
    OBVIOUS
  <2> DEFINE b == Buddy(n)
             a == BuddyOf(addr, k)
  <2>1. b.arena = arena /\ b.order = k /\ b.addr = a /\ b \in AllBlocks
    BY <1>6 DEF Buddy, Block, AllBlocks
  <2>2. k + 1 \in Orders /\ k + 1 \in 0 .. M
    <3> HIDE DEF M
    <3> QED  BY <1>4, <1>5, SizeAssumption, SMTT(30) DEF Orders
  <2>3. block_size[k] \in Nat \ {0} /\ block_size[k + 1] = 2 * block_size[k]
    BY <1>5, <2>2, SizeAssumption
  <2>4. BlockEnd(b) = a + block_size[k] /\ BlockEnd(b) <= addr
    BY <1>2, <2>1 DEF IInv, CursorOK, BlockEnd
  <2>5. /\ a \in Nat
        /\ \/ a = addr + block_size[k]
           \/ a = addr - block_size[k] /\ a % block_size[k + 1] = 0
    BY <1>3, <1>5, <2>2, BuddyOfAligned
  <2>6. a = addr - block_size[k] /\ a % block_size[k + 1] = 0
    BY <1>3, <2>3, <2>4, <2>5, SMTT(30)
  <2>7. block_size[k + 1] <= ArenaEnd(arena) - a
    BY <1>3, <1>4, <1>5, <2>3, <2>6, SMTT(30)
  <2>8. k + 1 \in Fitting(a)
    BY <2>2, <2>6, <2>7 DEF Fitting
  <2>9. k + 1 <= k
    BY <1>2, <2>1, <2>8 DEF PairInv, Greedy
  <2> QED  BY <1>5, <2>9, SMTT(30) DEF Orders
<1>8. NoFreePairs'
  BY <1>2, <1>5, <1>6, <1>7, LinkKeepsPairsApart DEF PairInv
<1>9. Greedy'
  <2>1. \A x : Fitting(x)' = Fitting(x)
    BY <1>2 DEF Fitting, ArenaEnd
  <2>2. \A b \in free_list \cup {n} : b.arena = arena => \A l \in Fitting(b.addr) : l <= b.order
    BY <1>1, <1>2, <1>6 DEF PairInv, Greedy
  <2> QED  BY <1>2, <2>1, <2>2 DEF Greedy
<1> QED  BY <1>8, <1>9 DEF PairInv

\* An arena that is being set up has no blocks yet.
LEMMA AddArenaPairs ==
  ASSUME IInv, PairInv, AddArena
  PROVE  PairInv'
<1> DEFINE g == buddy_arena_counter
<1>1. /\ pc = "add" /\ free_list' = free_list
      /\ \/ pc' = "init" /\ UNCHANGED buddy_arenas
         \/ /\ pc' = "populate" /\ arena' = g
            /\ \A i \in Arenas : i # g => buddy_arenas'[i] = buddy_arenas[i]
  BY DEF AddArena, BootUnchanged, IInv, TypeOK
<1>2. \A b \in free_list : b \in Blocks /\ b.arena \in Arenas /\ b.arena # g
  <2> TAKE b \in free_list
  <2>1. /\ b \in Blocks /\ buddy_arenas[b.arena].base <= b.addr
        /\ BlockEnd(b) <= ArenaEnd(b.arena)
    BY DEF IInv, BlocksInArena, AllBlocks
  <2>2. b.arena \in Arenas /\ b.addr \in Nat /\ BlockEnd(b) \in Nat /\ b.addr < BlockEnd(b)
    BY <2>1, BlockFacts
  <2>3. buddy_arenas[b.arena].base \in Nat /\ buddy_arenas[b.arena].length \in Nat
    BY <2>2 DEF IInv, TypeOK
  <2>4. IsSetUp(b.arena)
    BY <2>1, <2>2, <2>3, SMTT(30) DEF IsSetUp, ArenaEnd
  <2>5. b.arena < g
    BY <1>1, <2>2, <2>4 DEF IInv, ArenasOK, BeingPopulated
  <2> QED  BY <2>1, <2>2, <2>5, SMTT(30) DEF Arenas
<1>3. NoFreePairs'
  BY <1>1, <1>2 DEF PairInv, NoFreePairs, Buddy, BuddyOf, Block
<1>4. Greedy'
  BY <1>1, <1>2 DEF Greedy
<1> QED  BY <1>3, <1>4 DEF PairInv

LEMMA PairInvInductive == IInv /\ PairInv /\ [Next]_vars => PairInv'
<1> SUFFICES ASSUME IInv, PairInv, [Next]_vars PROVE PairInv'
  OBVIOUS
<1>0. Greedy /\ NoFreePairs
  BY DEF PairInv
<1>1. ASSUME pc' # "populate", free_list' \subseteq free_list, UNCHANGED buddy_arenas
      PROVE  PairInv'
  BY <1>0, <1>1, UnlinkKeepsPairsApart DEF PairInv, Greedy
<1>2. ASSUME pc' # "populate", NoFreePairs' PROVE PairInv'
  BY <1>2 DEF PairInv, Greedy
<1>3. CASE UNCHANGED vars
  <2>1. UNCHANGED <<buddy_arenas, free_list, pc, arena>>
    BY <1>3 DEF vars, locals
  <2> QED
    BY <2>1 DEF PairInv, Greedy, NoFreePairs, Buddy, BuddyOf, Block, Fitting, ArenaEnd
<1>4. CASE InitEntry
  <2>1. /\ pc' # "populate" /\ free_list' = free_list /\ UNCHANGED buddy_arenas
    BY <1>4 DEF InitEntry, BootUnchanged, SkipEntry, Return, InitFirstArena
  <2> QED  BY <1>1, <2>1
<1>5. CASE AddArena
  BY <1>5, AddArenaPairs
<1>6. CASE PopulateBlock
  BY <1>6, PopulateBlockPairs
<1>7. CASE PopulateDone
  BY <1>1, <1>7 DEF PopulateDone
<1>8. CASE AllocTake
  BY <1>1, <1>8 DEF AllocTake, HandOut, Return, RunUnchanged
<1>9. CASE AllocUnlinkLarger
  BY <1>1, <1>9 DEF AllocUnlinkLarger, RunUnchanged
<1>10. CASE AllocNextArena
  BY <1>1, <1>10 DEF AllocNextArena, RunUnchanged
<1>11. CASE AllocFail
  BY <1>1, <1>11 DEF AllocFail, Return, RunUnchanged
<1>12. CASE SplitStep
  <2>1. NoFreePairs' /\ pc' # "populate"
    <3>1. pc' # "populate"
      BY <1>12 DEF SplitStep
    <3> QED  BY <1>0, <1>12, <3>1, SplitStepPairs
  <2> QED  BY <1>2, <2>1
<1>13. CASE AllocReturn
  BY <1>1, <1>13 DEF AllocReturn, HandOut, Return, RunUnchanged
<1>14. CASE CoalesceStep
  BY <1>1, <1>14 DEF CoalesceStep, RunUnchanged
<1>15. CASE FreeLink
  <2>1. NoFreePairs'
    BY <1>0, <1>15, FreeLinkPairs
  <2>2. pc' # "populate"
    BY <1>15 DEF FreeLink, Return
  <2> QED  BY <1>2, <2>1, <2>2
<1>16. ASSUME NEW k \in 0 .. MAX_SUPPORTED_ORDER + 1, AllocCall(k) PROVE PairInv'
  <2>1. pc' # "populate" /\ free_list' = free_list /\ UNCHANGED buddy_arenas
    BY <1>16 DEF AllocCall, RunUnchanged
  <2> QED  BY <1>1, <2>1
<1>17. ASSUME NEW b \in allocated, FreeCall(b) PROVE PairInv'
  <2>1. pc' # "populate" /\ free_list' = free_list /\ UNCHANGED buddy_arenas
    BY <1>17 DEF FreeCall, RunUnchanged
  <2> QED  BY <1>1, <2>1
<1> QED
  BY <1>3, <1>4, <1>5, <1>6, <1>7, <1>8, <1>9, <1>10, <1>11, <1>12, <1>13, <1>14, <1>15,
     <1>16, <1>17 DEF Next, Step

\* Freeing merges as far as it can, whatever was split or populated before.
THEOREM FreeMergesFully == Spec => []Coalesced
<1>1. Init => PairInv
  BY DEF Init, PairInv, Greedy, NoFreePairs
<1>2. PairInv => Coalesced
  BY DEF PairInv, NoFreePairs, Coalesced, Buddy
<1> QED  BY <1>1, <1>2, Invariance, PairInvInductive, PTL DEF Spec

-----------------------------------------------------------------------------
(* The allocator implements the page pool. *)

\* The pool's state, as PagePool maps it.
Unheld == free_list \cup InFlight
Avail == UNION {Extent(b) : b \in Unheld}
PieceOf(b) == [addr |-> b.addr, size |-> block_size[b.order]]
Held == {PieceOf(b) : b \in allocated}

LEMMA PieceIsExtent ==
  ASSUME NEW b \in Blocks
  PROVE  PagePool!Piece(PieceOf(b)) = Extent(b)
<1>1. PieceOf(b).addr = b.addr /\ PieceOf(b).size = block_size[b.order]
  BY DEF PieceOf
<1>2. PagePool!Piece(PieceOf(b)) = PieceOf(b).addr .. PieceOf(b).addr + PieceOf(b).size - 1
  BY DEF PagePool!Piece
<1>3. BlockEnd(b) = b.addr + block_size[b.order]
  BY DEF BlockEnd
<1>4. b.addr \in Nat /\ block_size[b.order] \in Nat
  BY SizeAssumption DEF Blocks
<1> QED  BY <1>1, <1>2, <1>3, <1>4, SMTT(30) DEF Extent

LEMMA ExtentsApart ==
  ASSUME IInv, NEW b \in AllBlocks, NEW c \in AllBlocks, b # c
  PROVE  Extent(b) \cap Extent(c) = {} /\ PieceOf(b) # PieceOf(c)
<1>1. b \in Blocks /\ c \in Blocks /\ DisjointBlocks(b, c)
  BY DEF IInv, BlocksInArena, PairwiseDisjoint
<1>2. /\ b.addr \in Nat /\ BlockEnd(b) \in Nat /\ b.addr < BlockEnd(b)
      /\ c.addr \in Nat /\ BlockEnd(c) \in Nat /\ c.addr < BlockEnd(c)
  BY <1>1, BlockFacts
<1>3. Extent(b) \cap Extent(c) = {}
  BY <1>1, <1>2, SMTT(30) DEF DisjointBlocks, Extent
<1>4. b.addr # c.addr
  BY <1>1, <1>2, SMTT(30) DEF DisjointBlocks
<1>5. PieceOf(b).addr = b.addr /\ PieceOf(c).addr = c.addr
  BY DEF PieceOf
<1> QED  BY <1>3, <1>4, <1>5

\* A block that leaves the free blocks for a caller is a grant of its extent.
LEMMA HandOutGrants ==
  ASSUME IInv, ~Booting, ~Booting', NEW n \in Unheld,
         Unheld' = Unheld \ {n}, allocated' = allocated \cup {n}
  PROVE  PagePool!Next
<1> DEFINE x == PieceOf(n)
<1>1. n \in AllBlocks /\ n \in Blocks /\ n \notin allocated
  BY DEF Unheld, AllBlocks, IInv, BlocksInArena, OneHome
<1>2. x \notin Held
  BY <1>1, ExtentsApart DEF Held, AllBlocks
<1>3. Held' = Held \cup {x}
  BY DEF Held, PieceOf
<1>4. PagePool!Piece(x) = Extent(n) /\ Extent(n) \subseteq Avail
  BY <1>1, PieceIsExtent DEF Avail
<1>5. Avail' = Avail \ Extent(n)
  <2>1. \A b \in Unheld : b # n => Extent(b) \cap Extent(n) = {}
    BY <1>1, ExtentsApart DEF Unheld, AllBlocks
  <2>2. Avail' = UNION {Extent(b) : b \in Unheld \ {n}}
    BY DEF Avail, Extent, BlockEnd
  <2> QED  BY <2>1, <2>2 DEF Avail
<1>6. PagePool!Grant(x)
  BY <1>3, <1>4, <1>5 DEF PagePool!Grant, Avail, Unheld, Held, PieceOf, Booting
<1>7. x \in Held' \ Held
  BY <1>2, <1>3
<1> QED  BY <1>6, <1>7 DEF PagePool!Next, Held, PieceOf

\* A block that comes back is a release of its extent.
LEMMA GiveBackReleases ==
  ASSUME IInv, ~Booting, ~Booting', NEW n \in allocated,
         Unheld' = Unheld \cup {n}, allocated' = allocated \ {n}
  PROVE  PagePool!Next
<1> DEFINE x == PieceOf(n)
<1>1. n \in AllBlocks /\ n \in Blocks
  BY DEF AllBlocks, IInv, BlocksInArena
<1>2. Held' = Held \ {x}
  <2>1. \A b \in allocated : b # n => PieceOf(b) # x
    BY <1>1, ExtentsApart DEF AllBlocks
  <2>2. Held' = {PieceOf(b) : b \in allocated \ {n}}
    BY DEF Held, PieceOf
  <2> QED  BY <2>1, <2>2 DEF Held
<1>3. PagePool!Piece(x) = Extent(n)
  BY <1>1, PieceIsExtent
<1>4. Avail' = Avail \cup Extent(n)
  <2>1. Avail' = UNION {Extent(b) : b \in Unheld \cup {n}}
    BY DEF Avail, Extent, BlockEnd
  <2> QED  BY <2>1 DEF Avail
<1>5. PagePool!Release(x)
  BY <1>2, <1>3, <1>4 DEF PagePool!Release, Avail, Unheld, Held, PieceOf, Booting
<1>6. x \in Held \ Held'
  BY <1>2 DEF Held
<1> QED  BY <1>5, <1>6 DEF PagePool!Next, Held, PieceOf

\* Before the pool opens it may only grow.
LEMMA BootFills ==
  ASSUME Booting, free_list \subseteq free_list', UNCHANGED allocated
  PROVE  PagePool!Next
<1>1. Avail \subseteq Avail'
  BY DEF Avail, Unheld, InFlight, Booting, Extent, BlockEnd
<1>2. PagePool!Fill
  BY <1>1 DEF PagePool!Fill, Avail, Unheld, Booting
<1> QED  BY <1>2 DEF PagePool!Next

\* The pool does not see a step that rearranges the same bytes.
LEMMA PoolStutters ==
  ASSUME Booting' = Booting, Avail' = Avail, UNCHANGED allocated
  PROVE  UNCHANGED PagePool!pool
BY DEF PagePool!pool, Booting, Avail, Unheld

LEMMA SplitStepStutters ==
  ASSUME IInv, SplitStep
  PROVE  Avail' = Avail
<1> DEFINE s == block_size[order - 1]
           c == Block(arena, order, addr)
           l == Block(arena, order - 1, addr)
           r == Block(arena, order - 1, addr + s)
<1>1. /\ Unheld = free_list \cup {c}
      /\ Unheld' = free_list \cup {l, r}
  BY DEF SplitStep, Unheld, InFlight
<1>2. /\ addr \in Nat /\ order \in Orders /\ order - 1 \in Orders
  BY SizeAssumption, SMTT(30) DEF SplitStep, IInv, TypeOK, LocalsOK, Orders
<1>3. s \in Nat \ {0} /\ block_size[order] = 2 * s
  <2>1. (order - 1) + 1 = order
    BY <1>2, SMTT(30) DEF Orders
  <2>2. /\ block_size[order - 1] \in Nat \ {0}
        /\ block_size[(order - 1) + 1] = 2 * block_size[order - 1]
    BY <1>2, <2>1, SizeAssumption
  <2> QED  BY <2>1, <2>2
<1>4. /\ Extent(c) = addr .. (addr + block_size[order]) - 1
      /\ Extent(l) = addr .. (addr + s) - 1
      /\ Extent(r) = addr + s .. ((addr + s) + s) - 1
  BY DEF Extent, BlockEnd, Block
<1>5. Extent(c) = Extent(l) \cup Extent(r)
  <2> HIDE DEF s, c, l, r
  <2> QED  BY <1>2, <1>3, <1>4, SMTT(30)
<1>6. Avail' = UNION {Extent(b) : b \in free_list \cup {l, r}}
  BY <1>1 DEF Avail, Extent, BlockEnd
<1>7. Avail = UNION {Extent(b) : b \in free_list \cup {c}}
  BY <1>1 DEF Avail
<1> HIDE DEF c, l, r
<1> QED  BY <1>5, <1>6, <1>7

LEMMA CoalesceStepStutters ==
  ASSUME IInv, CoalesceStep
  PROVE  Avail' = Avail
<1> DEFINE x == BuddyOf(addr, order)
           lo == IF x < addr THEN x ELSE addr
           c == Block(arena, order, addr)
           d == Block(arena, order, x)
           m == Block(arena, order + 1, lo)
           s == block_size[order]
<1>1. /\ pc = "coalesce" /\ order < buddy_arenas[arena].max_arena_order /\ d \in free_list
      /\ Unheld = free_list \cup {c}
      /\ Unheld' = (free_list \ {d}) \cup {m}
  BY DEF CoalesceStep, CanMerge, Unheld, InFlight
<1>2. /\ addr \in Nat /\ order \in Orders /\ order + 1 \in Orders
  <2>1. /\ order \in Orders /\ addr \in Nat /\ buddy_arenas[arena].max_arena_order \in Orders
    BY <1>1 DEF IInv, TypeOK, LocalsOK
  <2>2. order < buddy_arenas[arena].max_arena_order
    BY <1>1
  <2> QED  BY <2>1, <2>2, SizeAssumption, SMTT(30) DEF Orders
<1>3. s \in Nat \ {0} /\ block_size[order + 1] = 2 * s
  BY <1>2, SizeAssumption
<1>4. x \in Nat /\ (x = addr + s \/ x = addr - s)
  <2>1. c \in AllBlocks /\ c.addr = addr /\ c.order = order
    BY <1>1 DEF AllBlocks, InFlight, Block
  <2>2. addr % block_size[order] = 0
    BY <2>1 DEF IInv, BlocksAligned
  <2> QED  BY <1>2, <2>2, BuddyOfAligned
<1>5. /\ Extent(c) = addr .. (addr + s) - 1
      /\ Extent(d) = x .. (x + s) - 1
      /\ Extent(m) = lo .. (lo + block_size[order + 1]) - 1
  BY DEF Extent, BlockEnd, Block
<1>6. Extent(m) = Extent(c) \cup Extent(d)
  <2> HIDE DEF s, c, d, m, x
  <2> QED  BY <1>2, <1>3, <1>4, <1>5, SMTT(30)
<1>7. Avail' = UNION {Extent(b) : b \in (free_list \ {d}) \cup {m}}
  BY <1>1 DEF Avail, Extent, BlockEnd
<1>8. Avail = UNION {Extent(b) : b \in free_list \cup {c}}
  BY <1>1 DEF Avail
<1> HIDE DEF c, d, m
<1> QED  BY <1>1, <1>6, <1>7, <1>8

\* Every step of the allocator is a step of the pool, or none.
LEMMA StepsOfThePool == IInv /\ [Next]_vars => [PagePool!Next]_PagePool!pool
<1> SUFFICES ASSUME IInv, [Next]_vars PROVE [PagePool!Next]_PagePool!pool
  OBVIOUS
<1>1. ASSUME Booting' = Booting, Unheld' = Unheld, UNCHANGED allocated
      PROVE  UNCHANGED PagePool!pool
  <2>1. Avail' = Avail
    BY <1>1 DEF Avail, Extent, BlockEnd
  <2> QED  BY <1>1, <2>1, PoolStutters
<1>2. CASE UNCHANGED vars
  <2>1. Booting' = Booting /\ Unheld' = Unheld /\ UNCHANGED allocated
    BY <1>2 DEF vars, locals, Booting, Unheld, InFlight
  <2> QED  BY <1>1, <2>1
<1>3. CASE InitEntry \/ AddArena \/ PopulateBlock \/ PopulateDone
  <2>1. Booting /\ free_list \subseteq free_list' /\ UNCHANGED allocated
    BY <1>3 DEF InitEntry, AddArena, PopulateBlock, PopulateDone, BootUnchanged, Booting
  <2> QED  BY <2>1, BootFills
<1>4. CASE AllocTake
  <2>1. PICK b \in FreeAt(arena, want) : free_list' = free_list \ {b} /\ HandOut(b)
    BY <1>4 DEF AllocTake
  <2>2. /\ b \in Unheld /\ Unheld' = Unheld \ {b} /\ allocated' = allocated \cup {b}
        /\ ~Booting /\ ~Booting'
    BY <1>4, <2>1 DEF AllocTake, FreeAt, HandOut, Return, Unheld, InFlight, Booting
  <2> QED  BY <2>2, HandOutGrants
<1>5. CASE AllocUnlinkLarger
  <2>1. PICK j \in Splittable : \E b \in FreeAt(arena, j) :
          free_list' = free_list \ {b} /\ addr' = b.addr /\ order' = j
    BY <1>5 DEF AllocUnlinkLarger
  <2>2. PICK b \in FreeAt(arena, j) : free_list' = free_list \ {b} /\ addr' = b.addr
    BY <2>1
  <2>3. b = Block(arena, j, b.addr) /\ b \in free_list
    BY DEF FreeAt, IInv, TypeOK, Block, Blocks
  <2>4. /\ pc = "alloc" /\ pc' = "split" /\ arena' = arena /\ order' = j
        /\ UNCHANGED allocated
    BY <1>5, <2>1 DEF AllocUnlinkLarger
  <2>5. Unheld' = Unheld
    BY <2>2, <2>3, <2>4 DEF Unheld, InFlight
  <2> QED  BY <1>1, <2>4, <2>5, SMTT(30) DEF Booting
<1>6. CASE AllocNextArena \/ AllocFail
  BY <1>1, <1>6, SMTT(30) DEF AllocNextArena, AllocFail, Return, Booting, Unheld, InFlight
<1>7. CASE SplitStep
  <2>1. Avail' = Avail
    BY <1>7, SplitStepStutters
  <2>2. Booting' = Booting /\ UNCHANGED allocated
    BY <1>7 DEF SplitStep, Booting
  <2> QED  BY <2>1, <2>2, PoolStutters
<1>8. CASE AllocReturn
  <2> DEFINE c == Block(arena, order, addr)
  <2>1. c \notin free_list
    BY <1>8 DEF AllocReturn, IInv, OneHome, InFlight
  <2>2. /\ c \in Unheld /\ Unheld' = Unheld \ {c} /\ allocated' = allocated \cup {c}
        /\ ~Booting /\ ~Booting'
    BY <1>8, <2>1 DEF AllocReturn, HandOut, Return, Unheld, InFlight, Booting
  <2> QED  BY <2>2, HandOutGrants
<1>9. CASE CoalesceStep
  <2>1. Avail' = Avail
    BY <1>9, CoalesceStepStutters
  <2>2. Booting' = Booting /\ UNCHANGED allocated
    BY <1>9 DEF CoalesceStep, Booting
  <2> QED  BY <2>1, <2>2, PoolStutters
<1>10. CASE FreeLink
  BY <1>1, <1>10, SMTT(30) DEF FreeLink, Return, Booting, Unheld, InFlight
<1>11. ASSUME NEW k \in 0 .. MAX_SUPPORTED_ORDER + 1, AllocCall(k)
       PROVE  UNCHANGED PagePool!pool
  <2>1. Booting' = Booting /\ Unheld' = Unheld /\ UNCHANGED allocated
    BY <1>11, SMTT(30) DEF AllocCall, Booting, Unheld, InFlight
  <2> QED  BY <1>1, <2>1
<1>12. ASSUME NEW b \in allocated, FreeCall(b) PROVE PagePool!Next
  <2>1. b \in AllBlocks /\ b \in Blocks /\ pc = "idle"
    BY <1>12 DEF FreeCall, AllBlocks, IInv, TypeOK
  <2>2. ArenasOf(b.addr) = {b.arena}
    BY <2>1, FreeFindsTheArena DEF Booting
  <2>3. /\ pc' = "coalesce" /\ free_list' = free_list /\ allocated' = allocated \ {b}
        /\ arena' = b.arena /\ addr' = b.addr /\ order' = b.order
    BY <1>12, <2>2 DEF FreeCall
  <2>4. b = Block(arena', order', addr')
    BY <2>1, <2>3 DEF Block, Blocks
  <2>5. Unheld' = Unheld \cup {b} /\ ~Booting /\ ~Booting'
    BY <2>1, <2>3, <2>4 DEF Unheld, InFlight, Booting
  <2> QED  BY <2>3, <2>5, GiveBackReleases
<1> QED
  BY <1>2, <1>3, <1>4, <1>5, <1>6, <1>7, <1>8, <1>9, <1>10, <1>11, <1>12 DEF Next, Step

\* To its callers buddy_alloc_pages and buddy_free_pages are a pool of bytes: a
\* call that succeeds takes one piece of what nobody holds, a free puts exactly
\* that piece back, and nothing else changes what is available.
THEOREM ImplementsPageAllocator == Spec => RefinesPageAllocator
<1>1. Init => PagePool!Init
  BY DEF Init, PagePool!Init, InFlight
<1> QED
  BY <1>1, StepsOfThePool, Invariance, PTL DEF Spec, PagePool!Spec, RefinesPageAllocator
=============================================================================
