--------------------------- MODULE BuddyAllocator ---------------------------
(***************************************************************************)
(* The physical page allocator, buddy_allocator.c: the boot-time loop that *)
(* turns the memory map into arenas of power-of-two blocks, and            *)
(* buddy_alloc_pages / buddy_free_pages.  One call runs at a time here     *)
(* (SlabSmp.tla is about the callers' locks); every loop iteration of the  *)
(* code is one action, so that no definition is recursive.                 *)
(*                                                                         *)
(* A linked list free_list[k] of an arena is the set of the blocks linked  *)
(* on it: the code only ever takes "the head", and no property depends on  *)
(* which block that is, so the model takes any.                            *)
(***************************************************************************)
EXTENDS Integers, Sequences

CONSTANTS
  PAGE_FRAME_SIZE,      \* bytes in a page frame
  MAX_SUPPORTED_ORDER,  \* the largest order of a block
  MAX_BUDDY_ARENAS,     \* length of the array buddy_arenas
  block_size,           \* block_size[k] is (1ULL << k) * PAGE_FRAME_SIZE
  MemMaps               \* the memory maps the boot loader may report

Orders == 0 .. MAX_SUPPORTED_ORDER
Arenas == 0 .. MAX_BUDDY_ARENAS - 1
Entries == [usable : BOOLEAN, base : Nat, length : Nat \ {0}]

\* What the compile-time constants are.
ASSUME SizeAssumption ==
  /\ PAGE_FRAME_SIZE \in Nat \ {0}
  /\ MAX_SUPPORTED_ORDER \in Nat
  /\ MAX_BUDDY_ARENAS \in Nat \ {0, 1}
  /\ block_size \in [Orders -> Nat \ {0}]
  /\ block_size[0] = PAGE_FRAME_SIZE
  /\ \A k \in Orders : k + 1 \in Orders => block_size[k + 1] = 2 * block_size[k]

\* What the boot protocol promises of a memory map: entries come in ascending
\* order, and a usable entry overlaps no other entry.
ASSUME MemMapAssumption ==
  \A m \in MemMaps :
    /\ m \in Seq(Entries)
    /\ \A i, j \in DOMAIN m :
         i < j /\ (m[i].usable \/ m[j].usable) =>
           m[i].base + m[i].length <= m[j].base

VARIABLES
  memmap,               \* the memory map of this boot
  entry_idx,            \* index of the entry buddy_allocator_init looks at
  buddy_arena_counter,
  buddy_arenas,         \* base, length and max_arena_order of each arena
  free_list,            \* the blocks linked on some free list of some arena
  allocated,            \* the blocks handed out and not given back (ghost)
  pc,                   \* what the allocator is doing
  arena,                \* the running call's locals: the arena it works on,
  addr,                 \*   the block it holds, unlinked from every list,
  order,                \*   the order of that block,
  want                  \*   and the order asked for

locals == <<arena, addr, order, want>>
vars == <<memmap, entry_idx, buddy_arena_counter, buddy_arenas, free_list,
          allocated, pc, locals>>

\* A block remembers the arena on whose lists it is, or from which it came.
Block(i, k, a) == [arena |-> i, order |-> k, addr |-> a]
Blocks == [arena : Arenas, order : Orders, addr : Nat]
BlockEnd(b) == b.addr + block_size[b.order]

FreeAt(i, k) == {b \in free_list : b.arena = i /\ b.order = k}

\* (x + PAGE_FRAME_SIZE - 1) & ~(PAGE_FRAME_SIZE - 1)
PageAlignUp(x) ==
  ((x + PAGE_FRAME_SIZE - 1) \div PAGE_FRAME_SIZE) * PAGE_FRAME_SIZE

\* a ^ block_size[k]: a single bit of the address is flipped.
BuddyOf(a, k) ==
  IF (a \div block_size[k]) % 2 = 0 THEN a + block_size[k] ELSE a - block_size[k]

Init ==
  /\ memmap \in MemMaps
  /\ entry_idx = 1
  /\ buddy_arena_counter = 0
  /\ buddy_arenas = [i \in Arenas |-> [base |-> 0, length |-> 0, max_arena_order |-> 0]]
  /\ free_list = {}
  /\ allocated = {}
  /\ pc = "init"
  /\ arena = 0 /\ addr = 0 /\ order = 0 /\ want = 0

\* The call returns: its locals are dead.
Return ==
  /\ pc' = "idle"
  /\ arena' = 0 /\ addr' = 0 /\ order' = 0 /\ want' = 0

-----------------------------------------------------------------------------
(* Boot: buddy_allocator_init, add_buddy_arena, populate_buddy_blocks. *)

\* The base and the length add_buddy_arena computes.  A zero base is moved up
\* by a page and the length is left as it is.
EntryBase(e) == IF e.base = 0 THEN e.base + PAGE_FRAME_SIZE ELSE e.base
ArenaBase(e) == PageAlignUp(EntryBase(e))
ArenaLength(e) == EntryBase(e) + e.length - ArenaBase(e)
IsMaxOrder(k, len) ==
  /\ block_size[k] <= len
  /\ \A l \in Orders : block_size[l] <= len => l <= k

BootUnchanged == UNCHANGED <<memmap, allocated, free_list>>

SkipEntry ==
  /\ entry_idx' = entry_idx + 1
  /\ UNCHANGED <<buddy_arenas, pc, locals>>

\* The first usable entry: add_buddy_arena counts it and reports success, and
\* the caller counts it once more.
InitFirstArena_NoSkip ==
  /\ UNCHANGED <<buddy_arena_counter, buddy_arenas, entry_idx, locals>>
  /\ pc' = "add"

InitFirstArena ==
  /\ buddy_arena_counter' = buddy_arena_counter + 2
  /\ SkipEntry

\* One iteration of the loop over the memory map, up to add_buddy_arena's
\* decision on the entry.
InitEntry ==
  /\ pc = "init"
  /\ BootUnchanged
  /\ \/ /\ entry_idx > Len(memmap)
        /\ Return
        /\ UNCHANGED <<entry_idx, buddy_arena_counter, buddy_arenas>>
     \/ /\ entry_idx <= Len(memmap)
        /\ ~memmap[entry_idx].usable
        /\ SkipEntry
        /\ UNCHANGED buddy_arena_counter
     \/ /\ entry_idx <= Len(memmap)
        /\ memmap[entry_idx].usable
        /\ buddy_arena_counter >= MAX_BUDDY_ARENAS
        /\ Return
        /\ UNCHANGED <<entry_idx, buddy_arena_counter, buddy_arenas>>
     \/ /\ entry_idx <= Len(memmap)
        /\ memmap[entry_idx].usable
        /\ buddy_arena_counter = 0
        /\ InitFirstArena
     \/ /\ entry_idx <= Len(memmap)
        /\ memmap[entry_idx].usable
        /\ buddy_arena_counter \in 1 .. MAX_BUDDY_ARENAS - 1
        /\ pc' = "add"
        /\ UNCHANGED <<entry_idx, buddy_arena_counter, buddy_arenas, locals>>

\* The rest of add_buddy_arena: refuse the entry, or set up the arena and start
\* to populate it.
AddArena ==
  /\ pc = "add"
  /\ BootUnchanged
  /\ LET e == memmap[entry_idx] IN
     \/ /\ ArenaLength(e) < PAGE_FRAME_SIZE
        /\ entry_idx' = entry_idx + 1
        /\ pc' = "init"
        /\ UNCHANGED <<buddy_arena_counter, buddy_arenas, locals>>
     \/ /\ ArenaLength(e) >= PAGE_FRAME_SIZE
        /\ \E k \in Orders :
             /\ IsMaxOrder(k, ArenaLength(e))
             /\ buddy_arenas' = [buddy_arenas EXCEPT ![buddy_arena_counter] =
                  [base |-> ArenaBase(e), length |-> ArenaLength(e), max_arena_order |-> k]]
        /\ pc' = "populate"
        /\ arena' = buddy_arena_counter
        /\ addr' = ArenaBase(e)
        /\ UNCHANGED <<entry_idx, buddy_arena_counter, order, want>>

ArenaEnd(i) == buddy_arenas[i].base + buddy_arenas[i].length

\* The orders the populating loop may use at an address: the block fits in what
\* remains and is aligned to its size.
Fitting(a) ==
  {k \in 0 .. buddy_arenas[arena].max_arena_order :
     block_size[k] <= ArenaEnd(arena) - a /\ a % block_size[k] = 0}

\* One iteration of populate_buddy_blocks' while loop.  The code's branch for
\* "no order fits" would loop forever; here it would be a deadlock.
PopulateBlock ==
  /\ pc = "populate"
  /\ ArenaEnd(arena) - addr >= PAGE_FRAME_SIZE
  /\ \E k \in Fitting(addr) :
       /\ \A l \in Fitting(addr) : l <= k
       /\ free_list' = free_list \cup {Block(arena, k, addr)}
       /\ addr' = addr + block_size[k]
  /\ UNCHANGED <<memmap, entry_idx, buddy_arena_counter, buddy_arenas, allocated,
                 pc, arena, order, want>>

\* Less than a page is left: back to the loop over the memory map.
PopulateDone ==
  /\ pc = "populate"
  /\ ArenaEnd(arena) - addr < PAGE_FRAME_SIZE
  /\ buddy_arena_counter' = buddy_arena_counter + 1
  /\ entry_idx' = entry_idx + 1
  /\ pc' = "init"
  /\ arena' = 0 /\ addr' = 0
  /\ UNCHANGED <<memmap, buddy_arenas, free_list, allocated, order, want>>

-----------------------------------------------------------------------------
(* buddy_alloc_pages *)

RunUnchanged == UNCHANGED <<memmap, entry_idx, buddy_arena_counter, buddy_arenas>>

\* The call; an order above the maximum is answered with 0 at once.
AllocCall(k) ==
  /\ pc = "idle"
  /\ IF k > MAX_SUPPORTED_ORDER
       THEN UNCHANGED <<pc, want>>
       ELSE pc' = "alloc" /\ want' = k
  /\ UNCHANGED <<free_list, allocated, arena, addr, order>>
  /\ RunUnchanged

\* The block b is unlinked and returned to the caller.
HandOut(b) ==
  /\ allocated' = allocated \cup {b}
  /\ Return

\* The arena has a block of exactly the order asked for.
AllocTake ==
  /\ pc = "alloc"
  /\ arena < buddy_arena_counter
  /\ \E b \in FreeAt(arena, want) :
       /\ free_list' = free_list \ {b}
       /\ HandOut(b)
  /\ RunUnchanged

\* The orders from which the arena can split a block of the order asked for.
Splittable_BelowMax ==
  {j \in want + 1 .. buddy_arenas[arena].max_arena_order - 1 : FreeAt(arena, j) # {}}

Splittable ==
  {j \in want + 1 .. buddy_arenas[arena].max_arena_order : FreeAt(arena, j) # {}}

\* It has a larger one: the smallest such block is unlinked, to be split.
AllocUnlinkLarger ==
  /\ pc = "alloc"
  /\ arena < buddy_arena_counter
  /\ FreeAt(arena, want) = {}
  /\ \E j \in Splittable :
       /\ \A l \in Splittable : j <= l
       /\ \E b \in FreeAt(arena, j) :
            /\ free_list' = free_list \ {b}
            /\ addr' = b.addr
       /\ order' = j
  /\ pc' = "split"
  /\ UNCHANGED <<allocated, arena, want>>
  /\ RunUnchanged

\* It has neither: the next arena.
AllocNextArena_Stuck ==
  /\ pc = "alloc"
  /\ arena < buddy_arena_counter
  /\ FreeAt(arena, want) = {}
  /\ Splittable = {}
  /\ UNCHANGED vars

AllocNextArena ==
  /\ pc = "alloc"
  /\ arena < buddy_arena_counter
  /\ FreeAt(arena, want) = {}
  /\ Splittable = {}
  /\ arena' = arena + 1
  /\ UNCHANGED <<free_list, allocated, pc, addr, order, want>>
  /\ RunUnchanged

\* No arena is left: return 0.
AllocFail ==
  /\ pc = "alloc"
  /\ arena = buddy_arena_counter
  /\ Return
  /\ UNCHANGED <<free_list, allocated>>
  /\ RunUnchanged

\* One iteration of the splitting loop: the right half is linked one order
\* lower, the left half is kept.
SplitStep_NoLink ==
  /\ pc = "split"
  /\ order > want
  /\ order' = order - 1
  /\ UNCHANGED <<free_list, allocated, pc, arena, addr, want>>
  /\ RunUnchanged

SplitStep ==
  /\ pc = "split"
  /\ order > want
  /\ free_list' = free_list \cup {Block(arena, order - 1, addr + block_size[order - 1])}
  /\ order' = order - 1
  /\ UNCHANGED <<allocated, pc, arena, addr, want>>
  /\ RunUnchanged

AllocReturn ==
  /\ pc = "split"
  /\ order = want
  /\ HandOut(Block(arena, order, addr))
  /\ UNCHANGED free_list
  /\ RunUnchanged

-----------------------------------------------------------------------------
(* buddy_free_pages *)

\* The arenas whose range contains an address.
ArenasOf(a) ==
  {i \in 0 .. buddy_arena_counter - 1 : buddy_arenas[i].base <= a /\ a < ArenaEnd(i)}

\* The call, up to the choice of the arena: the first that contains the
\* address.  With none, the code reports an error and the block is lost.
FreeCall(b) ==
  /\ pc = "idle"
  /\ b \in allocated
  /\ allocated' = allocated \ {b}
  /\ IF ArenasOf(b.addr) = {}
       THEN UNCHANGED <<pc, locals>>
       ELSE /\ \E i \in ArenasOf(b.addr) : (\A j \in ArenasOf(b.addr) : i <= j) /\ arena' = i
            /\ addr' = b.addr
            /\ order' = b.order
            /\ pc' = "coalesce"
            /\ UNCHANGED want
  /\ UNCHANGED free_list
  /\ RunUnchanged

\* Is the buddy of the block being freed on the list of its order?
CanMerge_StopsEarly ==
  /\ order + 1 < buddy_arenas[arena].max_arena_order
  /\ Block(arena, order, BuddyOf(addr, order)) \in free_list

CanMerge ==
  /\ order < buddy_arenas[arena].max_arena_order
  /\ Block(arena, order, BuddyOf(addr, order)) \in free_list

\* One iteration of the coalescing loop: the buddy is unlinked and the lower
\* of the two addresses becomes a block of the next order.
CoalesceStep_KeepsBuddy ==
  /\ pc = "coalesce"
  /\ CanMerge
  /\ addr' = IF BuddyOf(addr, order) < addr THEN BuddyOf(addr, order) ELSE addr
  /\ order' = order + 1
  /\ UNCHANGED <<free_list, allocated, pc, arena, want>>
  /\ RunUnchanged

CoalesceStep_KeepsAddress ==
  /\ pc = "coalesce"
  /\ CanMerge
  /\ free_list' = free_list \ {Block(arena, order, BuddyOf(addr, order))}
  /\ order' = order + 1
  /\ UNCHANGED <<allocated, pc, arena, addr, want>>
  /\ RunUnchanged

CoalesceStep ==
  /\ pc = "coalesce"
  /\ CanMerge
  /\ free_list' = free_list \ {Block(arena, order, BuddyOf(addr, order))}
  /\ addr' = IF BuddyOf(addr, order) < addr THEN BuddyOf(addr, order) ELSE addr
  /\ order' = order + 1
  /\ UNCHANGED <<allocated, pc, arena, want>>
  /\ RunUnchanged

\* No buddy to merge with: the block is linked and the call returns.
FreeLink ==
  /\ pc = "coalesce"
  /\ ~CanMerge
  /\ free_list' = free_list \cup {Block(arena, order, addr)}
  /\ Return
  /\ UNCHANGED allocated
  /\ RunUnchanged

-----------------------------------------------------------------------------

\* What the allocator does by itself, once it has been called.
Step ==
  \/ InitEntry \/ AddArena \/ PopulateBlock \/ PopulateDone
  \/ AllocTake \/ AllocUnlinkLarger \/ AllocNextArena \/ AllocFail
  \/ SplitStep \/ AllocReturn
  \/ CoalesceStep \/ FreeLink

\* Callers ask for any order, and give back what they hold.
Next ==
  \/ Step
  \/ \E k \in 0 .. MAX_SUPPORTED_ORDER + 1 : AllocCall(k)
  \/ \E b \in allocated : FreeCall(b)

Spec == Init /\ [][Next]_vars

\* A processor inside the allocator keeps executing: it runs with interrupts
\* off (spinlock_lock_intsave in pmm.c), so nothing preempts it.
FairSpec == Spec /\ WF_vars(Step)

-----------------------------------------------------------------------------
(* Properties *)

TypeOK ==
  /\ memmap \in MemMaps
  /\ entry_idx \in Nat \ {0}
  /\ buddy_arena_counter \in 0 .. MAX_BUDDY_ARENAS
  /\ buddy_arenas \in [Arenas -> [base : Nat, length : Nat, max_arena_order : Orders]]
  /\ free_list \subseteq Blocks
  /\ allocated \subseteq Blocks
  /\ pc \in {"init", "add", "populate", "idle", "alloc", "split", "coalesce"}
  /\ arena \in Nat
  /\ addr \in Nat
  /\ order \in Orders
  /\ want \in Orders

\* The block a running call has unlinked, if any.
InFlight == IF pc \in {"split", "coalesce"} THEN {Block(arena, order, addr)} ELSE {}
AllBlocks == free_list \cup allocated \cup InFlight

DisjointBlocks(b, c) == BlockEnd(b) <= c.addr \/ BlockEnd(c) <= b.addr

\* A block is in one place: on a free list, with a caller, or in the hands of
\* the running call.
OneHome ==
  /\ free_list \cap allocated = {}
  /\ InFlight \cap (free_list \cup allocated) = {}

PairwiseDisjoint == \A b, c \in AllBlocks : b # c => DisjointBlocks(b, c)

\* Two blocks never share a byte, whether they are free, handed out, or held by
\* the running split or merge: buddy_alloc_pages never gives a page to two
\* callers, and no free list holds a page some caller owns.
NoOverlap == OneHome /\ PairwiseDisjoint

\* Splitting and merging lose no page: each page of an arena that has been set
\* up belongs to some block (while populate_buddy_blocks runs, each page below
\* its cursor does).
NoPageLost ==
  \A i \in Arenas :
    \A p \in buddy_arenas[i].base .. ArenaEnd(i) - PAGE_FRAME_SIZE :
      (pc = "populate" /\ i = arena => p < addr) =>
        \E b \in AllBlocks : b.arena = i /\ b.addr <= p /\ p < BlockEnd(b)

\* Every block lies inside one usable entry of the memory map, although the
\* code moves a zero base up without shortening the entry: the skipped first
\* arena hides that.  No block starts at 0, the value that means failure.
BlocksAreUsableMemory ==
  \A b \in AllBlocks :
    /\ b.addr # 0
    /\ \E e \in DOMAIN memmap :
         /\ memmap[e].usable
         /\ memmap[e].base <= b.addr
         /\ BlockEnd(b) <= memmap[e].base + memmap[e].length

\* A block is aligned to its size: the slab allocator finds a slab by masking
\* an object's address, which needs this of order 1.
BlocksAligned == \A b \in AllBlocks : b.addr % block_size[b.order] = 0

\* Between calls, two free buddies of an order below the arena's maximum never
\* coexist: freeing merges as far as it can, also across earlier splits.
Coalesced ==
  pc = "idle" =>
    \A b \in free_list :
      b.order < buddy_arenas[b.arena].max_arena_order =>
        Block(b.arena, b.order, BuddyOf(b.addr, b.order)) \notin free_list

\* buddy_alloc_pages answers 0 only when no arena has a free block of the
\* order asked for or of a larger one.
FailsOnlyWhenExhausted ==
  pc = "alloc" /\ arena = buddy_arena_counter => \A b \in free_list : b.order < want

\* Every call of the allocator, and the boot loop, finishes.
CallsReturn == (pc # "idle") ~> (pc = "idle")

\* To its callers the allocator is the page pool of PageAllocator.tla.
Extent(b) == b.addr .. BlockEnd(b) - 1
PagePool == INSTANCE PageAllocator WITH
  open <- pc \notin {"init", "add", "populate"},
  avail <- UNION {Extent(b) : b \in free_list \cup InFlight},
  held <- {[addr |-> b.addr, size |-> block_size[b.order]] : b \in allocated}
RefinesPageAllocator == PagePool!Spec
=============================================================================
