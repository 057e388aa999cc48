-------------------------------- MODULE Pmm --------------------------------
(***************************************************************************)
(* pmm.c: kmalloc and kfree on top of a slab cache and of the pool of      *)
(* pages, and pmm_alloc_page / pmm_free_page.  Small requests are objects  *)
(* of the cache (SlabAllocator), whose slabs are pairs of pages; the       *)
(* others, and small ones when the cache has no memory, are blocks of      *)
(* pages with a header and an end magic.  The pool is PageAllocator, which *)
(* BuddyAllocator implements; an address is a page number.                 *)
(*                                                                         *)
(* Of the contents of memory the model keeps what kfree reads: the first   *)
(* word of a page, the size in a header, whether the word after the data   *)
(* is still ALLOC_MAGIC, and the poison in an object.                      *)
(***************************************************************************)
EXTENDS Integers, FiniteSets

CONSTANTS
  PAGE_FRAME_SIZE,
  MAX_SUPPORTED_ORDER,
  SLAB_THRESHOLD,
  HeaderSize,           \* sizeof(struct alloc_header)
  MagicSize,            \* sizeof(uint64_t), the size of the end magic
  MagicCounted,         \* sizeof(uint32_t), what kmalloc adds for it
  Pages,                \* the page numbers of the arena
  Sizes,                \* the sizes asked for
  Objects,              \* positions of the objects in a slab
  SLABS_KEPT            \* empty slabs slab_cache_shrink keeps: 2

\* The largest object is 2048 bytes, so that a slab of two pages holds three; a slab is
\* a block of order 1.
ASSUME PmmAssumption ==
  /\ PAGE_FRAME_SIZE \in Nat \ {0} /\ MAX_SUPPORTED_ORDER \in Nat \ {0}
  /\ HeaderSize \in Nat /\ MagicSize \in Nat /\ MagicCounted \in Nat
  /\ Pages \subseteq Nat /\ Sizes \subseteq Nat \ {0} /\ SLAB_THRESHOLD \in Nat
  /\ IsFiniteSet(Pages) /\ IsFiniteSet(Objects) /\ Cardinality(Objects) >= 2
  /\ SLABS_KEPT \in Nat

VARIABLES
  open, avail, held,    \* the pool of pages
  word,                 \* the first word of a page
  size,                 \* header->size of the block that starts at a page
  end_intact,           \* the blocks whose end magic is in place
  live,                 \* the blocks kmalloc returned and callers hold (ghost)
  raw,                  \* the pages pmm_alloc_page returned (ghost)
  dangling,             \* freed blocks to which a caller has a pointer (ghost)
  lost,                 \* blocks kfree refused to free (ghost)
  overrun,              \* blocks whose holder wrote past the end (ghost)
  misfreed,             \* buddy_free_pages was called for a free block (ghost)
  list, free_list, free_count, total_objects, allocated_objects, total_slabs,
  poisoned, objects, old_objects, refused      \* the cache

pool == <<open, avail, held>>
blocks == <<size, end_intact, live, raw, lost, overrun, misfreed>>
cache == <<list, free_list, free_count, total_objects, allocated_objects, total_slabs,
           poisoned, objects, old_objects, refused>>
vars == <<pool, word, dangling, blocks, cache>>

Pool == INSTANCE PageAllocator

Orders == 0 .. MAX_SUPPORTED_ORDER
Block(b, k) == [addr |-> b, size |-> 2^k]
BlockPages(b, k) == b .. b + 2^k - 1

\* A slab is a block of order 1, named by its first page.
Slabs == {p \in Pages : p % 2 = 0 /\ p + 1 \in Pages}
Cache == INSTANCE SlabAllocator WITH live <- objects, dangling <- old_objects

\* kmalloc's loop: the first order whose blocks hold n bytes (one more than the
\* largest if none does).
OrderFor(n) ==
  CHOOSE k \in 0 .. MAX_SUPPORTED_ORDER + 1 :
    /\ k > MAX_SUPPORTED_ORDER \/ 2^k * PAGE_FRAME_SIZE >= n
    /\ \A j \in 0 .. k - 1 : 2^j * PAGE_FRAME_SIZE < n

order_of_NoHeader(sz) == OrderFor(sz + MagicCounted)

order_of(sz) == OrderFor(HeaderSize + sz + MagicCounted)

\* The end magic of a request of sz bytes reaches past its block.
Spills(sz) == HeaderSize + sz + MagicSize > 2^order_of(sz) * PAGE_FRAME_SIZE

\* The free blocks of the buddy allocator: free pages are coalesced, so these are
\* the maximal aligned blocks.
FreeAt(free, k) ==
  {p \in free :
     /\ p % 2^k = 0 /\ BlockPages(p, k) \subseteq free
     /\ k < MAX_SUPPORTED_ORDER =>
          LET q == p - (p % 2^(k + 1)) IN ~ BlockPages(q, k + 1) \subseteq free}
FreeBlocks(free) == UNION {{Block(p, k) : p \in FreeAt(free, k)} : k \in Orders}

\* buddy_free_pages and the splits of buddy_alloc_pages link a free block: current_order
\* overwrites the first byte of its first page.
Relink_NoOrder(w, free) == w

Relink(w, free) ==
  [p \in Pages |-> IF \E x \in FreeBlocks(free) : x.addr = p THEN "link" ELSE w[p]]

Init ==
  /\ open = TRUE /\ avail = Pages /\ held = {}
  /\ word = Relink([p \in Pages |-> "data"], Pages)
  /\ size = [p \in Pages |-> 0]
  /\ end_intact = {}
  /\ live = {} /\ raw = {} /\ dangling = {} /\ lost = {} /\ overrun = {}
  /\ misfreed = FALSE
  /\ Cache!Init

\* The blocks of order k buddy_alloc_pages may return: the lower end of a smallest
\* free block that is large enough.
Grantable(k) ==
  LET fits == {x \in FreeBlocks(avail) : x.size >= 2^k} IN
  {x.addr : x \in {x \in fits : \A y \in fits : x.size <= y.size}}

-----------------------------------------------------------------------------
(* kmalloc *)

\* The request is one for the slab cache, and the cache can serve it.  (That
\* slab_alloc finds a listed slab without objects, ListsMatchCounts excludes.)
Small(sz) == sz <= SLAB_THRESHOLD
CacheServes == Cache!Usable # {} \/ Grantable(1) # {}

kmalloc_object(sz) ==
  /\ Small(sz)
  /\ \/ Cache!slab_alloc /\ UNCHANGED <<pool, word, dangling>>
     \/ \E s \in Grantable(1) :
          /\ Cache!slab_create(s)
          /\ Pool!Grant(Block(s, 1))
          /\ word' = [Relink(word, avail') EXCEPT ![s] = "slab", ![s + 1] = "data"]
          /\ dangling' = dangling \ BlockPages(s, 1)
  /\ UNCHANGED blocks

\* The rest of kmalloc, when buddy_alloc_pages returns block b.  The end magic may
\* land on the first word of the next page; the new header may land on the end
\* magic of the block before.
kmalloc_block(sz) ==
  LET k == order_of(sz) IN
  /\ ~(Small(sz) /\ CacheServes)
  /\ k < MAX_SUPPORTED_ORDER
  /\ \E b \in Grantable(k) :
       LET after == b + 2^k
           spill == IF Spills(sz) THEN {after} ELSE {}
           before == {c \in end_intact : Spills(size[c]) /\ c + 2^order_of(size[c]) = b}
       IN /\ Pool!Grant(Block(b, k))
          /\ word' = [p \in Pages |-> IF p = b THEN "alloc"
                                      ELSE IF p \in spill \/ p \in BlockPages(b, k) THEN "data"
                                      ELSE Relink(word, avail')[p]]
          /\ size' = [size EXCEPT ![b] = sz]
          /\ end_intact' = (end_intact \ (before \cup BlockPages(b, k))) \cup {b}
          /\ live' = live \cup {b}
          /\ dangling' = dangling \ BlockPages(b, k)
  /\ UNCHANGED <<raw, lost, overrun, misfreed, cache>>

\* kmalloc refuses: the order is too large, or the buddy allocator has no block.
kmalloc_fails(sz) ==
  /\ ~(Small(sz) /\ CacheServes)
  /\ order_of(sz) >= MAX_SUPPORTED_ORDER \/ Grantable(order_of(sz)) = {}
  /\ UNCHANGED vars

\* The caller may leave the page's first word alone.
pmm_alloc_page ==
  /\ \E b \in Grantable(0) :
       /\ Pool!Grant(Block(b, 0))
       /\ word' \in {Relink(word, avail'), [Relink(word, avail') EXCEPT ![b] = "data"]}
       /\ raw' = raw \cup {b}
       /\ dangling' = dangling \ {b}
  /\ UNCHANGED <<size, end_intact, live, lost, overrun, misfreed, cache>>

pmm_free_page(b) ==
  /\ b \in raw
  /\ Pool!Release(Block(b, 0))
  /\ word' = Relink(word, avail')
  /\ raw' = raw \ {b}
  /\ UNCHANGED <<size, end_intact, live, dangling, lost, overrun, misfreed, cache>>

-----------------------------------------------------------------------------
(* kfree *)

\* slab_find_containing, for the pointer into block b and for one into slab s: the
\* pair of pages around it starts with SLAB_MAGIC, and the pointer is past the slab
\* header (the pointer into an even page is not: HeaderSize < sizeof(struct slab)).
FindsSlab(b) == b % 2 = 1 /\ b - 1 \in Pages /\ word[b - 1] = "slab"
FindsOwnSlab(s) == word[s] = "slab"

\* The two magics are what kmalloc wrote.
Uncorrupted(b) == word[b] = "alloc" /\ b \in end_intact

\* The last part of kfree.  The size in the header is overwritten by the link or
\* never read again.
FreedBlock(b) == Block(b, order_of(size[b]))

Release(b) ==
  /\ Pool!Release(FreedBlock(b))
  /\ word' = Relink([word EXCEPT ![b] = "freed"], avail')
  /\ size' = [size EXCEPT ![b] = 0] /\ end_intact' = end_intact \ {b}
  /\ dangling' = dangling \cup {b}
  /\ misfreed' = (misfreed \/ Block(b, order_of(size[b])) \notin held)

\* kfree of a block the caller holds.
kfree_block(b) ==
  /\ b \in live
  /\ live' = live \ {b}
  /\ IF ~FindsSlab(b) /\ word[b] # "freed" /\ Uncorrupted(b)
       THEN Release(b) /\ UNCHANGED lost
       ELSE lost' = lost \cup {b} /\ UNCHANGED <<pool, word, size, end_intact, dangling, misfreed>>
  /\ UNCHANGED <<raw, overrun, cache>>

\* kfree of a block that has been freed and not been handed out since.  The word
\* taken for the end magic is any word: linking has overwritten the size.
Accepted_Trusting(b) == word[b] # "freed"

Accepted(b) == word[b] = "alloc"

kfree_block_again(b) ==
  /\ b \in dangling
  /\ IF Accepted(b) THEN Release(b)
                    ELSE UNCHANGED <<pool, word, size, end_intact, dangling, misfreed>>
  /\ UNCHANGED <<live, raw, lost, overrun, cache>>

\* kfree of an object the caller holds, or has freed before.
kfree_object(s, o) ==
  /\ FindsOwnSlab(s)
  /\ Cache!kfree(s, o) \/ Cache!kfree_again(s, o)
  /\ UNCHANGED <<pool, word, dangling, blocks>>

\* slab_cache_shrink gives the pages of the slabs it destroys back to the pool.
slab_cache_shrink(gone) ==
  /\ Cache!slab_cache_shrink(gone)
  /\ avail' = avail \cup UNION {BlockPages(s, 1) : s \in gone}
  /\ held' = held \ {Block(s, 1) : s \in gone}
  /\ word' = Relink(word, avail')
  /\ UNCHANGED <<open, dangling, blocks>>

\* What callers do: write data to an object, or past the end of a block.
Write(s, o) == Cache!Write(s, o) /\ UNCHANGED <<pool, word, dangling, blocks>>

Overrun(b) ==
  /\ b \in live
  /\ end_intact' = end_intact \ {b}
  /\ overrun' = overrun \cup {b}
  /\ UNCHANGED <<pool, word, size, live, raw, dangling, lost, misfreed, cache>>

Next ==
  \/ \E sz \in Sizes : kmalloc_object(sz) \/ kmalloc_block(sz) \/ kmalloc_fails(sz)
  \/ pmm_alloc_page
  \/ \E b \in Pages :
       pmm_free_page(b) \/ kfree_block(b) \/ kfree_block_again(b) \/ Overrun(b)
  \/ \E s \in Slabs, o \in Objects : kfree_object(s, o) \/ Write(s, o)
  \/ \E gone \in SUBSET Slabs : slab_cache_shrink(gone)

Spec == Init /\ [][Next]_vars

-----------------------------------------------------------------------------
(* Properties *)

TypeOK ==
  /\ open = TRUE /\ avail \subseteq Pages
  /\ held \subseteq [addr : Pages, size : {2^k : k \in Orders}]
  /\ word \in [Pages -> {"alloc", "freed", "link", "data", "slab"}]
  /\ size \in [Pages -> Sizes \cup {0}]
  /\ end_intact \subseteq Pages
  /\ live \subseteq Pages /\ raw \subseteq Pages /\ dangling \subseteq Pages
  /\ lost \subseteq Pages /\ overrun \subseteq Pages
  /\ misfreed \in BOOLEAN
  /\ Cache!TypeOK

\* What kfree, pmm_free_page and slab_destroy give back is what was granted: each
\* page is available, or in a slab, or in exactly one block that a caller holds or
\* kfree has refused; a second kfree of a block gives nothing back, whatever the
\* buddy allocator has written over its header.
EveryPageAccounted ==
  /\ held = {Block(b, 0) : b \in raw} \cup {Block(b, order_of(size[b])) : b \in live \cup lost}
              \cup {Block(s, 1) : s \in Cache!InUse}
  /\ avail = Pages \ UNION {Pool!Piece(x) : x \in held}
  /\ \A x, y \in held : x # y => Pool!Piece(x) \cap Pool!Piece(y) = {}
  /\ ~misfreed

\* kfree has only the pointer to tell an object from a block: slab_find_containing
\* finds a slab for every object a caller holds, and never takes the header of a
\* slab that was destroyed, or of the pages next to a block, for the block's slab.
KfreeFindsTheOwner ==
  /\ \A b \in live : ~FindsSlab(b)
  /\ \A p \in objects : FindsOwnSlab(p[1])

\* kfree refuses a block a caller holds exactly when its holder wrote past its end:
\* such a block never goes back to the pool, where it and its damaged neighbour would
\* be handed out again; and the data and both magics of every other block fit in it,
\* so that no kmalloc makes kfree refuse the block of a caller who stayed in bounds.
RefusedIffOverrun == lost \subseteq overrun /\ \A b \in overrun : b \notin avail

\* pmm.h says of FREED_PATTERN: "We detect double free with this".  A double free
\* of a page block is reported as corruption instead wherever the buddy allocator
\* has linked the block, because the link overwrites the pattern.
DoubleFreeRecognised == \A b \in dangling : word[b] = "freed"

\* A slab is on the list its free objects call for, no object is free and taken at
\* once, and the totals slab_alloc, slab_free and slab_destroy keep are exact, whatever
\* is allocated, freed (also twice) and shrunk (see SlabAllocator).
CacheConsistent == Cache!ListsMatchCounts /\ Cache!ObjectsPartitioned /\ Cache!StatisticsExact

\* kfree refuses no object that was not freed twice (see SlabAllocator).
FirstFreeAccepted == Cache!FirstFreeAccepted
=============================================================================
