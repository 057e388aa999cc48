---------------------------- MODULE SlabAllocator ----------------------------
(***************************************************************************)
(* One slab cache of slab_allocator.c with the slab path of kfree (pmm.c): *)
(* slabs of OBJECTS_PER_SLAB objects, moved between the full, partial and  *)
(* empty lists as objects are taken and given back, and the poison word    *)
(* kfree uses to recognise a double free.  Pmm.tla gives it its pages; the *)
(* caches of the different sizes share nothing else.                       *)
(*                                                                         *)
(* The calls run one at a time (SlabSmp.tla is about the locks).  As in    *)
(* BuddyAllocator a linked list is the set of its members: the code takes  *)
(* the head, the model takes any.                                          *)
(***************************************************************************)
EXTENDS Integers, FiniteSets

CONSTANTS
  Slabs,             \* the pairs of pages buddy_alloc_pages(1) may return
  Objects,           \* positions of the objects in a slab
  SLABS_KEPT         \* empty slabs slab_cache_shrink keeps: 2

OBJECTS_PER_SLAB == Cardinality(Objects)

VARIABLES
  list,               \* the members of the lists full, partial and empty
  free_list,          \* of each slab
  free_count,         \* of each slab
  total_objects, allocated_objects, total_slabs,
  poisoned,           \* the objects whose first word is OBJECT_POISON
  live,               \* the objects callers hold (ghost)
  dangling,           \* freed objects to which a caller still has a pointer (ghost)
  refused             \* objects kfree refused although they were live (ghost)

vars == <<list, free_list, free_count, total_objects, allocated_objects, total_slabs,
          poisoned, live, dangling, refused>>

Lists == {"full", "partial", "empty"}
InUse == list["full"] \cup list["partial"] \cup list["empty"]
ObjectsOf(s) == {s} \X Objects

Init ==
  /\ list = [l \in Lists |-> {}]
  /\ free_list = [s \in Slabs |-> {}]
  /\ free_count = [s \in Slabs |-> 0]
  /\ total_objects = 0 /\ allocated_objects = 0 /\ total_slabs = 0
  /\ poisoned = {} /\ live = {} /\ dangling = {} /\ refused = {}

\* slab_remove_from_list: the first list that has the slab, if any.
slab_remove_from_list(ls, s) ==
  IF s \in ls["partial"] THEN [ls EXCEPT !["partial"] = @ \ {s}]
  ELSE IF s \in ls["full"] THEN [ls EXCEPT !["full"] = @ \ {s}]
  ELSE [ls EXCEPT !["empty"] = @ \ {s}]

MoveTo(ls, s, l) == [slab_remove_from_list(ls, s) EXCEPT ![l] = @ \cup {s}]

\* Where slab_alloc puts a slab whose count has dropped to n.
ListAfterAlloc(ls, s, n) ==
  IF n = 0 THEN MoveTo(ls, s, "full")
  ELSE IF n = OBJECTS_PER_SLAB - 1 THEN MoveTo(ls, s, "partial")
  ELSE ls

\* Where slab_free puts a slab whose count has risen to n.
ListAfterFree(ls, s, n) ==
  IF n = 1 THEN MoveTo(ls, s, "partial")
  ELSE IF n = OBJECTS_PER_SLAB THEN MoveTo(ls, s, "empty")
  ELSE ls

\* The second half of slab_alloc, on slab s of the lists ls.  With an empty free
\* list the code reports an error and returns NULL.
TakeObject(ls, fl, fc, s) ==
  IF fl[s] = {}
    THEN /\ list' = ls /\ free_list' = fl /\ free_count' = fc
         /\ UNCHANGED <<allocated_objects, live, dangling>>
    ELSE \E o \in fl[s] :
           /\ free_list' = [fl EXCEPT ![s] = @ \ {o}]
           /\ free_count' = [fc EXCEPT ![s] = @ - 1]
           /\ allocated_objects' = allocated_objects + 1
           /\ list' = ListAfterAlloc(ls, s, fc[s] - 1)
           /\ live' = live \cup {<<s, o>>}
           /\ dangling' = dangling \ {<<s, o>>}

\* slab_alloc on a slab of the cache: a partial one, or else an empty one.
Usable == IF list["partial"] # {} THEN list["partial"] ELSE list["empty"]

slab_alloc ==
  /\ \E s \in Usable : TakeObject(list, free_list, free_count, s)
  /\ UNCHANGED <<total_objects, total_slabs, poisoned, refused>>

\* slab_create and then slab_alloc's second half.  The objects' first words
\* are what the pages held before: those a former slab poisoned may still be.
slab_create(s) ==
  /\ Usable = {} /\ s \notin InUse
  /\ TakeObject([list EXCEPT !["empty"] = @ \cup {s}],
                [free_list EXCEPT ![s] = Objects],
                [free_count EXCEPT ![s] = OBJECTS_PER_SLAB], s)
  /\ poisoned' \in {poisoned, poisoned \ ObjectsOf(s)}
  /\ total_slabs' = total_slabs + 1
  /\ total_objects' = total_objects + OBJECTS_PER_SLAB
  /\ UNCHANGED refused

\* slab_free
slab_free(s, o) ==
  /\ poisoned' = poisoned \cup {<<s, o>>}
  /\ free_list' = [free_list EXCEPT ![s] = @ \cup {o}]
  /\ free_count' = [free_count EXCEPT ![s] = @ + 1]
  /\ allocated_objects' = allocated_objects - 1
  /\ list' = ListAfterFree(list, s, free_count[s] + 1)
  /\ dangling' = dangling \cup {<<s, o>>}

\* kfree of an object the caller holds.
kfree(s, o) ==
  /\ <<s, o>> \in live
  /\ live' = live \ {<<s, o>>}
  /\ \/ /\ <<s, o>> \in poisoned
        /\ refused' = refused \cup {<<s, o>>}
        /\ UNCHANGED <<list, free_list, free_count, allocated_objects, poisoned, dangling>>
     \/ /\ <<s, o>> \notin poisoned
        /\ slab_free(s, o)
        /\ UNCHANGED refused
  /\ UNCHANGED <<total_objects, total_slabs>>

\* A second kfree of the same pointer, before the object is handed out again.
kfree_again(s, o) ==
  /\ <<s, o>> \in dangling
  /\ IF <<s, o>> \in poisoned
       THEN UNCHANGED <<list, free_list, free_count, allocated_objects, poisoned, dangling>>
       ELSE slab_free(s, o)
  /\ UNCHANGED <<total_objects, total_slabs, live, refused>>

\* The holder of an object writes data to it.
Write(s, o) ==
  /\ <<s, o>> \in live
  /\ poisoned' = poisoned \ {<<s, o>>}
  /\ UNCHANGED <<list, free_list, free_count, total_objects, allocated_objects, total_slabs,
                 live, dangling, refused>>

\* slab_cache_shrink, with the slab_destroy of each empty slab that is not kept.
DestroyAll(gone) ==
  /\ free_list' = [s \in Slabs |-> IF s \in gone THEN {} ELSE free_list[s]]
  /\ free_count' = [s \in Slabs |-> IF s \in gone THEN 0 ELSE free_count[s]]
  /\ total_slabs' = total_slabs - Cardinality(gone)
  /\ total_objects' = total_objects - OBJECTS_PER_SLAB * Cardinality(gone)
  /\ dangling' = {p \in dangling : p[1] \notin gone}

Destroyable_Partial == list["empty"] \cup list["partial"]

Destroyable == list["empty"]

slab_cache_shrink(gone) ==
  /\ gone # {} /\ gone \subseteq Destroyable
  /\ Cardinality(gone) = Cardinality(Destroyable) - SLABS_KEPT
  /\ list' = [l \in Lists |-> list[l] \ gone]
  /\ DestroyAll(gone)
  /\ UNCHANGED <<allocated_objects, poisoned, live, refused>>

Next ==
  \/ slab_alloc
  \/ \E s \in Slabs : slab_create(s)
  \/ \E s \in Slabs, o \in Objects : kfree(s, o) \/ kfree_again(s, o) \/ Write(s, o)
  \/ \E gone \in SUBSET Slabs : slab_cache_shrink(gone)

Spec == Init /\ [][Next]_vars

-----------------------------------------------------------------------------
(* Properties *)

TypeOK ==
  /\ list \in [Lists -> SUBSET Slabs]
  /\ free_list \in [Slabs -> SUBSET Objects]
  /\ free_count \in [Slabs -> 0 .. OBJECTS_PER_SLAB]
  /\ total_objects \in Nat /\ allocated_objects \in Nat /\ total_slabs \in Nat
  /\ poisoned \subseteq Slabs \X Objects
  /\ live \subseteq Slabs \X Objects
  /\ dangling \subseteq Slabs \X Objects
  /\ refused \subseteq Slabs \X Objects

\* A slab is on one list only, the one its number of free objects calls for,
\* and the counter slab_alloc and slab_free compare is that number.
ListsMatchCounts ==
  /\ \A s \in Slabs : free_count[s] = Cardinality(free_list[s])
  /\ \A s \in InUse :
       /\ s \in list["full"] <=> free_count[s] = 0
       /\ s \in list["partial"] <=> free_count[s] \in 1 .. OBJECTS_PER_SLAB - 1
       /\ s \in list["empty"] <=> free_count[s] = OBJECTS_PER_SLAB

\* An object is free or taken and never both, also after a double free, and
\* every object a caller holds is in a slab the cache still owns.
ObjectsPartitioned ==
  \A s \in Slabs, o \in Objects :
    LET taken == <<s, o>> \in live \cup refused IN
    IF s \in InUse THEN o \in free_list[s] <=> ~taken ELSE ~taken

\* The statistics of the cache are exact.
StatisticsExact ==
  /\ total_slabs = Cardinality(InUse)
  /\ total_objects = total_slabs * OBJECTS_PER_SLAB
  /\ allocated_objects = Cardinality(live \cup refused)

\* pmm.h says that the pattern in a freed object serves to "detect double free".
\* kfree must then accept an object that was not freed twice.  It does not:
\* slab_alloc leaves the pattern in the object it hands out.
FirstFreeAccepted == refused = {}
=============================================================================
