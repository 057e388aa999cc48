------------------------------- MODULE SlabSmp -------------------------------
(***************************************************************************)
(* slab_alloc and slab_free on one slab by several processors, at the      *)
(* granularity of the accesses to the slab's shared fields.  kmalloc calls *)
(* slab_alloc under kmalloc_lock, kfree calls slab_free under kfree_lock:  *)
(* the two locks are different, so that an allocation excludes only other  *)
(* allocations and a free only other frees.  buddy_alloc_pages and         *)
(* buddy_free_pages are called under the same two locks and manipulate     *)
(* their lists in the same way.  The poison check of kfree, which comes    *)
(* before the lock, is left to SlabAllocator.tla: no object is freed twice *)
(* here.                                                                   *)
(***************************************************************************)
EXTENDS Integers, FiniteSets

CONSTANTS
  Cpus,
  NoCpu,
  OBJECTS_PER_SLAB,
  COUNT_MOD,          \* free_count is unsigned: it wraps at this value
  Workloads           \* what the tasks of each processor do: "alloc", "free"

Objects == 1 .. OBJECTS_PER_SLAB
NULL == 0

ASSUME SmpAssumption ==
  /\ NoCpu \notin Cpus
  /\ OBJECTS_PER_SLAB \in Nat \ {0, 1}
  /\ COUNT_MOD \in Nat /\ COUNT_MOD > OBJECTS_PER_SLAB
  /\ Workloads \subseteq [Cpus -> SUBSET {"alloc", "free"}]

VARIABLES
  does,               \* the workload of this behaviour
  kmalloc_lock, kfree_lock,
  head,               \* slab->free_list
  next,               \* obj->next
  free_count,
  list,               \* the cache's list the slab is on
  held,               \* the objects the tasks of a processor hold
  pc, obj, nxt, cnt,  \* per processor: the next access and the registers
  reported            \* slab_alloc has found a NULL free list

vars == <<does, kmalloc_lock, kfree_lock, head, next, free_count, list, held,
          pc, obj, nxt, cnt, reported>>

ListFor(n) ==
  IF n = 0 THEN "full" ELSE IF n = OBJECTS_PER_SLAB THEN "empty" ELSE "partial"

\* Some objects are held, the others are linked in ascending order.
Init ==
  /\ does \in Workloads
  /\ kmalloc_lock = NoCpu /\ kfree_lock = NoCpu
  /\ \E owner \in [Objects -> Cpus \cup {NoCpu}] :
       LET free == {o \in Objects : owner[o] = NoCpu}
           first(S) == IF S = {} THEN NULL ELSE CHOOSE o \in S : \A p \in S : o <= p
       IN /\ held = [c \in Cpus |-> {o \in Objects : owner[o] = c}]
          /\ head = first(free)
          /\ next = [o \in Objects |-> IF o \in free THEN first({p \in free : p > o}) ELSE NULL]
          /\ free_count = Cardinality(free)
          /\ list = ListFor(Cardinality(free))
  /\ pc = [c \in Cpus |-> "idle"]
  /\ obj = [c \in Cpus |-> NULL] /\ nxt = [c \in Cpus |-> NULL] /\ cnt = [c \in Cpus |-> 0]
  /\ reported = FALSE

Goto(c, l) == pc' = [pc EXCEPT ![c] = l]
Done(c) ==
  /\ Goto(c, "idle")
  /\ obj' = [obj EXCEPT ![c] = NULL] /\ nxt' = [nxt EXCEPT ![c] = NULL]
  /\ cnt' = [cnt EXCEPT ![c] = 0]

-----------------------------------------------------------------------------
(* kmalloc: slab_alloc under kmalloc_lock *)

AllocLock(c) ==
  /\ pc[c] = "idle" /\ "alloc" \in does[c]
  /\ kmalloc_lock = NoCpu
  /\ kmalloc_lock' = c
  /\ Goto(c, "a_pick")
  /\ UNCHANGED <<does, kfree_lock, head, next, free_count, list, held, obj, nxt, cnt, reported>>

\* The slab is chosen if it is on the partial or the empty list (otherwise the
\* cache takes another slab or fails: this slab is left alone).
AllocPick(c) ==
  /\ pc[c] = "a_pick"
  /\ \/ list # "full" /\ Goto(c, "a_head") /\ UNCHANGED <<kmalloc_lock, obj, nxt, cnt>>
     \/ list = "full" /\ Done(c) /\ kmalloc_lock' = NoCpu
  /\ UNCHANGED <<does, kfree_lock, head, next, free_count, list, held, reported>>

\* obj = slab->free_list, with the error report if it is NULL.
AllocHead(c) ==
  /\ pc[c] = "a_head"
  /\ IF head = NULL
       THEN Done(c) /\ kmalloc_lock' = NoCpu /\ reported' = TRUE
       ELSE /\ obj' = [obj EXCEPT ![c] = head] /\ Goto(c, "a_next")
            /\ UNCHANGED <<nxt, cnt, kmalloc_lock, reported>>
  /\ UNCHANGED <<does, kfree_lock, head, next, free_count, list, held>>

\* slab->free_list = obj->next
AllocNext(c) ==
  /\ pc[c] = "a_next"
  /\ nxt' = [nxt EXCEPT ![c] = next[obj[c]]]
  /\ Goto(c, "a_unlink")
  /\ UNCHANGED <<does, kmalloc_lock, kfree_lock, head, next, free_count, list, held, obj, cnt, reported>>

AllocUnlink(c) ==
  /\ pc[c] = "a_unlink"
  /\ head' = nxt[c]
  /\ Goto(c, "a_load")
  /\ UNCHANGED <<does, kmalloc_lock, kfree_lock, next, free_count, list, held, obj, nxt, cnt, reported>>

\* slab->free_count--
AllocLoad(c) ==
  /\ pc[c] = "a_load"
  /\ cnt' = [cnt EXCEPT ![c] = free_count]
  /\ Goto(c, "a_store")
  /\ UNCHANGED <<does, kmalloc_lock, kfree_lock, head, next, free_count, list, held, obj, nxt, reported>>

AllocStore(c) ==
  /\ pc[c] = "a_store"
  /\ free_count' = (cnt[c] - 1) % COUNT_MOD
  /\ Goto(c, "a_list")
  /\ UNCHANGED <<does, kmalloc_lock, kfree_lock, head, next, list, held, obj, nxt, cnt, reported>>

\* The comparisons that move the slab to another list, and the return.
AllocList(c) ==
  /\ pc[c] = "a_list"
  /\ list' = IF free_count = 0 THEN "full"
             ELSE IF free_count = OBJECTS_PER_SLAB - 1 THEN "partial" ELSE list
  /\ held' = [held EXCEPT ![c] = @ \cup {obj[c]}]
  /\ kmalloc_lock' = NoCpu
  /\ Done(c)
  /\ UNCHANGED <<does, kfree_lock, head, next, free_count, reported>>

-----------------------------------------------------------------------------
(* kfree: slab_free under kfree_lock *)

FreeLock_None(c, o) ==
  /\ pc[c] = "idle" /\ "free" \in does[c]
  /\ o \in held[c]
  /\ held' = [held EXCEPT ![c] = @ \ {o}]
  /\ obj' = [obj EXCEPT ![c] = o]
  /\ kfree_lock' = c
  /\ Goto(c, "f_next")
  /\ UNCHANGED <<does, kmalloc_lock, head, next, free_count, list, nxt, cnt, reported>>

FreeLock(c, o) ==
  /\ pc[c] = "idle" /\ "free" \in does[c]
  /\ o \in held[c]
  /\ kfree_lock = NoCpu
  /\ held' = [held EXCEPT ![c] = @ \ {o}]
  /\ obj' = [obj EXCEPT ![c] = o]
  /\ kfree_lock' = c
  /\ Goto(c, "f_next")
  /\ UNCHANGED <<does, kmalloc_lock, head, next, free_count, list, nxt, cnt, reported>>

\* obj->next = slab->free_list
FreeNext(c) ==
  /\ pc[c] = "f_next"
  /\ next' = [next EXCEPT ![obj[c]] = head]
  /\ Goto(c, "f_link")
  /\ UNCHANGED <<does, kmalloc_lock, kfree_lock, head, free_count, list, held, obj, nxt, cnt, reported>>

\* slab->free_list = obj
FreeLink(c) ==
  /\ pc[c] = "f_link"
  /\ head' = obj[c]
  /\ Goto(c, "f_load")
  /\ UNCHANGED <<does, kmalloc_lock, kfree_lock, next, free_count, list, held, obj, nxt, cnt, reported>>

\* slab->free_count++
FreeLoad(c) ==
  /\ pc[c] = "f_load"
  /\ cnt' = [cnt EXCEPT ![c] = free_count]
  /\ Goto(c, "f_store")
  /\ UNCHANGED <<does, kmalloc_lock, kfree_lock, head, next, free_count, list, held, obj, nxt, reported>>

FreeStore(c) ==
  /\ pc[c] = "f_store"
  /\ free_count' = (cnt[c] + 1) % COUNT_MOD
  /\ Goto(c, "f_list")
  /\ UNCHANGED <<does, kmalloc_lock, kfree_lock, head, next, list, held, obj, nxt, cnt, reported>>

FreeList(c) ==
  /\ pc[c] = "f_list"
  /\ list' = IF free_count = 1 THEN "partial"
             ELSE IF free_count = OBJECTS_PER_SLAB THEN "empty" ELSE list
  /\ kfree_lock' = NoCpu
  /\ Done(c)
  /\ UNCHANGED <<does, kmalloc_lock, head, next, free_count, held, reported>>

Step(c) ==
  \/ AllocLock(c) \/ AllocPick(c) \/ AllocHead(c) \/ AllocNext(c) \/ AllocUnlink(c)
  \/ AllocLoad(c) \/ AllocStore(c) \/ AllocList(c)
  \/ (\E o \in held[c] : FreeLock(c, o))
  \/ FreeNext(c) \/ FreeLink(c) \/ FreeLoad(c) \/ FreeStore(c) \/ FreeList(c)

Next == \E c \in Cpus : Step(c)

Spec == Init /\ [][Next]_vars

-----------------------------------------------------------------------------
(* Properties *)

TypeOK ==
  /\ does \in Workloads
  /\ kmalloc_lock \in Cpus \cup {NoCpu} /\ kfree_lock \in Cpus \cup {NoCpu}
  /\ head \in Objects \cup {NULL} /\ next \in [Objects -> Objects \cup {NULL}]
  /\ free_count \in 0 .. OBJECTS_PER_SLAB
  /\ list \in {"full", "partial", "empty"}
  /\ held \in [Cpus -> SUBSET Objects]
  /\ pc \in [Cpus -> {"idle", "a_pick", "a_head", "a_next", "a_unlink", "a_load", "a_store",
                      "a_list", "f_next", "f_link", "f_load", "f_store", "f_list"}]
  /\ obj \in [Cpus -> Objects \cup {NULL}] /\ nxt \in [Cpus -> Objects \cup {NULL}]
  /\ cnt \in [Cpus -> 0 .. OBJECTS_PER_SLAB]
  /\ reported \in BOOLEAN

\* While no call is running, no object has two holders, the slab's counter is the
\* number of objects nobody holds, and the slab is on the list that number calls for.
QuietSlabConsistent ==
  (\A c \in Cpus : pc[c] = "idle") =>
    LET n == Cardinality(Objects \ UNION {held[c] : c \in Cpus}) IN
    /\ \A c, d \in Cpus : c # d => held[c] \cap held[d] = {}
    /\ free_count = n /\ list = ListFor(n)

\* slab_alloc's own check, "Slab was in free list but the free list is NULL",
\* never fires: a slab on the partial or the empty list has a free object.
ListedSlabHasObject == ~reported
=============================================================================
