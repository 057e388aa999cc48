------------------------------- MODULE MemMgr -------------------------------
(***************************************************************************)
(* The memory of one user task (kernel/memmgr/memmgr.c): the list of       *)
(* regions mm_setup_executable lays out, and the heap and the stack that   *)
(* grow when the task touches them.  The address space is used through     *)
(* what AddressSpace promises: mapping a range succeeds as a whole or      *)
(* fails and leaves nothing.  Addresses are counted in units of which a    *)
(* page has PAGE_SIZE.                                                     *)
(*                                                                         *)
(* The task touches one address at a time; while the address is not        *)
(* mapped every retry faults again.  mm_page_fault_handler itself is not   *)
(* connected yet (its descriptor is NULL); the model makes the calls it    *)
(* makes once it has one, with the task's descriptor.                      *)
(***************************************************************************)
EXTENDS Integers, FiniteSets, Sequences

CONSTANTS PAGE_SIZE, HEAP_SIZE, HEAP_GROW_PAGES, GUARD_SIZE,
          STACK_SIZE, STACK_TOP,
          Layouts,       \* <<code_start, code_end, data_end>> of the executables
          PPages,        \* physical pages, numbers
          Touched,       \* the addresses the task touches
          Accesses,      \* how it touches them
          MIN_REGIONS,   \* bound: regions are removed down to this number
          None

VARIABLES alive,         \* the task has a memory descriptor
          regions,       \* mm->regions, head first
          brk,           \* mm->brk
          mapped,        \* translations of the address space: <<page, physical page>>
          free,          \* physical pages the allocator still has
          touch,         \* the address the task is touching, and how, or None
          map_fails      \* whether memory for page tables can be short

vars == <<alive, regions, brk, mapped, free, touch, map_fails>>

ASSUME LayoutAssumption ==
  /\ PAGE_SIZE \in Nat \ {0} /\ HEAP_GROW_PAGES \in Nat \ {0}
  /\ HEAP_SIZE \in Nat /\ GUARD_SIZE \in Nat /\ STACK_SIZE \in Nat /\ STACK_TOP \in Nat
  /\ Layouts \subseteq Nat \X Nat \X Nat /\ Touched \subseteq Nat
  /\ PPages \subseteq Int /\ IsFiniteSet(PPages)
  /\ HEAP_SIZE % (HEAP_GROW_PAGES * PAGE_SIZE) = 0
  /\ (STACK_TOP + 1) % PAGE_SIZE = 0 /\ STACK_SIZE % PAGE_SIZE = 0 /\ STACK_SIZE <= STACK_TOP + 1

PageOf(addr) == addr \div PAGE_SIZE
AlignUp(addr) == ((addr + PAGE_SIZE - 1) \div PAGE_SIZE) * PAGE_SIZE
HEAP_GROW_SIZE == HEAP_GROW_PAGES * PAGE_SIZE
IsMapped(addr) == \E m \in mapped : m[1] = PageOf(addr)

(***************************************************************************)
(* Regions.  Their end is part of them.                                    *)
(***************************************************************************)

mm_add_region(list, start, end, flags) ==
  IF start >= end THEN list
  ELSE <<[start |-> start, end |-> end, flags |-> flags]>> \o list

\* The index of the first region with these bounds, if there is one.
mm_remove_region(start, end) ==
  \E i \in DOMAIN regions :
    /\ regions[i].start = start /\ regions[i].end = end
    /\ \A j \in 1 .. i - 1 : regions[j].start # start \/ regions[j].end # end
    /\ regions' = SubSeq(regions, 1, i - 1) \o SubSeq(regions, i + 1, Len(regions))

Containing(addr) == {i \in DOMAIN regions : regions[i].start <= addr /\ addr <= regions[i].end}

\* The flags of the first region that holds the address.
mm_find_region(addr) ==
  IF Containing(addr) = {} THEN None
  ELSE regions[CHOOSE i \in Containing(addr) : \A j \in Containing(addr) : i <= j]

\* A guard region has no flags at all.
mm_check_access(addr, access) ==
  LET region == mm_find_region(addr) IN
    region # None /\ region.flags # {} /\ access \in region.flags

Executable(code_start, code_end, data_end) ==
  LET heap_start == AlignUp(data_end)
      heap_end == heap_start + HEAP_SIZE - 1
      stack_bottom == STACK_TOP - STACK_SIZE + 1
      r1 == mm_add_region(<<>>, code_start, code_end, {"READ", "EXEC"})
      r2 == mm_add_region(r1, AlignUp(code_end), data_end, {"READ", "WRITE"})
      r3 == mm_add_region(r2, heap_start, heap_end, {"READ", "WRITE", "HEAP"})
      r4 == mm_add_region(r3, heap_end + 1, heap_end + GUARD_SIZE, {})
      r5 == mm_add_region(r4, stack_bottom - GUARD_SIZE, stack_bottom - 1, {})
  IN  mm_add_region(r5, stack_bottom, STACK_TOP, {"READ", "WRITE", "STACK"})

(***************************************************************************)
(* The life of the descriptor.                                             *)
(***************************************************************************)
Init ==
  /\ alive = FALSE
  /\ regions = <<>>
  /\ brk = 0
  /\ mapped = {}
  /\ free = PPages
  /\ touch = None
  /\ map_fails \in BOOLEAN

\* mm_alloc followed by mm_setup_executable.
mm_setup_executable(l) ==
  /\ ~alive /\ alive' = TRUE
  /\ regions' = Executable(l[1], l[2], l[3])
  /\ brk' = AlignUp(l[3])
  /\ UNCHANGED <<mapped, free, touch, map_fails>>

\* The address space goes, and with it the translations; the pages they
\* led to are not given back to the allocator.
mm_free ==
  /\ alive /\ alive' = FALSE
  /\ regions' = <<>>
  /\ brk' = 0
  /\ mapped' = {}
  /\ touch' = None
  /\ UNCHANGED <<free, map_fails>>

RemoveRegion ==
  /\ alive /\ Len(regions) > MIN_REGIONS
  /\ \E i \in DOMAIN regions : mm_remove_region(regions[i].start, regions[i].end)
  /\ UNCHANGED <<alive, brk, mapped, free, touch, map_fails>>

(***************************************************************************)
(* Accesses of the task, and the growth of heap and stack.                 *)
(***************************************************************************)
\* The n lowest free pages: a block of the allocator.
Block(n) == {p \in free : Cardinality({q \in free : q < p}) < n}

\* The translations of consecutive pages to the pages of a block.
Onto(first, block) == {<<first + Cardinality({q \in block : q < p}), p>> : p \in block}

Touch(addr, access) ==
  /\ alive /\ touch = None
  /\ touch' = [addr |-> addr, access |-> access]
  /\ UNCHANGED <<alive, regions, brk, mapped, free, map_fails>>

TouchSucceeds ==
  /\ touch # None /\ IsMapped(touch.addr)
  /\ touch' = None
  /\ UNCHANGED <<alive, regions, brk, mapped, free, map_fails>>

Faults(kind) ==
  /\ touch # None /\ ~IsMapped(touch.addr)
  /\ mm_check_access(touch.addr, touch.access)
  /\ kind \in mm_find_region(touch.addr).flags

\* A page that cannot be mapped stays with nobody.
mm_expand_stack ==
  /\ Faults("STACK") /\ free # {}
  /\ free' = free \ Block(1)
  /\ \/ mapped' = mapped \cup Onto(PageOf(touch.addr), Block(1))
     \/ map_fails /\ UNCHANGED mapped
  /\ UNCHANGED <<alive, regions, brk, touch, map_fails>>

mm_expand_heap_NoLimit ==
  /\ Faults("HEAP") /\ TRUE /\ Cardinality(free) >= HEAP_GROW_PAGES
  /\ \/ /\ mapped' = mapped \cup Onto(PageOf(brk), Block(HEAP_GROW_PAGES))
        /\ free' = free \ Block(HEAP_GROW_PAGES)
     \/ /\ map_fails
        /\ UNCHANGED <<mapped, free>>
  /\ brk' = brk + HEAP_GROW_SIZE
  /\ UNCHANGED <<alive, regions, touch, map_fails>>

mm_expand_heap_NoRollback ==
  /\ Faults("HEAP") /\ touch.addr >= brk /\ Cardinality(free) >= HEAP_GROW_PAGES
  /\ \/ /\ mapped' = mapped \cup Onto(PageOf(brk), Block(HEAP_GROW_PAGES))
        /\ free' = free \ Block(HEAP_GROW_PAGES)
     \/ /\ map_fails
        /\ mapped' = mapped \cup Onto(PageOf(brk), Block(1)) /\ UNCHANGED free
  /\ brk' = brk + HEAP_GROW_SIZE
  /\ UNCHANGED <<alive, regions, touch, map_fails>>

mm_expand_heap_OffByOne ==
  /\ Faults("HEAP") /\ touch.addr > brk /\ Cardinality(free) >= HEAP_GROW_PAGES
  /\ \/ /\ mapped' = mapped \cup Onto(PageOf(brk), Block(HEAP_GROW_PAGES))
        /\ free' = free \ Block(HEAP_GROW_PAGES)
     \/ /\ map_fails
        /\ UNCHANGED <<mapped, free>>
  /\ brk' = brk + HEAP_GROW_SIZE
  /\ UNCHANGED <<alive, regions, touch, map_fails>>

\* The heap grows from brk on; brk moves whether the mapping succeeded or
\* not.  Below brk, or without memory, nothing happens.
mm_expand_heap ==
  /\ Faults("HEAP") /\ touch.addr >= brk /\ Cardinality(free) >= HEAP_GROW_PAGES
  /\ \/ /\ mapped' = mapped \cup Onto(PageOf(brk), Block(HEAP_GROW_PAGES))
        /\ free' = free \ Block(HEAP_GROW_PAGES)
     \/ /\ map_fails
        /\ UNCHANGED <<mapped, free>>
  /\ brk' = brk + HEAP_GROW_SIZE
  /\ UNCHANGED <<alive, regions, touch, map_fails>>

\* A fault that changes nothing: the access is refused ("Should be SIGSEGV
\* but we don't have that yet"), or the heap address is below brk, or
\* memory is short.  The task faults again.
FaultAgain ==
  /\ touch # None /\ ~IsMapped(touch.addr)
  /\ Faults("STACK") => free = {}
  /\ Faults("HEAP") => touch.addr < brk \/ Cardinality(free) < HEAP_GROW_PAGES
  /\ UNCHANGED vars

Next ==
  \/ \E l \in Layouts : mm_setup_executable(l)
  \/ mm_free
  \/ RemoveRegion
  \/ \E addr \in Touched, access \in Accesses : Touch(addr, access)
  \/ TouchSucceeds
  \/ mm_expand_stack
  \/ mm_expand_heap
  \/ FaultAgain

\* The processor repeats a faulting instruction until it succeeds.
Spec == Init /\ [][Next]_vars /\ WF_vars(TouchSucceeds) /\ WF_vars(mm_expand_stack) /\ WF_vars(mm_expand_heap)

(***************************************************************************)
(* Properties.                                                             *)
(***************************************************************************)
TypeOK ==
  /\ alive \in BOOLEAN
  /\ \A i \in DOMAIN regions : regions[i].start < regions[i].end
  /\ brk \in 0 .. STACK_TOP
  /\ mapped \subseteq (0 .. PageOf(STACK_TOP)) \X PPages
  /\ free \subseteq PPages
  /\ touch # None => touch.addr \in 0 .. STACK_TOP

\* mm_expand_heap has no test of the heap's end.  All the same no page of a
\* guard region (flags 0: "We hit a guard page which means something has
\* overflown") is ever mapped, so an overflow of heap or stack always
\* faults.
GuardNeverMapped ==
  \A i \in DOMAIN regions :
    regions[i].flags = {} =>
      \A addr \in regions[i].start .. regions[i].end : ~IsMapped(addr)

\* A physical page is in use for at most one virtual page, and no page the
\* allocator could grant again is still mapped, although a growth of the
\* heap that fails gives its block back.
MappedPagesOwned ==
  /\ \A m, n \in mapped : m[2] = n[2] => m = n
  /\ \A m \in mapped : m[2] \notin free

\* What mm_expand_heap says of itself: "Fault address is lower than heap
\* brk - something is seriously wrong".  As long as page tables can be
\* allocated, a heap address that faults is never below brk.
HeapFaultAboveBrk ==
  Faults("HEAP") /\ ~map_fails => touch.addr >= brk

\* As long as there is memory, for page tables too, an access the regions
\* allow to heap or stack is granted in the end, also when it lies several growths beyond brk.
AllowedAccessSucceeds ==
  \A addr \in Touched :
    (~map_fails /\ touch # None /\ touch.addr = addr /\ (Faults("HEAP") \/ Faults("STACK")))
      ~> (\/ touch = None \/ IsMapped(addr)
          \/ ~mm_check_access(addr, touch.access)
          \/ Cardinality(free) < HEAP_GROW_PAGES)
=============================================================================
