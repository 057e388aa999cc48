-------------------------------- MODULE VMM --------------------------------
(***************************************************************************)
(* The virtual memory manager (arch/x86_64/memory/vmm.c): address spaces   *)
(* as four-level page tables whose tables are pages of the page allocator. *)
(*                                                                         *)
(* content[f] is page f read as a table: its entries are NotPresent, the   *)
(* page the entry points to, or, in a page some other owner wrote, Junk.   *)
(* A call in progress is the record op; one step is one level of           *)
(* vmm_walk_page_table or the access to the last entry, so the tables are  *)
(* seen half built, and an allocation of a table can fail at every level.  *)
(* Addresses are counted in units of which a page has PAGE_SIZE.           *)
(*                                                                         *)
(* pmm_alloc_page is outside: it hands out the least free page (the        *)
(* manager never compares addresses of tables, so another choice only      *)
(* renames pages), and it may fail at any time since the rest of the       *)
(* kernel takes pages too.  Data pages are not pages of the pool: their    *)
(* owner got them from the allocator, which grants no page twice.          *)
(***************************************************************************)
EXTENDS Integers, FiniteSets

CONSTANTS Pool,          \* page numbers the page allocator has for tables
          UserSpaces,    \* address spaces of tasks
          Kernel,        \* kernel_as
          ENTRIES,       \* entries of a table; 512 in the code
          PAGE_SIZE,     \* units of a page; 4096 in the code
          PPages,        \* data pages a caller may map
          Requests,      \* <<vaddr, size>> the callers of user spaces use
          Touched,       \* virtual pages the loaded program reads and writes
          APIC_VADDR,    \* page of the kernel half mapped at boot
          APIC_BASE_ADDR,\* the device page it is mapped to
          BootPml4, BootPdp,  \* tables the boot loader made
          MAX_CREATED,   \* bound on the spaces created in a behaviour
          NotPresent, Junk

VARIABLES free,          \* pages the allocator can still grant
          content,       \* every page read as a table
          pml4,          \* pml4 of each live address space, else NotPresent
          total_pages,   \* addr_space.total_pages
          op,            \* the call in progress
          cr3,           \* the address space this processor has loaded
          tlb,           \* translations this processor has cached
          booted,        \* apic_global_init has been called
          created        \* address spaces created so far

vars == <<free, content, pml4, total_pages, op, cr3, tlb, booted, created>>

Spaces  == UserSpaces \cup {Kernel}
Frames  == Pool \cup {BootPml4, BootPdp}
Slots   == 0 .. ENTRIES - 1
UserSlots == 0 .. (ENTRIES \div 2) - 1      \* PML4 entries 0..255
KernelSlots == Slots \ UserSlots            \* PML4 entries 256..511
LastLevel == 3
Live    == {s \in Spaces : pml4[s] # NotPresent}

ASSUME ShapeAssumption ==
  /\ Pool \subseteq Int /\ IsFiniteSet(Pool)
  /\ BootPml4 \notin Pool /\ BootPdp \notin Pool /\ BootPml4 # BootPdp
  /\ Kernel \notin UserSpaces
  /\ ENTRIES \in Nat \ {0} /\ ENTRIES % 2 = 0 /\ PAGE_SIZE \in Nat \ {0}
  /\ NotPresent \notin Frames \cup PPages \cup {APIC_BASE_ADDR}
  /\ PPages \subseteq Int /\ APIC_BASE_ADDR \in Int

vmm_page_align_down(addr) == addr \div PAGE_SIZE

vmm_page_align_up(addr) == (addr + PAGE_SIZE - 1) \div PAGE_SIZE

\* The pages an entry of each level covers, and PML4_INDEX, PDP_INDEX, PD_INDEX and
\* PT_INDEX of a virtual page.
Span(level) ==
  CASE level = 0 -> ENTRIES * ENTRIES * ENTRIES
    [] level = 1 -> ENTRIES * ENTRIES
    [] level = 2 -> ENTRIES
    [] level = 3 -> 1
TableIndex(v, level) == (v \div Span(level)) % ENTRIES

\* The first and the last page a request touches.
PagesOf(r) == vmm_page_align_down(r[1]) .. vmm_page_align_up(r[1] + r[2]) - 1

\* The callers of user spaces ask for pages of the lower half; the APIC is mapped in
\* the upper one.
UserPages == 0 .. (ENTRIES \div 2) * Span(0) - 1
KernelPages == (ENTRIES \div 2) * Span(0) .. ENTRIES * Span(0) - 1

ASSUME RequestAssumption ==
  /\ \A r \in Requests : r[1] \in Nat /\ r[2] \in Nat \ {0} /\ PagesOf(r) \subseteq UserPages
  /\ APIC_VADDR \in KernelPages
  /\ Touched \subseteq UserPages \cup KernelPages

VPages == (UNION {PagesOf(r) : r \in Requests}) \cup {APIC_VADDR}

Empty == [i \in Slots |-> NotPresent]
Foreign == [i \in Slots |-> Junk]

(***************************************************************************)
(* What the processor's own walk finds.                                    *)
(***************************************************************************)
EntryAt(t, v, level) ==
  IF t \in Frames THEN content[t][TableIndex(v, level)] ELSE NotPresent

vmm_virt_to_phys(s, v) ==
  LET pdp == EntryAt(pml4[s], v, 0)
      pd  == EntryAt(pdp, v, 1)
      pt  == EntryAt(pd, v, 2)
  IN  EntryAt(pt, v, 3)

\* Targets of the present entries of a set of tables.
Targets(tables, slots) ==
  {content[t][i] : t \in tables \cap Frames, i \in slots} \ {NotPresent}

Pdps(s) == Targets({pml4[s]}, UserSlots)
Pds(s)  == Targets(Pdps(s), Slots)
Pts(s)  == Targets(Pds(s), Slots)

idle == [kind |-> "idle"]

(***************************************************************************)
(* vmm_init, after which the kernel's space is the boot loader's.          *)
(***************************************************************************)
Init ==
  /\ free = Pool
  /\ content = [f \in Frames |->
       IF f = BootPml4 THEN [Empty EXCEPT ![ENTRIES \div 2] = BootPdp] ELSE
       IF f = BootPdp THEN Empty ELSE Foreign]
  /\ pml4 = [s \in Spaces |-> IF s = Kernel THEN BootPml4 ELSE NotPresent]
  /\ total_pages = [s \in Spaces |-> 0]
  /\ op = idle
  /\ cr3 = Kernel
  /\ tlb = {}
  /\ booted = FALSE
  /\ created = 0

(***************************************************************************)
(* Address spaces.                                                         *)
(***************************************************************************)
\* A page of the allocator, or none when it has none to give.
pmm_alloc_page(f) ==
  /\ f \in free /\ \A g \in free : f <= g
  /\ free' = free \ {f}

\* vmm_alloc_page_table clears the page it got.
vmm_alloc_page_table(f) == Empty

vmm_create_address_space_OnlyBootSlot(s) ==
  /\ op = idle /\ booted /\ s \in UserSpaces \ Live
  /\ \E f \in free :
       /\ pmm_alloc_page(f)
       /\ pml4' = [pml4 EXCEPT ![s] = f]
       /\ content' = [content EXCEPT ![f] =
            [Empty EXCEPT ![ENTRIES \div 2] = content[pml4[Kernel]][ENTRIES \div 2]]]
  /\ total_pages' = [total_pages EXCEPT ![s] = 0]
  /\ created < MAX_CREATED /\ created' = created + 1
  /\ UNCHANGED <<op, cr3, tlb, booted>>

\* A failed allocation leaves everything as it was and is not a step.
vmm_create_address_space(s) ==
  /\ op = idle /\ booted /\ s \in UserSpaces \ Live
  /\ \E f \in free :
       /\ pmm_alloc_page(f)
       /\ pml4' = [pml4 EXCEPT ![s] = f]
       /\ content' = [content EXCEPT ![f] =
            [i \in Slots |-> IF i \in KernelSlots THEN content[pml4[Kernel]][i]
                             ELSE vmm_alloc_page_table(f)[i]]]
  /\ total_pages' = [total_pages EXCEPT ![s] = 0]
  /\ created < MAX_CREATED /\ created' = created + 1
  /\ UNCHANGED <<op, cr3, tlb, booted>>

\* free_pdp_table and free_pd_table for every entry of the user half.
TablesToFree_ForgetsPts(s) == Pdps(s) \cup Pds(s) \cup {pml4[s]}

TablesToFree(s) == Pdps(s) \cup Pds(s) \cup Pts(s) \cup {pml4[s]}

\* Callers destroy a space only after they have left it, as test_vmm does.
vmm_destroy_address_space(s) ==
  /\ op = idle /\ s \in Live \ {Kernel} /\ cr3 # s
  /\ free' = free \cup TablesToFree(s)
  /\ content' = [f \in Frames |-> IF f \in TablesToFree(s) THEN Foreign ELSE content[f]]
  /\ pml4' = [pml4 EXCEPT ![s] = NotPresent]
  /\ total_pages' = [total_pages EXCEPT ![s] = 0]
  /\ UNCHANGED <<op, cr3, tlb, booted, created>>

\* set_cr3 drops what the processor had cached.
vmm_switch_address_space(s) ==
  /\ op = idle /\ s \in Live
  /\ cr3' = s /\ tlb' = {}
  /\ UNCHANGED <<free, content, pml4, total_pages, op, booted, created>>

(***************************************************************************)
(* The beginnings of the calls that walk the tables.                       *)
(***************************************************************************)
Call(kind, s, first, end, p) ==
  /\ op = idle /\ s \in Live
  /\ op' = [kind |-> kind, as |-> s, first |-> first, end |-> end, p |-> p,
            v |-> first, stop |-> end, level |-> 0, table |-> pml4[s]]
  /\ UNCHANGED <<free, content, pml4, total_pages, cr3, tlb, created>>

vmm_map_page(s, r, p) ==
  /\ Call("map_page", s, vmm_page_align_down(r[1]), vmm_page_align_down(r[1]) + 1, p)
  /\ UNCHANGED booted

vmm_map_range(s, r, p) ==
  /\ \A v \in PagesOf(r) : p + (v - vmm_page_align_down(r[1])) \in PPages
  /\ Call("map_range", s, vmm_page_align_down(r[1]), vmm_page_align_up(r[1] + r[2]), p)
  /\ UNCHANGED booted

vmm_unmap_page(s, r) ==
  /\ Call("unmap_page", s, vmm_page_align_down(r[1]), vmm_page_align_down(r[1]) + 1, 0)
  /\ UNCHANGED booted

vmm_unmap_range(s, r) ==
  /\ Call("unmap_range", s, vmm_page_align_down(r[1]), vmm_page_align_up(r[1] + r[2]), 0)
  /\ UNCHANGED booted

\* The only mapping of the kernel half: once, before any task exists.
apic_global_init ==
  /\ ~booted /\ booted' = TRUE
  /\ Call("map_range", Kernel, APIC_VADDR, APIC_VADDR + 1, APIC_BASE_ADDR)

(***************************************************************************)
(* One step of the call in progress.                                       *)
(***************************************************************************)
Mapping == op.kind \in {"map_page", "map_range"}
PhysPage == op.p + (op.v - op.first)
WalkEntry == content[op.table][TableIndex(op.v, op.level)]

\* What the end of the call removes from the processor's cache:
\* vmm_flush_tlb_single or vmm_flush_tlb.
Flushed_Forgotten ==
  IF op.kind \in {"map_page", "unmap_page"}
  THEN {e \in tlb : e[1] = op.v}
  ELSE {}

Flushed ==
  IF op.kind \in {"map_page", "unmap_page"}
  THEN {e \in tlb : e[1] = op.v}
  ELSE tlb

\* The loops of vmm_map_range and vmm_unmap_range.
NextPage ==
  IF op.v + 1 < op.stop
  THEN /\ op' = [op EXCEPT !.v = @ + 1, !.level = 0, !.table = pml4[op.as]]
       /\ UNCHANGED tlb
  ELSE /\ op' = idle
       /\ tlb' = tlb \ Flushed

RollbackEnd_WholeRange == op.end

RollbackEnd == op.v

\* A mapping that fails: vmm_map_range unmaps what it had mapped so far.
\* Unmapping a range of size zero returns at once.
MapFails ==
  /\ op' = IF op.kind = "map_range" /\ op.v > op.first
           THEN [op EXCEPT !.kind = "rollback", !.v = op.first, !.stop = RollbackEnd,
                           !.level = 0, !.table = pml4[op.as]]
           ELSE idle
  /\ UNCHANGED tlb

\* The entry of this level is present: follow it.
WalkDown ==
  /\ op # idle /\ op.level < LastLevel /\ WalkEntry # NotPresent
  /\ op' = [op EXCEPT !.level = @ + 1, !.table = WalkEntry]
  /\ UNCHANGED <<free, content, pml4, total_pages, cr3, tlb, booted, created>>

\* It is not and the walk creates: link a new table.
WalkCreate ==
  /\ op # idle /\ op.level < LastLevel /\ WalkEntry = NotPresent /\ Mapping
  /\ \E f \in free :
       /\ pmm_alloc_page(f)
       /\ content' = [content EXCEPT
            ![f] = vmm_alloc_page_table(f),
            ![op.table] = [@ EXCEPT ![TableIndex(op.v, op.level)] = f]]
       /\ op' = [op EXCEPT !.level = @ + 1, !.table = f]
  /\ UNCHANGED <<pml4, total_pages, cr3, tlb, booted, created>>

\* Or finds no page for it: the tables made so far stay.
WalkCreateFails ==
  /\ op # idle /\ op.level < LastLevel /\ WalkEntry = NotPresent /\ Mapping
  /\ MapFails
  /\ UNCHANGED <<free, content, pml4, total_pages, cr3, booted, created>>

\* It is not and the walk does not create: vmm_unmap_page returns without
\* a flush, the loop of vmm_unmap_range ignores it.
NotMapped ==
  /\ op # idle /\ ~Mapping /\ WalkEntry = NotPresent
  /\ IF op.kind = "unmap_page" THEN op' = idle /\ UNCHANGED tlb ELSE NextPage
  /\ UNCHANGED <<free, content, pml4, total_pages, cr3, booted, created>>

\* The last entry is free: store the translation.
StorePte ==
  /\ op # idle /\ op.level = LastLevel /\ Mapping /\ WalkEntry = NotPresent
  /\ content' = [content EXCEPT ![op.table] = [@ EXCEPT ![TableIndex(op.v, LastLevel)] = PhysPage]]
  /\ total_pages' = [total_pages EXCEPT ![op.as] = @ + 1]
  /\ NextPage
  /\ UNCHANGED <<free, pml4, cr3, booted, created>>

AlreadyPresent ==
  /\ op # idle /\ op.level = LastLevel /\ Mapping /\ WalkEntry # NotPresent
  /\ MapFails
  /\ UNCHANGED <<free, content, pml4, total_pages, cr3, booted, created>>

ClearPte ==
  /\ op # idle /\ op.level = LastLevel /\ ~Mapping /\ WalkEntry # NotPresent
  /\ content' = [content EXCEPT ![op.table] = [@ EXCEPT ![TableIndex(op.v, LastLevel)] = NotPresent]]
  /\ total_pages' = [total_pages EXCEPT ![op.as] = @ - 1]
  /\ NextPage
  /\ UNCHANGED <<free, pml4, cr3, booted, created>>

\* The processor walks the loaded tables by itself and keeps what it finds.
TlbFill ==
  \E v \in Touched :
    LET p == vmm_virt_to_phys(cr3, v) IN
      /\ p # NotPresent
      /\ <<v, p>> \notin tlb
      /\ tlb' = {e \in tlb : e[1] # v} \cup {<<v, p>>}
      /\ UNCHANGED <<free, content, pml4, total_pages, op, cr3, booted, created>>

Next ==
  \/ apic_global_init
  \/ \E s \in UserSpaces :
       \/ vmm_create_address_space(s)
       \/ vmm_destroy_address_space(s)
       \/ \E r \in Requests :
            \/ vmm_unmap_page(s, r)
            \/ vmm_unmap_range(s, r)
            \/ \E p \in PPages : vmm_map_page(s, r, p) \/ vmm_map_range(s, r, p)
  \/ \E s \in Spaces : vmm_switch_address_space(s)
  \/ WalkDown \/ WalkCreate \/ WalkCreateFails \/ NotMapped
  \/ StorePte \/ AlreadyPresent \/ ClearPte
  \/ TlbFill

Spec == Init /\ [][Next]_vars

(***************************************************************************)
(* Properties.                                                             *)
(***************************************************************************)
Entry == Frames \cup PPages \cup {APIC_BASE_ADDR, NotPresent, Junk}

TypeOK ==
  /\ free \subseteq Pool
  /\ \A f \in Frames : \A i \in Slots : content[f][i] \in Entry
  /\ \A s \in Spaces : pml4[s] \in Frames \cup {NotPresent} /\ total_pages[s] \in Nat
  /\ op # idle => op.as \in Spaces /\ op.level \in 0 .. LastLevel /\ op.table \in Frames
  /\ cr3 \in Live

\* The tables of a user space, and the tables of the kernel half, which all
\* spaces point to.
UserTables(s) == {pml4[s]} \cup Pdps(s) \cup Pds(s) \cup Pts(s)

KernelTables ==
  LET top == Targets({BootPml4}, KernelSlots)
      mid == Targets(top, Slots)
  IN  {BootPml4} \cup top \cup mid \cup Targets(mid, Slots)

\* The present entries that point to tables of a user space.
Links(s) ==
  {l \in {pml4[s]} \X UserSlots : content[l[1]][l[2]] # NotPresent}
  \cup {l \in (Pdps(s) \cup Pds(s)) \X Slots : content[l[1]][l[2]] # NotPresent}

\* "Each process gets its own page table hierarchy" (README): every page of
\* the pool is free, or a table of one user space, or a table of the kernel
\* half.  The tables of a space form a tree, no two spaces share one below
\* the kernel half, none is free while linked and none is lost, whatever
\* calls failed half way and whatever spaces were destroyed in between.
EveryTableAccounted ==
  LET users == Live \ {Kernel} IN
    /\ Pool = free \cup (KernelTables \cap Pool) \cup UNION {UserTables(s) : s \in users}
    /\ KernelTables \cap free = {}
    /\ \A s \in users :
         /\ UserTables(s) \cap (free \cup KernelTables) = {}
         /\ \A t \in users \ {s} : UserTables(s) \cap UserTables(t) = {}
         /\ Cardinality(UserTables(s)) = 1 + Cardinality(Links(s))

\* The kernel half a space copied when it was created is still the kernel's
\* (vmm_create_address_space, l. 100): kernel code reached through any
\* space finds the same tables, also the ones apic_global_init added.
KernelHalfShared ==
  \A s \in Live : \A i \in KernelSlots : content[pml4[s]][i] = content[pml4[Kernel]][i]

\* total_pages counts the pages that are mapped, through partial mappings
\* and their rollback.
TotalPagesExact ==
  \A s \in Live :
    total_pages[s] = Cardinality({v \in VPages : vmm_virt_to_phys(s, v) # NotPresent}
                                 \ (IF s = Kernel THEN {} ELSE {APIC_VADDR}))

\* When no call is in progress, the processor that made the calls has no
\* translation cached that its tables no longer hold.
TlbFresh ==
  op = idle => \A e \in tlb : vmm_virt_to_phys(cr3, e[1]) = e[2]

(***************************************************************************)
(* The pages of a call in progress count as not mapped: those a mapping    *)
(* has stored already, and all pages of a range that is being unmapped.    *)
(* The copied kernel half belongs to the kernel's space.                   *)
(***************************************************************************)
InProgress(s) ==
  IF op = idle \/ op.as # s THEN {}
  ELSE op.first .. (IF Mapping THEN op.v ELSE op.stop) - 1

CallInProgress ==
  IF op = idle THEN [does |-> "nothing"]
  ELSE IF op.kind \in {"unmap_page", "unmap_range"}
  THEN [does |-> "unmap", as |-> op.as, first |-> op.first, last |-> op.end - 1]
  ELSE [does |-> "map", as |-> op.as, first |-> op.first, last |-> op.end - 1, p |-> op.p]

Promise == INSTANCE AddressSpace WITH
  None <- NotPresent,
  PPages <- PPages \cup {APIC_BASE_ADDR},
  live <- Live,
  call <- CallInProgress,
  trans <- [s \in Spaces |-> [v \in VPages |->
              IF v \in InProgress(s) \/ (s # Kernel /\ v = APIC_VADDR) THEN NotPresent
              ELSE vmm_virt_to_phys(s, v)]]

\* The tables implement the promise: a range is mapped as a whole or not at
\* all, never over an existing translation, and no call disturbs another
\* page or another space.
RefinesAddressSpace == Promise!Spec
=============================================================================
