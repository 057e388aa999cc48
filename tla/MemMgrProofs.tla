---------------------------- MODULE MemMgrProofs ----------------------------
(***************************************************************************)
(* Proofs about MemMgr, for every page size, every layout of executables   *)
(* and every set of physical pages: physical pages are used once, and no   *)
(* page of a guard region is ever mapped.                                  *)
(***************************************************************************)
EXTENDS MemMgr, FiniteSetTheorems, SequenceTheorems, WellFoundedInduction, TLAPS

\* Leaves go to Zenon unless they name the SMT solver.
USE ZenonT(30)

-----------------------------------------------------------------------------
(* Pages. *)

LEMMA Quotient ==
  ASSUME NEW a \in Nat, NEW z \in Nat \ {0}
  PROVE  /\ a \div z \in Nat /\ (a \div z) * z <= a /\ a < (a \div z) * z + z
         /\ a % z = 0 => a = (a \div z) * z
  BY SMTT(30)

LEMMA DivisionFacts ==
  ASSUME NEW a \in Nat
  PROVE  /\ PageOf(a) \in Nat
         /\ PageOf(a) * PAGE_SIZE <= a /\ a < PageOf(a) * PAGE_SIZE + PAGE_SIZE
         /\ a % PAGE_SIZE = 0 => a = PageOf(a) * PAGE_SIZE
  BY LayoutAssumption, Quotient DEF PageOf

LEMMA SmallerProduct ==
  ASSUME NEW a \in Nat, NEW b \in Nat, NEW z \in Nat, a < b
  PROVE  a * z + z <= b * z
<1>1. PICK c \in Nat : b = (a + 1) + c
  <2>1. b - (a + 1) \in Nat /\ b = (a + 1) + (b - (a + 1))
    BY SMTT(30)
  <2> QED  BY <2>1
<1>2. b * z = (a * z + z) + c * z /\ c * z \in Nat /\ a * z \in Nat
  BY <1>1, SMTT(30)
<1> QED  BY <1>2, SMTT(30)

LEMMA PageUnique ==
  ASSUME NEW a \in Nat, NEW q \in Nat, q * PAGE_SIZE <= a, a < q * PAGE_SIZE + PAGE_SIZE
  PROVE  PageOf(a) = q
<1>1. PAGE_SIZE \in Nat \ {0}
  BY LayoutAssumption
<1> DEFINE r == PageOf(a)
<1>2. r \in Nat /\ r * PAGE_SIZE <= a /\ a < r * PAGE_SIZE + PAGE_SIZE
  BY DivisionFacts
<1>3. r * PAGE_SIZE \in Nat /\ q * PAGE_SIZE \in Nat
  BY <1>1, <1>2, SMTT(30)
<1> HIDE DEF r
<1>4. ~ r < q
  <2> SUFFICES ASSUME r < q PROVE FALSE
    OBVIOUS
  <2>1. r * PAGE_SIZE + PAGE_SIZE <= q * PAGE_SIZE
    BY <1>1, <1>2, SmallerProduct
  <2> QED  BY <1>1, <1>2, <1>3, <2>1, SMTT(30)
<1>5. ~ q < r
  <2> SUFFICES ASSUME q < r PROVE FALSE
    OBVIOUS
  <2>1. q * PAGE_SIZE + PAGE_SIZE <= r * PAGE_SIZE
    BY <1>1, <1>2, SmallerProduct
  <2> QED  BY <1>1, <1>2, <1>3, <2>1, SMTT(30)
<1> QED  BY <1>2, <1>4, <1>5, SMTT(30) DEF r

\* Adding whole pages adds to the page number.
LEMMA PageOfSum ==
  ASSUME NEW a \in Nat, NEW n \in Nat
  PROVE  PageOf(a + n * PAGE_SIZE) = PageOf(a) + n
<1>1. PAGE_SIZE \in Nat \ {0}
  BY LayoutAssumption
<1> DEFINE r == PageOf(a)
<1>2. r \in Nat /\ r * PAGE_SIZE <= a /\ a < r * PAGE_SIZE + PAGE_SIZE
  BY DivisionFacts
<1> HIDE DEF r
<1>3. (r + n) * PAGE_SIZE = r * PAGE_SIZE + n * PAGE_SIZE
      /\ r * PAGE_SIZE \in Nat /\ n * PAGE_SIZE \in Nat
  BY <1>1, <1>2, SMTT(30)
<1>4. a + n * PAGE_SIZE \in Nat /\ r + n \in Nat
  BY <1>2, <1>3, SMTT(30)
<1>5. /\ (r + n) * PAGE_SIZE <= a + n * PAGE_SIZE
      /\ a + n * PAGE_SIZE < (r + n) * PAGE_SIZE + PAGE_SIZE
  BY <1>1, <1>2, <1>3, SMTT(30)
<1>6. PageOf(a + n * PAGE_SIZE) = r + n
  BY <1>4, <1>5, PageUnique
<1> QED  BY <1>6 DEF r

\* Pages are in the order of their addresses; an address below a page's first one
\* is in an earlier page.
LEMMA PageOfMonotone ==
  ASSUME NEW a \in Nat, NEW b \in Nat, a <= b
  PROVE  /\ PageOf(a) <= PageOf(b)
         /\ a < b /\ b % PAGE_SIZE = 0 => PageOf(a) < PageOf(b)
<1>1. PAGE_SIZE \in Nat \ {0}
  BY LayoutAssumption
<1> DEFINE r == PageOf(a)
           t == PageOf(b)
<1>2. /\ r \in Nat /\ r * PAGE_SIZE <= a /\ a < r * PAGE_SIZE + PAGE_SIZE
      /\ t \in Nat /\ t * PAGE_SIZE <= b /\ b < t * PAGE_SIZE + PAGE_SIZE
  BY DivisionFacts
<1>3. r * PAGE_SIZE \in Nat /\ t * PAGE_SIZE \in Nat
  BY <1>1, <1>2, SMTT(30)
<1>4. b % PAGE_SIZE = 0 => b = t * PAGE_SIZE
  BY DivisionFacts
<1> HIDE DEF r, t
<1>5. r <= t
  <2> SUFFICES ASSUME t < r PROVE FALSE
    BY <1>2, SMTT(30)
  <2>1. t * PAGE_SIZE + PAGE_SIZE <= r * PAGE_SIZE
    BY <1>1, <1>2, SmallerProduct
  <2> QED  BY <1>1, <1>2, <1>3, <2>1, SMTT(30)
<1>6. a < b /\ b % PAGE_SIZE = 0 => r # t
  BY <1>1, <1>2, <1>3, <1>4, SMTT(30)
<1> QED  BY <1>2, <1>5, <1>6, SMTT(30) DEF r, t

-----------------------------------------------------------------------------
(* Physical pages. *)

\* A block of n pages is mapped to at most n consecutive virtual pages, each page of
\* the block once.
LEMMA OntoFacts ==
  ASSUME free \subseteq PPages, NEW n \in Nat, NEW first \in Nat
  PROVE  /\ Block(n) \subseteq free
         /\ \A m \in Onto(first, Block(n)) :
              /\ m[1] \in Nat /\ first <= m[1] /\ m[1] < first + n
              /\ m[2] \in Block(n)
         /\ \A m, l \in Onto(first, Block(n)) : m[2] = l[2] => m = l
<1> DEFINE rank(p) == Cardinality({q \in Block(n) : q < p})
<1>1. Block(n) \subseteq free
  BY DEF Block
<1>2. ASSUME NEW p \in Block(n) PROVE rank(p) \in Nat /\ rank(p) < n
  <2> DEFINE below == {q \in Block(n) : q < p}
             all == {q \in free : q < p}
  <2>1. Cardinality(all) < n
    BY <1>2 DEF Block
  <2>2. below \subseteq all
    BY <1>1
  <2>3. IsFiniteSet(all)
    <3>1. all \subseteq PPages
      OBVIOUS
    <3> QED  BY <3>1, FS_Subset, LayoutAssumption
  <2>4. /\ IsFiniteSet(below) /\ Cardinality(below) <= Cardinality(all)
    BY <2>2, <2>3, FS_Subset
  <2>5. Cardinality(below) \in Nat /\ Cardinality(all) \in Nat
    BY <2>3, <2>4, FS_CardinalityType
  <2>6. rank(p) = Cardinality(below)
    OBVIOUS
  <2> HIDE DEF below, all, rank
  <2> QED  BY <2>1, <2>4, <2>5, <2>6, SMTT(30)
<1>3. Onto(first, Block(n)) = {<<first + rank(p), p>> : p \in Block(n)}
  BY DEF Onto
<1> HIDE DEF rank
<1>4. ASSUME NEW m \in Onto(first, Block(n))
      PROVE  /\ m[1] \in Nat /\ first <= m[1] /\ m[1] < first + n
             /\ m[2] \in Block(n) /\ m = <<first + rank(m[2]), m[2]>>
  <2>1. PICK p \in Block(n) : m = <<first + rank(p), p>>
    BY <1>3
  <2>2. m[1] = first + rank(p) /\ m[2] = p
    BY <2>1
  <2> QED  BY <1>2, <2>1, <2>2, SMTT(30)
<1>5. \A m, l \in Onto(first, Block(n)) : m[2] = l[2] => m = l
  <2> TAKE m, l \in Onto(first, Block(n))
  <2> HAVE m[2] = l[2]
  <2>1. m = <<first + rank(m[2]), m[2]>> /\ l = <<first + rank(l[2]), l[2]>>
    BY <1>4
  <2> QED  BY <2>1
<1> QED  BY <1>1, <1>4, <1>5

\* Each page is free or mapped at most once, whatever the addresses.
OwnInv == free \subseteq PPages /\ MappedPagesOwned

LEMMA GrowthKeepsOwners ==
  ASSUME OwnInv, NEW n \in Nat, NEW first \in Nat,
         mapped' = mapped \cup Onto(first, Block(n)), free' = free \ Block(n)
  PROVE  OwnInv'
<1>1. /\ Block(n) \subseteq free
      /\ \A m \in Onto(first, Block(n)) : m[2] \in Block(n)
      /\ \A m, l \in Onto(first, Block(n)) : m[2] = l[2] => m = l
  BY OntoFacts DEF OwnInv
<1>2. /\ \A m, l \in mapped : m[2] = l[2] => m = l
      /\ \A m \in mapped : m[2] \notin free
  BY DEF OwnInv, MappedPagesOwned
<1>3. \A m, l \in mapped' : m[2] = l[2] => m = l
  <2> TAKE m, l \in mapped'
  <2> HAVE m[2] = l[2]
  <2>1. (m \in mapped /\ l \in mapped) \/ (m \in Onto(first, Block(n)) /\ l \in Onto(first, Block(n)))
    BY <1>1, <1>2
  <2> QED  BY <1>1, <1>2, <2>1
<1>4. \A m \in mapped' : m[2] \notin free'
  BY <1>1, <1>2
<1> QED  BY <1>3, <1>4 DEF OwnInv, MappedPagesOwned

-----------------------------------------------------------------------------
(* Regions. *)

Bottom == STACK_TOP - STACK_SIZE + 1
HeapStart(l) == AlignUp(l[3])
HeapEnd(l) == HeapStart(l) + HEAP_SIZE
Region(s, e, f) == [start |-> s, end |-> e, flags |-> f]

RegionsOf(l) ==
  {Region(l[1], l[2], {"READ", "EXEC"}),
   Region(AlignUp(l[2]), l[3], {"READ", "WRITE"}),
   Region(HeapStart(l), HeapEnd(l) - 1, {"READ", "WRITE", "HEAP"}),
   Region(HeapEnd(l), HeapEnd(l) - 1 + GUARD_SIZE, {}),
   Region(Bottom - GUARD_SIZE, Bottom - 1, {}),
   Region(Bottom, STACK_TOP, {"READ", "WRITE", "STACK"})}

LEMMA AlignUpFacts ==
  ASSUME NEW a \in Nat
  PROVE  AlignUp(a) \in Nat /\ AlignUp(a) % PAGE_SIZE = 0
<1>1. PAGE_SIZE \in Nat \ {0} /\ a + PAGE_SIZE - 1 \in Nat
  BY LayoutAssumption, SMTT(30)
<1> DEFINE q == (a + PAGE_SIZE - 1) \div PAGE_SIZE
<1>2. q \in Nat /\ AlignUp(a) = q * PAGE_SIZE
  BY <1>1, Quotient DEF AlignUp
<1> HIDE DEF q
<1> QED  BY <1>1, <1>2, SMTT(30)

LEMMA LayoutFacts ==
  ASSUME NEW l \in Layouts
  PROVE  /\ l[1] \in Nat /\ l[2] \in Nat /\ l[3] \in Nat
         /\ HeapStart(l) \in Nat /\ HeapEnd(l) \in Nat
         /\ Bottom \in Nat /\ Bottom % PAGE_SIZE = 0
<1>1. l[1] \in Nat /\ l[2] \in Nat /\ l[3] \in Nat
  BY LayoutAssumption
<1>2. HeapStart(l) \in Nat /\ HeapEnd(l) \in Nat
  BY <1>1, AlignUpFacts, LayoutAssumption, SMTT(30) DEF HeapStart, HeapEnd
<1>3. Bottom \in Nat
  BY LayoutAssumption, SMTT(30) DEF Bottom
<1>4. Bottom % PAGE_SIZE = 0
  <2> DEFINE t == (STACK_TOP + 1) \div PAGE_SIZE
             z == STACK_SIZE \div PAGE_SIZE
  <2>0. PAGE_SIZE \in Nat \ {0} /\ STACK_TOP + 1 \in Nat /\ STACK_SIZE \in Nat
    BY LayoutAssumption, SMTT(30)
  <2>1. t \in Nat /\ z \in Nat /\ STACK_TOP + 1 = t * PAGE_SIZE /\ STACK_SIZE = z * PAGE_SIZE
    BY <2>0, LayoutAssumption, Quotient
  <2> HIDE DEF t, z
  <2>2. (t - z) * PAGE_SIZE = t * PAGE_SIZE - z * PAGE_SIZE
    BY <2>0, <2>1, SMTT(30)
  <2>3. Bottom = (t - z) * PAGE_SIZE
    BY <2>0, <2>1, <2>2, LayoutAssumption, SMTT(30) DEF Bottom
  <2> QED  BY <2>0, <2>1, <2>3, SMTT(30)
<1> QED  BY <1>1, <1>2, <1>3, <1>4

LEMMA AddRegion ==
  ASSUME NEW S, NEW list \in Seq(S), NEW s, NEW e, NEW f, Region(s, e, f) \in S
  PROVE  mm_add_region(list, s, e, f) \in Seq(S)
<1>1. <<Region(s, e, f)>> \in Seq(S)
  BY SMTT(30)
<1>2. <<Region(s, e, f)>> \o list \in Seq(S)
  BY <1>1, SMTT(30)
<1> QED  BY <1>2 DEF mm_add_region, Region

LEMMA ExecutableRegions ==
  ASSUME NEW l \in Layouts
  PROVE  Executable(l[1], l[2], l[3]) \in Seq(RegionsOf(l))
<1> DEFINE S == RegionsOf(l)
           he == HeapStart(l) + HEAP_SIZE - 1
           r1 == mm_add_region(<<>>, l[1], l[2], {"READ", "EXEC"})
           r2 == mm_add_region(r1, AlignUp(l[2]), l[3], {"READ", "WRITE"})
           r3 == mm_add_region(r2, HeapStart(l), he, {"READ", "WRITE", "HEAP"})
           r4 == mm_add_region(r3, he + 1, he + GUARD_SIZE, {})
           r5 == mm_add_region(r4, Bottom - GUARD_SIZE, Bottom - 1, {})
           r6 == mm_add_region(r5, Bottom, STACK_TOP, {"READ", "WRITE", "STACK"})
<1>1. Executable(l[1], l[2], l[3]) = r6
  BY DEF Executable, HeapStart, Bottom
<1>2. he = HeapEnd(l) - 1 /\ he + 1 = HeapEnd(l)
  BY LayoutFacts, LayoutAssumption, SMTT(30) DEF HeapEnd
<1>3. /\ Region(l[1], l[2], {"READ", "EXEC"}) \in S
      /\ Region(AlignUp(l[2]), l[3], {"READ", "WRITE"}) \in S
      /\ Region(HeapStart(l), he, {"READ", "WRITE", "HEAP"}) \in S
      /\ Region(he + 1, he + GUARD_SIZE, {}) \in S
      /\ Region(Bottom - GUARD_SIZE, Bottom - 1, {}) \in S
      /\ Region(Bottom, STACK_TOP, {"READ", "WRITE", "STACK"}) \in S
  BY <1>2 DEF RegionsOf
<1> HIDE DEF S, he
<1>4. <<>> \in Seq(S)
  BY SMTT(30)
<1>5. r1 \in Seq(S)
  BY <1>3, <1>4, AddRegion
<1> HIDE DEF r1
<1>6. r2 \in Seq(S)
  BY <1>3, <1>5, AddRegion
<1> HIDE DEF r2
<1>7. r3 \in Seq(S)
  BY <1>3, <1>6, AddRegion
<1> HIDE DEF r3
<1>8. r4 \in Seq(S)
  BY <1>3, <1>7, AddRegion
<1> HIDE DEF r4
<1>9. r5 \in Seq(S)
  BY <1>3, <1>8, AddRegion
<1> HIDE DEF r5
<1>10. r6 \in Seq(S)
  BY <1>3, <1>9, AddRegion
<1> QED  BY <1>1, <1>10 DEF S

\* A set of natural numbers has a smallest element.
LEMMA Smallest ==
  ASSUME NEW S, S \subseteq Nat, S # {}
  PROVE  \E x \in S : \A y \in S : x <= y
<1>1. PICK x \in S : \A y \in S : ~(<<y, x>> \in OpToRel(<, Nat))
  BY NatLessThanWellFounded, WFMin
<1>2. ASSUME NEW y \in S, y < x PROVE FALSE
  <2>1. <<y, x>> \in OpToRel(<, Nat)
    BY <1>2 DEF OpToRel
  <2> QED  BY <1>1, <2>1
<1>3. \A y \in S : x \in Nat /\ y \in Nat
  OBVIOUS
<1> QED  BY <1>2, <1>3, SMTT(30)

\* A fault the handler acts on is in a region of that kind.
LEMMA FaultRegion ==
  ASSUME NEW S, regions \in Seq(S), NEW kind, Faults(kind)
  PROVE  \E i \in DOMAIN regions :
           /\ regions[i] \in S /\ kind \in regions[i].flags
           /\ regions[i].start <= touch.addr /\ touch.addr <= regions[i].end
<1> DEFINE C == Containing(touch.addr)
           i == CHOOSE i \in C : \A j \in C : i <= j
<1>1. mm_find_region(touch.addr) # None /\ kind \in mm_find_region(touch.addr).flags
  BY DEF Faults, mm_check_access
<1>2. C # {} /\ mm_find_region(touch.addr) = regions[i]
  BY <1>1 DEF mm_find_region
<1>3. C \subseteq Nat /\ C \subseteq DOMAIN regions
  BY SMTT(30) DEF Containing
<1>4. i \in C
  BY <1>2, <1>3, Smallest
<1>5. i \in DOMAIN regions /\ regions[i].start <= touch.addr /\ touch.addr <= regions[i].end
  BY <1>4 DEF Containing
<1>6. regions[i] \in S
  BY <1>5, SMTT(30)
<1> HIDE DEF i
<1> QED  BY <1>1, <1>2, <1>5, <1>6

-----------------------------------------------------------------------------
(* The inductive invariant. *)

\* Of the pages mapped, those of the heap are below brk and the others in the stack;
\* and brk, which mm_expand_heap never compares with the heap's end, goes from the
\* heap's start to its end in steps that divide the heap's size.
BrkInHeap(l) == \E k \in Nat : brk = HeapStart(l) + k * HEAP_GROW_SIZE /\ brk <= HeapEnd(l)

LaidOut(l) ==
  /\ regions \in Seq(RegionsOf(l))
  /\ BrkInHeap(l)
  /\ \A m \in mapped : m[1] \in Nat /\ (m[1] < PageOf(brk) \/ PageOf(Bottom) <= m[1])

Inv ==
  /\ OwnInv
  /\ touch # None => touch.addr \in Nat
  /\ ~alive => regions = <<>> /\ mapped = {}
  /\ alive => \E l \in Layouts : LaidOut(l)

LEMMA BrkIsNat ==
  ASSUME NEW l \in Layouts, BrkInHeap(l)
  PROVE  brk \in Nat /\ HEAP_GROW_SIZE \in Nat \ {0}
<1>1. PAGE_SIZE \in Nat \ {0} /\ HEAP_GROW_PAGES \in Nat \ {0}
  BY LayoutAssumption
<1>2. HEAP_GROW_SIZE \in Nat \ {0}
  BY <1>1, SMTT(30) DEF HEAP_GROW_SIZE
<1>3. PICK k \in Nat : brk = HeapStart(l) + k * HEAP_GROW_SIZE
  BY DEF BrkInHeap
<1>4. k * HEAP_GROW_SIZE \in Nat /\ HeapStart(l) \in Nat
  BY <1>2, LayoutFacts, SMTT(30)
<1> QED  BY <1>2, <1>3, <1>4, SMTT(30)

\* The heap's size is a multiple of its growth: a growth that starts in the heap
\* ends in it.
LEMMA GrowthStaysInHeap ==
  ASSUME NEW l \in Layouts, BrkInHeap(l), brk < HeapEnd(l), brk' = brk + HEAP_GROW_SIZE
  PROVE  BrkInHeap(l)'
<1> DEFINE g == HEAP_GROW_SIZE
           n == HEAP_SIZE \div g
<1>1. g \in Nat \ {0} /\ brk \in Nat /\ HeapStart(l) \in Nat /\ HEAP_SIZE \in Nat
  BY BrkIsNat, LayoutFacts, LayoutAssumption
<1>2. n \in Nat /\ HEAP_SIZE = n * g
  <2>1. HEAP_SIZE % g = 0
    BY LayoutAssumption DEF HEAP_GROW_SIZE
  <2> QED  BY <1>1, <2>1, Quotient
<1>3. PICK k \in Nat : brk = HeapStart(l) + k * g
  BY DEF BrkInHeap
<1>4. HeapEnd(l) = HeapStart(l) + n * g
  BY <1>2 DEF HeapEnd
<1> HIDE DEF g, n
<1>5. k * g \in Nat /\ n * g \in Nat /\ (k + 1) * g = k * g + g
  BY <1>1, <1>2, SMTT(30)
<1>6. k * g < n * g
  BY <1>1, <1>3, <1>4, <1>5, SMTT(30)
<1>7. k < n
  <2> SUFFICES ASSUME ~(k < n) PROVE FALSE
    OBVIOUS
  <2>1. k = n \/ n < k
    BY <1>2, SMTT(30)
  <2>2. CASE n < k
    <3>1. n * g + g <= k * g
      BY <1>1, <1>2, <2>2, SmallerProduct
    <3> QED  BY <1>1, <1>5, <1>6, <3>1, SMTT(30)
  <2> QED  BY <1>5, <1>6, <2>1, <2>2, SMTT(30)
<1>8. k * g + g <= n * g
  BY <1>1, <1>2, <1>7, SmallerProduct
<1>9. brk' = HeapStart(l) + (k + 1) * g /\ brk' <= HeapEnd(l) /\ k + 1 \in Nat
  BY <1>1, <1>3, <1>4, <1>5, <1>8, SMTT(30) DEF g
<1> QED  BY <1>9 DEF BrkInHeap, HeapStart, HeapEnd, AlignUp, g

LEMMA InitInv == Init => Inv
  BY DEF Init, Inv, OwnInv, MappedPagesOwned

LEMMA SetupInv ==
  ASSUME Inv, NEW l \in Layouts, mm_setup_executable(l)
  PROVE  Inv'
<1>1. /\ ~alive /\ alive' = TRUE /\ regions' = Executable(l[1], l[2], l[3])
      /\ brk' = AlignUp(l[3]) /\ UNCHANGED <<mapped, free, touch>>
  BY DEF mm_setup_executable
<1>2. regions' \in Seq(RegionsOf(l)) /\ mapped' = {}
  BY <1>1, ExecutableRegions DEF Inv
<1>3. BrkInHeap(l)'
  <2>1. HEAP_GROW_SIZE \in Nat
    BY LayoutAssumption, SMTT(30) DEF HEAP_GROW_SIZE
  <2>2. HeapStart(l) \in Nat /\ HEAP_SIZE \in Nat
    BY LayoutFacts, LayoutAssumption
  <2>3. brk' = HeapStart(l) + 0 * HEAP_GROW_SIZE /\ brk' <= HeapEnd(l)
    BY <1>1, <2>1, <2>2, SMTT(30) DEF HeapStart, HeapEnd
  <2> QED  BY <2>3 DEF BrkInHeap
<1>4. LaidOut(l)'
  BY <1>2, <1>3 DEF LaidOut, RegionsOf
<1>5. OwnInv'
  BY <1>1 DEF Inv, OwnInv, MappedPagesOwned
<1> QED  BY <1>1, <1>4, <1>5 DEF Inv

LEMMA FreeInv ==
  ASSUME Inv, mm_free
  PROVE  Inv'
BY DEF mm_free, Inv, OwnInv, MappedPagesOwned

LEMMA RemoveRegionInv ==
  ASSUME Inv, RemoveRegion
  PROVE  Inv'
<1>1. alive /\ UNCHANGED <<alive, brk, mapped, free, touch>>
  BY DEF RemoveRegion
<1>2. PICK l \in Layouts : LaidOut(l)
  BY <1>1 DEF Inv
<1>3. PICK i \in DOMAIN regions :
        regions' = SubSeq(regions, 1, i - 1) \o SubSeq(regions, i + 1, Len(regions))
  BY DEF RemoveRegion, mm_remove_region
<1>4. regions \in Seq(RegionsOf(l)) /\ i \in 1 .. Len(regions) /\ Len(regions) \in Nat
  BY <1>2, SMTT(30) DEF LaidOut
<1>5. /\ SubSeq(regions, 1, i - 1) \in Seq(RegionsOf(l))
      /\ SubSeq(regions, i + 1, Len(regions)) \in Seq(RegionsOf(l))
  BY <1>4, SMTT(30)
<1>6. regions' \in Seq(RegionsOf(l))
  BY <1>3, <1>5, SMTT(30)
<1>7. LaidOut(l)'
  BY <1>1, <1>2, <1>6 DEF LaidOut, BrkInHeap, RegionsOf
<1>8. OwnInv'
  BY <1>1 DEF Inv, OwnInv, MappedPagesOwned
<1> QED  BY <1>1, <1>7, <1>8 DEF Inv

\* Steps that only begin or end an access.
LEMMA SameMemory ==
  ASSUME Inv, UNCHANGED <<alive, regions, brk, mapped, free>>, touch' # None => touch'.addr \in Nat
  PROVE  Inv'
<1>1. OwnInv'
  BY DEF Inv, OwnInv, MappedPagesOwned
<1>2. \A l \in Layouts : LaidOut(l) => LaidOut(l)'
  BY DEF LaidOut, BrkInHeap, RegionsOf
<1> QED  BY <1>1, <1>2 DEF Inv

LEMMA ExpandStackInv ==
  ASSUME Inv, mm_expand_stack
  PROVE  Inv'
<1>1. /\ Faults("STACK") /\ free' = free \ Block(1)
      /\ UNCHANGED <<alive, regions, brk, touch>>
  BY DEF mm_expand_stack
<1>2. touch.addr \in Nat /\ PageOf(touch.addr) \in Nat
  BY <1>1, DivisionFacts DEF Faults, Inv
<1>3. regions # <<>>
  <2> SUFFICES ASSUME regions = <<>> PROVE FALSE
    OBVIOUS
  <2>1. regions \in Seq({})
    BY SMTT(30)
  <2> QED  BY <1>1, <2>1, FaultRegion, SMTT(30)
<1>4. PICK l \in Layouts : LaidOut(l)
  BY <1>3 DEF Inv
<1>5. PageOf(Bottom) <= PageOf(touch.addr) /\ PageOf(Bottom) \in Nat
  <2>1. PICK i \in DOMAIN regions :
          /\ regions[i] \in RegionsOf(l) /\ "STACK" \in regions[i].flags
          /\ regions[i].start <= touch.addr
    BY <1>1, <1>4, FaultRegion DEF LaidOut
  <2>2. regions[i].start = Bottom
    BY <2>1, SMTT(30) DEF RegionsOf, Region
  <2> QED  BY <1>2, <2>1, <2>2, LayoutFacts, PageOfMonotone, DivisionFacts
<1>6. CASE mapped' = mapped \cup Onto(PageOf(touch.addr), Block(1))
  <2>1. OwnInv'
    BY <1>1, <1>2, <1>6, GrowthKeepsOwners DEF Inv
  <2>2. \A m \in Onto(PageOf(touch.addr), Block(1)) : m[1] \in Nat /\ PageOf(touch.addr) <= m[1]
    BY <1>2, OntoFacts DEF Inv, OwnInv
  <2>3. \A m \in mapped' : m[1] \in Nat /\ (m[1] < PageOf(brk) \/ PageOf(Bottom) <= m[1])
    BY <1>2, <1>4, <1>5, <1>6, <2>2, SMTT(30) DEF LaidOut
  <2>4. LaidOut(l)'
    BY <1>1, <1>4, <2>3 DEF LaidOut, BrkInHeap, RegionsOf
  <2> QED  BY <1>1, <1>3, <2>1, <2>4 DEF Inv
<1>7. CASE UNCHANGED mapped
  <2>1. OwnInv'
    BY <1>1, <1>7 DEF Inv, OwnInv, MappedPagesOwned
  <2>2. LaidOut(l)'
    BY <1>1, <1>4, <1>7 DEF LaidOut, BrkInHeap, RegionsOf
  <2> QED  BY <1>1, <1>3, <2>1, <2>2 DEF Inv
<1> QED  BY <1>6, <1>7 DEF mm_expand_stack

LEMMA ExpandHeapInv ==
  ASSUME Inv, mm_expand_heap
  PROVE  Inv'
<1> DEFINE n == HEAP_GROW_PAGES
<1>1. /\ Faults("HEAP") /\ touch.addr >= brk /\ brk' = brk + HEAP_GROW_SIZE
      /\ UNCHANGED <<alive, regions, touch>>
  BY DEF mm_expand_heap
<1>2. touch.addr \in Nat /\ n \in Nat
  BY <1>1, LayoutAssumption DEF Faults, Inv
<1>3. regions # <<>>
  <2> SUFFICES ASSUME regions = <<>> PROVE FALSE
    OBVIOUS
  <2>1. regions \in Seq({})
    BY SMTT(30)
  <2> QED  BY <1>1, <2>1, FaultRegion, SMTT(30)
<1>4. PICK l \in Layouts : LaidOut(l)
  BY <1>3 DEF Inv
<1>5. brk \in Nat /\ PageOf(brk) \in Nat /\ BrkInHeap(l)
  BY <1>4, BrkIsNat, DivisionFacts DEF LaidOut
<1>6. brk < HeapEnd(l)
  <2>1. PICK i \in DOMAIN regions :
          /\ regions[i] \in RegionsOf(l) /\ "HEAP" \in regions[i].flags
          /\ touch.addr <= regions[i].end
    BY <1>1, <1>4, FaultRegion DEF LaidOut
  <2>2. regions[i].end = HeapEnd(l) - 1
    BY <2>1, SMTT(30) DEF RegionsOf, Region
  <2> QED  BY <1>1, <1>2, <1>5, <2>1, <2>2, LayoutFacts, SMTT(30)
<1>7. BrkInHeap(l)'
  BY <1>1, <1>5, <1>6, GrowthStaysInHeap
<1>8. PageOf(brk') = PageOf(brk) + n
  BY <1>1, <1>2, <1>5, PageOfSum DEF HEAP_GROW_SIZE
<1> HIDE DEF n
<1>9. \A m \in mapped : m[1] \in Nat /\ (m[1] < PageOf(brk') \/ PageOf(Bottom) <= m[1])
  BY <1>2, <1>4, <1>5, <1>8, SMTT(30) DEF LaidOut
<1>10. CASE mapped' = mapped \cup Onto(PageOf(brk), Block(n)) /\ free' = free \ Block(n)
  <2>1. OwnInv'
    BY <1>2, <1>5, <1>10, GrowthKeepsOwners DEF Inv
  <2>2. \A m \in Onto(PageOf(brk), Block(n)) : m[1] \in Nat /\ m[1] < PageOf(brk) + n
    BY <1>2, <1>5, OntoFacts DEF Inv, OwnInv
  <2>3. \A m \in mapped' : m[1] \in Nat /\ (m[1] < PageOf(brk') \/ PageOf(Bottom) <= m[1])
    BY <1>8, <1>9, <1>10, <2>2
  <2>4. LaidOut(l)'
    BY <1>1, <1>4, <1>7, <2>3 DEF LaidOut, RegionsOf
  <2> QED  BY <1>1, <1>3, <2>1, <2>4 DEF Inv
<1>11. CASE UNCHANGED <<mapped, free>>
  <2>1. OwnInv'
    BY <1>11 DEF Inv, OwnInv, MappedPagesOwned
  <2>2. LaidOut(l)'
    BY <1>1, <1>4, <1>7, <1>9, <1>11 DEF LaidOut, RegionsOf
  <2> QED  BY <1>1, <1>3, <2>1, <2>2 DEF Inv
<1> QED  BY <1>10, <1>11 DEF mm_expand_heap, n

LEMMA InvInductive == Inv /\ [Next]_vars => Inv'
<1> SUFFICES ASSUME Inv, [Next]_vars PROVE Inv'
  OBVIOUS
<1>1. ASSUME NEW l \in Layouts, mm_setup_executable(l) PROVE Inv'
  BY <1>1, SetupInv
<1>2. ASSUME NEW addr \in Touched, NEW access \in Accesses, Touch(addr, access) PROVE Inv'
  <2>1. touch' = [addr |-> addr, access |-> access] /\ addr \in Nat
        /\ UNCHANGED <<alive, regions, brk, mapped, free>>
    BY <1>2, LayoutAssumption DEF Touch
  <2>2. touch'.addr \in Nat
    BY <2>1
  <2> QED  BY <2>1, <2>2, SameMemory
<1>3. CASE TouchSucceeds
  <2>1. touch' = None /\ UNCHANGED <<alive, regions, brk, mapped, free>>
    BY <1>3 DEF TouchSucceeds
  <2> QED  BY <2>1, SameMemory
<1>4. CASE FaultAgain \/ UNCHANGED vars
  <2>1. UNCHANGED <<alive, regions, brk, mapped, free, touch>>
    BY <1>4 DEF FaultAgain, vars
  <2> QED  BY <2>1, SameMemory DEF Inv
<1> QED  BY <1>1, <1>2, <1>3, <1>4, FreeInv, RemoveRegionInv, ExpandStackInv, ExpandHeapInv DEF Next

\* The inductive invariant: the owners of the pages, the regions, and brk between them.
THEOREM Invariance == Spec => []Inv
  BY InitInv, InvInductive, PTL DEF Spec

\* Heap and stack never share a physical page, nor use one the allocator can grant
\* again, also when mm_expand_heap gives its block back.
THEOREM PagesMappedOnce == Spec => []MappedPagesOwned
<1>1. Inv => MappedPagesOwned
  BY DEF Inv, OwnInv
<1> QED  BY <1>1, Invariance, PTL

\* mm_setup_executable does not compare the executable with the stack: this says that
\* the heap and its guard end below the stack.
BelowStack == \A l \in Layouts : AlignUp(l[3]) + HEAP_SIZE + GUARD_SIZE <= STACK_TOP - STACK_SIZE + 1

\* When heap and stack do not meet, no page of a guard region is ever mapped: the
\* growth of the heap stops at its end although mm_expand_heap never looks at it.
THEOREM GuardsStayUnmapped ==
  ASSUME BelowStack
  PROVE  Spec => []GuardNeverMapped
<1>1. Inv => GuardNeverMapped
  <2> SUFFICES ASSUME Inv, NEW i \in DOMAIN regions, regions[i].flags = {},
                      NEW addr \in regions[i].start .. regions[i].end, IsMapped(addr)
               PROVE  FALSE
    BY DEF GuardNeverMapped
  <2>1. PICK l \in Layouts : LaidOut(l)
    BY SMTT(30) DEF Inv
  <2>2. regions[i] \in RegionsOf(l)
    BY <2>1, SMTT(30) DEF LaidOut
  <2>3. /\ HeapEnd(l) \in Nat /\ Bottom \in Nat /\ Bottom % PAGE_SIZE = 0
        /\ GUARD_SIZE \in Nat
    BY LayoutFacts, LayoutAssumption
  <2>4. HeapEnd(l) + GUARD_SIZE <= Bottom
    <3>1. HeapStart(l) \in Nat /\ HEAP_SIZE \in Nat /\ GUARD_SIZE \in Nat
      BY LayoutFacts, LayoutAssumption
    <3> QED  BY <3>1 DEF BelowStack, HeapEnd, HeapStart, Bottom
  <2>5. \/ regions[i].start = HeapEnd(l) /\ regions[i].end = HeapEnd(l) - 1 + GUARD_SIZE
        \/ regions[i].start = Bottom - GUARD_SIZE /\ regions[i].end = Bottom - 1
    BY <2>2, SMTT(30) DEF RegionsOf, Region
  <2>6. addr \in Nat /\ HeapEnd(l) <= addr /\ addr < Bottom
    BY <2>3, <2>4, <2>5, SMTT(30)
  <2>7. PICK m \in mapped : m[1] = PageOf(addr)
    BY DEF IsMapped
  <2>8. PageOf(addr) \in Nat /\ PageOf(addr) < PageOf(Bottom) /\ PageOf(Bottom) \in Nat
    BY <2>3, <2>6, PageOfMonotone, DivisionFacts, SMTT(30)
  <2>9. PageOf(brk) <= PageOf(addr) /\ PageOf(brk) \in Nat
    <3>1. brk \in Nat /\ brk <= HeapEnd(l)
      BY <2>1, BrkIsNat DEF LaidOut, BrkInHeap
    <3>2. brk <= addr
      BY <2>3, <2>6, <3>1, SMTT(30)
    <3> QED  BY <2>6, <3>1, <3>2, PageOfMonotone, DivisionFacts
  <2>10. m[1] < PageOf(brk) \/ PageOf(Bottom) <= m[1]
    BY <2>1 DEF LaidOut
  <2> QED  BY <2>7, <2>8, <2>9, <2>10, SMTT(30)
<1> QED  BY <1>1, Invariance, PTL
====
