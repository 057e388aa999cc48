------------------------------ MODULE VMMProofs ------------------------------
(***************************************************************************)
(* Proofs about VMM, for every number of entries, every pool of pages, any *)
(* number of user spaces and every set of requests: the tables of a space  *)
(* form a tree, no table is lost or shared, the kernel half is the same in *)
(* all spaces, the processor caches no stale translation, and the calls    *)
(* keep the promise of AddressSpace.                                       *)
(***************************************************************************)
EXTENDS VMM, TLAPS

\* Leaves go to Zenon unless they name the SMT solver.
USE ZenonT(30)

-----------------------------------------------------------------------------
(* Arithmetic of the indices. *)

LEMMA Quotient ==
  ASSUME NEW a \in Nat, NEW z \in Nat \ {0}
  PROVE  a \div z \in Nat /\ (a \div z) * z <= a /\ a < (a \div z) * z + z
  BY SMTT(30)

LEMMA Remainder ==
  ASSUME NEW a \in Nat, NEW z \in Nat \ {0}
  PROVE  a % z \in 0 .. z - 1 /\ a = (a \div z) * z + (a % z)
<1>1. a % z \in 0 .. z - 1
  BY SMTT(30)
<1>2. a = z * (a \div z) + (a % z)
  BY SMTT(30)
<1>3. z * (a \div z) = (a \div z) * z
  BY Quotient, SMTT(30)
<1> QED  BY <1>1, <1>2, <1>3

LEMMA SmallerProduct ==
  ASSUME NEW a \in Nat, NEW b \in Nat, NEW z \in Nat, a < b
  PROVE  a * z + z <= b * z
<1>1. PICK c \in Nat : b = (a + 1) + c
  BY SMTT(30)
<1>2. b * z = (a * z + z) + c * z /\ c * z \in Nat /\ a * z \in Nat
  BY <1>1, SMTT(30)
<1> QED  BY <1>2, SMTT(30)

LEMMA QuotientUnique ==
  ASSUME NEW a \in Nat, NEW z \in Nat \ {0}, NEW q \in Nat, q * z <= a, a < q * z + z
  PROVE  a \div z = q
<1> DEFINE r == a \div z
<1>1. r \in Nat /\ r * z <= a /\ a < r * z + z
  BY Quotient
<1> HIDE DEF r
<1>2. r * z \in Nat /\ q * z \in Nat
  BY <1>1, SMTT(30)
<1>3. ~ r < q
  <2> SUFFICES ASSUME r < q PROVE FALSE
    OBVIOUS
  <2>1. r * z + z <= q * z
    BY <1>1, SmallerProduct
  <2> QED  BY <1>1, <1>2, <2>1, SMTT(30)
<1>4. ~ q < r
  <2> SUFFICES ASSUME q < r PROVE FALSE
    OBVIOUS
  <2>1. q * z + z <= r * z
    BY <1>1, SmallerProduct
  <2> QED  BY <1>1, <1>2, <2>1, SMTT(30)
<1> QED  BY <1>1, <1>3, <1>4, SMTT(30) DEF r

LEMMA QuotientOfQuotient ==
  ASSUME NEW a \in Nat, NEW y \in Nat \ {0}, NEW z \in Nat \ {0}
  PROVE  (a \div y) \div z = a \div (y * z)
<1> DEFINE p == a \div y
           q == p \div z
<1>1. p \in Nat /\ p * y <= a /\ a < p * y + y
  BY Quotient
<1>2. q \in Nat /\ q * z <= p /\ p < q * z + z
  BY <1>1, Quotient
<1> HIDE DEF p, q
<1> DEFINE w == q * z
<1>3. w \in Nat /\ w <= p /\ p < w + z
  BY <1>2, SMTT(30)
<1>4. w * y = q * (y * z) /\ (w + z) * y = q * (y * z) + y * z
  BY <1>2, SMTT(30)
<1>5. y * z \in Nat \ {0} /\ q * (y * z) \in Nat
  BY <1>2, SMTT(30)
<1> HIDE DEF w
<1>6. p * y \in Nat /\ w * y \in Nat /\ w * y <= p * y
  <2>1. CASE w = p
    BY <1>1, <2>1, SMTT(30)
  <2>2. CASE w < p
    <3>1. w * y + y <= p * y
      BY <1>1, <1>3, <2>2, SmallerProduct
    <3>2. w * y \in Nat /\ p * y \in Nat
      BY <1>1, <1>3, SMTT(30)
    <3> QED  BY <3>1, <3>2, SMTT(30)
  <2> QED  BY <1>1, <1>3, <2>1, <2>2, SMTT(30)
<1>7. p * y + y <= (w + z) * y
  BY <1>1, <1>3, SmallerProduct, SMTT(30)
<1>8. q * (y * z) <= a /\ a < q * (y * z) + y * z
  <2> DEFINE m == y * z
             u == q * m
             x == p * y
             t == w * y
             b == (w + z) * y
  <2>1. t = u /\ b = u + m /\ x \in Nat /\ t \in Nat /\ t <= x /\ x + y <= b /\ m \in Nat
        /\ x <= a /\ a < x + y
    BY <1>1, <1>4, <1>5, <1>6, <1>7
  <2> HIDE DEF m, u, x, t, b
  <2>2. u <= a /\ a < u + m
    BY <2>1, SMTT(30)
  <2> QED  BY <2>2 DEF u, m
<1>9. a \div (y * z) = q
  BY <1>2, <1>5, <1>8, QuotientUnique
<1> QED  BY <1>9 DEF p, q

LEMMA QuotientBound ==
  ASSUME NEW a \in Nat, NEW z \in Nat \ {0}, NEW n \in Nat
  PROVE  a \div z < n <=> a < n * z
<1> DEFINE q == a \div z
<1>1. q \in Nat /\ q * z <= a /\ a < q * z + z
  BY Quotient
<1> HIDE DEF q
<1>2. q * z \in Nat /\ n * z \in Nat
  BY <1>1, SMTT(30)
<1>3. q < n => a < n * z
  <2> SUFFICES ASSUME q < n PROVE a < n * z
    OBVIOUS
  <2>1. q * z + z <= n * z
    BY <1>1, SmallerProduct
  <2> QED  BY <1>1, <1>2, <2>1, SMTT(30)
<1>4. ~(q < n) => ~(a < n * z)
  <2> SUFFICES ASSUME ~(q < n) PROVE n * z <= a
    BY <1>2, SMTT(30)
  <2>1. CASE q = n
    BY <1>1, <2>1
  <2>2. CASE n < q
    <3>1. n * z + z <= q * z
      BY <1>1, <2>2, SmallerProduct
    <3> QED  BY <1>1, <1>2, <3>1, SMTT(30)
  <2> QED  BY <1>1, <2>1, <2>2, SMTT(30)
<1> QED  BY <1>3, <1>4 DEF q

\* The place of the table that a walk to page v meets at a level, among all places of
\* that level; and the place below entry i of the table at place n.
Place(v, level) == IF level = 0 THEN 0 ELSE v \div Span(level - 1)
Child(n, i) == n * ENTRIES + i
AllPages == UserPages \cup KernelPages

LEMMA SlotFacts ==
  /\ ENTRIES \in Nat \ {0} /\ ENTRIES \div 2 \in Nat /\ ENTRIES \div 2 \in Slots
  /\ Slots = UserSlots \cup KernelSlots /\ UserSlots \cap KernelSlots = {}
  /\ ENTRIES \div 2 \in KernelSlots
  /\ \A i \in Slots : i \in Nat /\ i < ENTRIES /\ (i \in UserSlots <=> i < ENTRIES \div 2)
<1>1. ENTRIES \in Nat \ {0} /\ ENTRIES % 2 = 0
  BY ShapeAssumption
<1>2. ENTRIES \div 2 \in Nat /\ ENTRIES \div 2 < ENTRIES
  BY <1>1, SMTT(30)
<1> QED  BY <1>1, <1>2, SMTT(30) DEF Slots, UserSlots, KernelSlots

LEMMA ChildInjective ==
  ASSUME NEW n \in Nat, NEW m \in Nat, NEW i \in Slots, NEW j \in Slots
  PROVE  /\ Child(n, i) \in Nat
         /\ Child(n, i) = Child(m, j) => n = m /\ i = j
<1>1. ENTRIES \in Nat \ {0} /\ i \in Nat /\ j \in Nat /\ i < ENTRIES /\ j < ENTRIES
  BY SlotFacts
<1>2. n * ENTRIES \in Nat /\ m * ENTRIES \in Nat
  BY <1>1, SMTT(30)
<1>3. Child(n, i) \in Nat
  BY <1>1, <1>2, SMTT(30) DEF Child
<1>4. ASSUME n * ENTRIES + i = m * ENTRIES + j PROVE n = m
  <2>1. ~ n < m
    <3> SUFFICES ASSUME n < m PROVE FALSE
      OBVIOUS
    <3>1. n * ENTRIES + ENTRIES <= m * ENTRIES
      BY <1>1, SmallerProduct
    <3> QED  BY <1>1, <1>2, <1>4, <3>1, SMTT(30)
  <2>2. ~ m < n
    <3> SUFFICES ASSUME m < n PROVE FALSE
      OBVIOUS
    <3>1. m * ENTRIES + ENTRIES <= n * ENTRIES
      BY <1>1, SmallerProduct
    <3> QED  BY <1>1, <1>2, <1>4, <3>1, SMTT(30)
  <2> QED  BY <2>1, <2>2, SMTT(30)
<1>5. ASSUME n * ENTRIES + i = m * ENTRIES + j PROVE i = j
  BY <1>1, <1>2, <1>4, <1>5, SMTT(30)
<1> QED  BY <1>3, <1>4, <1>5 DEF Child

LEMMA SpanFacts ==
  /\ Span(3) = 1 /\ Span(2) = ENTRIES /\ Span(1) = Span(2) * ENTRIES /\ Span(0) = Span(1) * ENTRIES
  /\ Span(0) \in Nat \ {0} /\ Span(1) \in Nat \ {0} /\ Span(2) \in Nat \ {0}
<1>1. ENTRIES \in Nat \ {0}
  BY ShapeAssumption
<1>2. Span(3) = 1 /\ Span(2) = ENTRIES /\ Span(1) = ENTRIES * ENTRIES
      /\ Span(0) = ENTRIES * ENTRIES * ENTRIES
  BY SMTT(30) DEF Span
<1>3. ENTRIES * ENTRIES \in Nat \ {0}
  BY <1>1, SMTT(30)
<1>4. ENTRIES * ENTRIES * ENTRIES \in Nat \ {0}
  BY <1>1, <1>3, SMTT(30)
<1> QED  BY <1>1, <1>2, <1>3, <1>4

LEMMA PagesAreNat ==
  /\ \A v \in AllPages : v \in Nat /\ v < ENTRIES * Span(0)
  /\ \A v \in AllPages : v \in UserPages <=> v < (ENTRIES \div 2) * Span(0)
<1> DEFINE h == ENTRIES \div 2
           z == Span(0)
<1>1. h \in Nat /\ z \in Nat /\ ENTRIES \in Nat /\ h < ENTRIES
  BY SlotFacts, SpanFacts
<1>2. h * z \in Nat /\ ENTRIES * z \in Nat /\ h * z + z <= ENTRIES * z
  BY <1>1, SmallerProduct, SMTT(30)
<1>3. UserPages = 0 .. h * z - 1 /\ KernelPages = h * z .. ENTRIES * z - 1
  BY DEF UserPages, KernelPages
<1> DEFINE a == h * z
           b == ENTRIES * z
<1>4. a \in Nat /\ b \in Nat /\ a + z <= b /\ UserPages = 0 .. a - 1 /\ KernelPages = a .. b - 1
  BY <1>2, <1>3
<1> HIDE DEF a, b, h, z
<1>5. /\ \A v \in AllPages : v \in Nat /\ v < b
      /\ \A v \in AllPages : v \in UserPages <=> v < a
  BY <1>1, <1>4, SMTT(30) DEF AllPages
<1> QED  BY <1>5 DEF a, b, h, z

\* A walk descends from place to place, and the last entry is the page's own.
LEMMA WalkPlaces ==
  ASSUME NEW v \in AllPages
  PROVE  /\ \A k \in 0 .. 3 : Place(v, k) \in Nat /\ TableIndex(v, k) \in Slots
         /\ Place(v, 0) = 0
         /\ \A k \in 0 .. 2 : Place(v, k + 1) = Child(Place(v, k), TableIndex(v, k))
         /\ v = Child(Place(v, 3), TableIndex(v, 3))
         /\ v \in UserPages <=> TableIndex(v, 0) \in UserSlots
<1>1. ENTRIES \in Nat \ {0} /\ v \in Nat
  BY SlotFacts, PagesAreNat
<1> DEFINE q0 == v \div Span(0)
           q1 == v \div Span(1)
           q2 == v \div Span(2)
<1>2. q0 \in Nat /\ q1 \in Nat /\ q2 \in Nat
  BY <1>1, SpanFacts, Quotient
<1>3. q0 < ENTRIES /\ (v \in UserPages <=> q0 < ENTRIES \div 2)
  BY <1>1, SpanFacts, SlotFacts, PagesAreNat, QuotientBound
<1>4. q1 \div ENTRIES = q0 /\ q2 \div ENTRIES = q1 /\ v \div ENTRIES = q2
  BY <1>1, SpanFacts, QuotientOfQuotient, SMTT(30)
<1>5. Place(v, 0) = 0 /\ Place(v, 1) = q0 /\ Place(v, 2) = q1 /\ Place(v, 3) = q2
  BY SMTT(30) DEF Place
<1>6. v \div Span(3) = v
  BY <1>1, SpanFacts, SMTT(30)
<1>7. /\ TableIndex(v, 0) = q0 % ENTRIES /\ TableIndex(v, 1) = q1 % ENTRIES
      /\ TableIndex(v, 2) = q2 % ENTRIES /\ TableIndex(v, 3) = v % ENTRIES
  BY <1>6 DEF TableIndex
<1> HIDE DEF q0, q1, q2
<1>8. q0 % ENTRIES = q0
  BY <1>1, <1>2, <1>3, SMTT(30)
<1>9. /\ \A k \in 0 .. 3 : Place(v, k) \in Nat /\ TableIndex(v, k) \in Slots
  <2>1. q0 % ENTRIES \in Slots /\ q1 % ENTRIES \in Slots /\ q2 % ENTRIES \in Slots /\ v % ENTRIES \in Slots
    BY <1>1, <1>2, Remainder DEF Slots
  <2> QED  BY <1>2, <1>5, <1>7, <2>1, SMTT(30)
<1>10. q1 = Child(q0, q1 % ENTRIES) /\ q2 = Child(q1, q2 % ENTRIES) /\ v = Child(q2, v % ENTRIES)
  BY <1>1, <1>2, <1>4, Remainder DEF Child
<1>11. q0 = Child(0, q0 % ENTRIES)
  BY <1>1, <1>2, <1>8, SMTT(30) DEF Child
<1>12. \A k \in 0 .. 2 : Place(v, k + 1) = Child(Place(v, k), TableIndex(v, k))
  <2> TAKE k \in 0 .. 2
  <2>1. k = 0 \/ k = 1 \/ k = 2
    BY SMTT(30)
  <2> QED  BY <1>5, <1>7, <1>10, <1>11, <2>1, SMTT(30)
<1>13. v \in UserPages <=> TableIndex(v, 0) \in UserSlots
  BY <1>3, <1>7, <1>8, <1>9, SlotFacts, SMTT(30)
<1> QED  BY <1>5, <1>7, <1>9, <1>10, <1>12, <1>13

-----------------------------------------------------------------------------
(* The trees. *)

\* lab tells of every page that is not free the space it is a table of, its level and
\* its place in that level.  No two tables have the same label.
Used == Frames \ free
Label(s, k, n) == [as |-> s, lv |-> k, at |-> n]
Labels == [as : Spaces, lv : 0 .. 3, at : Nat]
OwnSlots(s, k) == IF k # 0 THEN Slots ELSE IF s = Kernel THEN KernelSlots ELSE UserSlots

Below(x, i) == Label(x.as, x.lv + 1, Child(x.at, i))

Labelled(lab) ==
  /\ lab \in [Used -> Labels]
  /\ \A f, g \in Used : lab[f] = lab[g] => f = g

Roots(lab) ==
  /\ \A s \in Live : pml4[s] \in Used /\ lab[pml4[s]] = Label(s, 0, 0)
  /\ \A f \in Used : lab[f].as \in Live /\ (lab[f].lv = 0 => f = pml4[lab[f].as])
  /\ BootPdp \in Used /\ lab[BootPdp].as = Kernel

\* An entry leads to the table at the place below it, and to every table but the roots
\* leads an entry.
DownAt(lab, f) ==
  \A i \in OwnSlots(lab[f].as, lab[f].lv) :
    content[f][i] # NotPresent => content[f][i] \in Used /\ lab[content[f][i]] = Below(lab[f], i)
UpAt(lab, f) ==
  \E g \in Used : lab[g].lv < 3 /\ \E i \in OwnSlots(lab[g].as, lab[g].lv) : content[g][i] = f

Tree(lab) ==
  /\ Labelled(lab)
  /\ Roots(lab)
  /\ \A f \in Used : lab[f].lv < 3 => DownAt(lab, f)
  /\ \A f \in Used : lab[f].lv > 0 => UpAt(lab, f)

LEMMA LabelFacts ==
  ASSUME NEW lab, Labelled(lab), NEW f \in Used
  PROVE  /\ lab[f].as \in Spaces /\ lab[f].lv \in 0 .. 3 /\ lab[f].at \in Nat
         /\ lab[f] = Label(lab[f].as, lab[f].lv, lab[f].at)
         /\ f \in Frames /\ f # NotPresent
  BY ShapeAssumption DEF Labelled, Labels, Label, Used

LEMMA LabelEq ==
  ASSUME NEW s, NEW k, NEW n
  PROVE  Label(s, k, n).as = s /\ Label(s, k, n).lv = k /\ Label(s, k, n).at = n
  BY DEF Label

LEMMA OwnSlotsFacts ==
  ASSUME NEW s, NEW k
  PROVE  OwnSlots(s, k) \subseteq Slots
  BY SlotFacts DEF OwnSlots

\* The tables of one level are what the entries of the level above point to.
TablesAt(lab, s, k) == {f \in Used : lab[f].as = s /\ lab[f].lv = k}

LEMMA LevelTargets ==
  ASSUME NEW lab, Tree(lab), NEW s \in Live, NEW k \in 0 .. 2
  PROVE  Targets(TablesAt(lab, s, k), OwnSlots(s, k)) = TablesAt(lab, s, k + 1)
<1> DEFINE T == TablesAt(lab, s, k)
<1>0. Labelled(lab) /\ T \subseteq Used /\ T \cap Frames = T
  BY DEF Tree, TablesAt, Used
<1>1. ASSUME NEW x \in Targets(T, OwnSlots(s, k)) PROVE x \in TablesAt(lab, s, k + 1)
  <2>1. PICK f \in T, i \in OwnSlots(s, k) : x = content[f][i] /\ x # NotPresent
    BY <1>0, SMTT(30) DEF Targets
  <2>2. lab[f].as = s /\ lab[f].lv = k /\ f \in Used
    BY DEF TablesAt
  <2>3. x \in Used /\ lab[x] = Below(lab[f], i)
    BY <2>1, <2>2, SMTT(30) DEF Tree, DownAt
  <2> QED  BY <2>2, <2>3, LabelEq, SMTT(30) DEF Below, TablesAt
<1>2. ASSUME NEW x \in TablesAt(lab, s, k + 1) PROVE x \in Targets(T, OwnSlots(s, k))
  <2>1. x \in Used /\ lab[x].as = s /\ lab[x].lv = k + 1 /\ x # NotPresent
    BY <1>0, LabelFacts DEF TablesAt
  <2>2. PICK g \in Used : lab[g].lv < 3 /\ \E i \in OwnSlots(lab[g].as, lab[g].lv) : content[g][i] = x
    BY <2>1, SMTT(30) DEF Tree, UpAt
  <2>3. PICK i \in OwnSlots(lab[g].as, lab[g].lv) : content[g][i] = x
    BY <2>2
  <2>4. lab[x] = Below(lab[g], i)
    BY <2>1, <2>2, <2>3 DEF Tree, DownAt
  <2>5. lab[g].lv \in 0 .. 3
    BY <1>0, LabelFacts
  <2>6. lab[g].as = s /\ lab[g].lv = k
    BY <2>1, <2>4, <2>5, LabelEq, SMTT(30) DEF Below
  <2>7. g \in T
    BY <2>6 DEF TablesAt
  <2> QED  BY <1>0, <2>1, <2>3, <2>6, <2>7, SMTT(30) DEF Targets
<1> QED  BY <1>1, <1>2

LEMMA RootsOnly ==
  ASSUME NEW lab, Tree(lab), NEW s \in Live
  PROVE  TablesAt(lab, s, 0) = {pml4[s]}
<1>1. pml4[s] \in Used /\ lab[pml4[s]].as = s /\ lab[pml4[s]].lv = 0
  BY LabelEq, SMTT(30) DEF Tree, Roots
<1> QED  BY <1>1, SMTT(30) DEF Tree, Roots, TablesAt

\* What free_pdp_table and free_pd_table find is all of the space's tables.
LEMMA TablesOfSpace ==
  ASSUME NEW lab, Tree(lab), NEW s \in Live \ {Kernel}
  PROVE  /\ Pdps(s) = TablesAt(lab, s, 1) /\ Pds(s) = TablesAt(lab, s, 2)
         /\ Pts(s) = TablesAt(lab, s, 3)
         /\ UserTables(s) = {f \in Used : lab[f].as = s}
         /\ TablesToFree(s) = {f \in Used : lab[f].as = s}
<1>0. OwnSlots(s, 0) = UserSlots /\ OwnSlots(s, 1) = Slots /\ OwnSlots(s, 2) = Slots
  BY SMTT(30) DEF OwnSlots
<1>1. TablesAt(lab, s, 0) = {pml4[s]}
  BY RootsOnly
<1>2. /\ Targets(TablesAt(lab, s, 0), OwnSlots(s, 0)) = TablesAt(lab, s, 0 + 1)
      /\ Targets(TablesAt(lab, s, 1), OwnSlots(s, 1)) = TablesAt(lab, s, 1 + 1)
      /\ Targets(TablesAt(lab, s, 2), OwnSlots(s, 2)) = TablesAt(lab, s, 2 + 1)
  BY LevelTargets, SMTT(30)
<1>3. Pdps(s) = TablesAt(lab, s, 1)
  BY <1>0, <1>1, <1>2, SMTT(30) DEF Pdps
<1>4. Pds(s) = TablesAt(lab, s, 2)
  BY <1>0, <1>2, <1>3, SMTT(30) DEF Pds
<1>5. Pts(s) = TablesAt(lab, s, 3)
  BY <1>0, <1>2, <1>4, SMTT(30) DEF Pts
<1>6. UNION {TablesAt(lab, s, k) : k \in 0 .. 3} = {f \in Used : lab[f].as = s}
  BY LabelFacts, SMTT(30) DEF TablesAt, Tree
<1>7. UNION {TablesAt(lab, s, k) : k \in 0 .. 3} =
        {pml4[s]} \cup Pdps(s) \cup Pds(s) \cup Pts(s)
  <2>1. 0 .. 3 = {0, 1, 2, 3}
    BY SMTT(30)
  <2> QED  BY <1>1, <1>3, <1>4, <1>5, <2>1
<1> QED  BY <1>3, <1>4, <1>5, <1>6, <1>7 DEF UserTables, TablesToFree

TypeInv ==
  /\ free \subseteq Pool
  /\ content \in [Frames -> [Slots -> Entry]]
  /\ pml4 \in [Spaces -> Frames \cup {NotPresent}]
  /\ cr3 \in Live
  /\ booted \in BOOLEAN
  /\ ~booted => Live = {Kernel} /\ op = idle

LEMMA FrameFacts ==
  ASSUME TypeInv
  PROVE  /\ free \subseteq Frames /\ NotPresent \notin Frames
         /\ BootPml4 \in Used /\ BootPdp \in Used
         /\ \A f \in free : f # BootPdp /\ f # BootPml4
         /\ Kernel \in Spaces
         /\ pml4 = [x \in Spaces |-> pml4[x]]
  BY ShapeAssumption DEF TypeInv, Frames, Used, Spaces

-----------------------------------------------------------------------------
(* How the steps change the trees. *)

\* A step that writes only last-level tables, if any.
LEMMA TreeKept ==
  ASSUME NEW lab, Tree(lab), free' = free, pml4' = pml4,
         \A g \in Used : lab[g].lv < 3 => content'[g] = content[g]
  PROVE  Tree(lab)'
<1>1. Used' = Used /\ Live' = Live
  BY DEF Used, Live
<1>2. Labelled(lab)' /\ Roots(lab)'
  BY <1>1 DEF Tree, Labelled, Roots
<1>3. ASSUME NEW f \in Used, lab[f].lv < 3 PROVE DownAt(lab, f)'
  BY <1>1, <1>3 DEF Tree, DownAt
<1>4. ASSUME NEW f \in Used, lab[f].lv > 0 PROVE UpAt(lab, f)'
  BY <1>1, <1>4, SMTT(30) DEF Tree, UpAt
<1> QED  BY <1>1, <1>2, <1>3, <1>4 DEF Tree

\* A new table linked at an entry that was not present.  Its label is new: the table that
\* had it would hang on this very entry.
Link(f, t, i) ==
  /\ free' = free \ {f} /\ pml4' = pml4
  /\ \A j \in Slots : content'[f][j] = NotPresent
  /\ content'[t][i] = f
  /\ \A j \in Slots \ {i} : content'[t][j] = content[t][j]
  /\ \A g \in Used \ {t} : content'[g] = content[g]
Extended(lab, f, x) == [g \in Used \cup {f} |-> IF g = f THEN x ELSE lab[g]]

LEMMA TreeGrows ==
  ASSUME TypeInv, NEW lab, Tree(lab), NEW f \in free, NEW t \in Used, lab[t].lv < 3,
         NEW i \in OwnSlots(lab[t].as, lab[t].lv), content[t][i] = NotPresent,
         Link(f, t, i),
         NEW l, l = Extended(lab, f, Below(lab[t], i))
  PROVE  Tree(l)'
<1>1. l = [g \in Used \cup {f} |-> IF g = f THEN Below(lab[t], i) ELSE lab[g]]
  BY DEF Extended
<1>2. /\ free \subseteq Frames /\ f # BootPdp /\ NotPresent \notin Frames
      /\ free' = free \ {f} /\ pml4' = pml4
      /\ \A j \in Slots : content'[f][j] = NotPresent
      /\ content'[t][i] = f
      /\ \A j \in Slots \ {i} : content'[t][j] = content[t][j]
      /\ \A g \in Used \ {t} : content'[g] = content[g]
  BY FrameFacts DEF Link
<1>3. Used' = Used \cup {f} /\ f \notin Used /\ Live' = Live /\ f \in Frames /\ f # t
  BY <1>2 DEF Used, Live
<1>4. Labelled(lab) /\ Roots(lab)
  BY DEF Tree
<1>5. (\A g \in Used : l[g] = lab[g]) /\ l[f] = Below(lab[t], i)
  BY <1>1, <1>3
<1>6. lab[t].as \in Spaces /\ lab[t].lv \in 0 .. 2 /\ lab[t].at \in Nat
  BY <1>4, LabelFacts, SMTT(30)
<1>7. i \in Slots /\ i \in Nat
  BY OwnSlotsFacts, SlotFacts
<1>8. Below(lab[t], i) \in Labels
  BY <1>6, <1>7, ShapeAssumption, SMTT(30) DEF Below, Label, Labels, Child
<1>9. ASSUME NEW g \in Used, lab[g] = Below(lab[t], i) PROVE FALSE
  <2>1. lab[g].as = lab[t].as /\ lab[g].lv = lab[t].lv + 1 /\ lab[g].at = Child(lab[t].at, i)
    BY <1>9, LabelEq, SMTT(30) DEF Below
  <2>2. PICK h \in Used : lab[h].lv < 3 /\ \E j \in OwnSlots(lab[h].as, lab[h].lv) : content[h][j] = g
    BY <1>6, <2>1, SMTT(30) DEF Tree, UpAt
  <2>3. PICK j \in OwnSlots(lab[h].as, lab[h].lv) : content[h][j] = g
    BY <2>2
  <2>4. g # NotPresent
    BY <1>4, LabelFacts
  <2>5. lab[g] = Below(lab[h], j)
    BY <2>2, <2>3, <2>4 DEF Tree, DownAt
  <2>6. lab[h].as = lab[t].as /\ lab[h].lv + 1 = lab[t].lv + 1 /\ Child(lab[h].at, j) = Child(lab[t].at, i)
    BY <2>1, <2>5, LabelEq, SMTT(30) DEF Below
  <2>7. lab[h].at \in Nat /\ lab[h].lv \in 0 .. 3 /\ j \in Slots
    BY <1>4, LabelFacts, OwnSlotsFacts
  <2>8. lab[h].at = lab[t].at /\ j = i
    BY <1>6, <1>7, <2>6, <2>7, ChildInjective, SMTT(30)
  <2>9. lab[h] = lab[t]
    BY <1>4, <2>6, <2>8, LabelFacts, SMTT(30)
  <2>10. h = t
    BY <1>4, <2>9 DEF Labelled
  <2> QED  BY <2>3, <2>4, <2>8, <2>10
<1>10. Labelled(l)'
  <2>1. l \in [Used \cup {f} -> Labels]
    BY <1>1, <1>4, <1>8 DEF Labelled
  <2>2. \A a, b \in Used \cup {f} : l[a] = l[b] => a = b
    BY <1>4, <1>5, <1>9 DEF Labelled
  <2> QED  BY <1>3, <2>1, <2>2 DEF Labelled
<1>11. Roots(l)'
  <2>1. \A s \in Live : pml4[s] \in Used' /\ l[pml4[s]] = Label(s, 0, 0)
    BY <1>3, <1>4, <1>5 DEF Roots
  <2>2. \A g \in Used : l[g].as \in Live /\ (l[g].lv = 0 => g = pml4[l[g].as])
    BY <1>4, <1>5 DEF Roots
  <2>3. l[f].as \in Live /\ l[f].lv # 0
    BY <1>4, <1>5, <1>6, LabelEq, SMTT(30) DEF Roots, Below
  <2>4. BootPdp \in Used' /\ l[BootPdp].as = Kernel
    BY <1>3, <1>4, <1>5 DEF Roots
  <2> QED  BY <1>2, <1>3, <2>1, <2>2, <2>3, <2>4 DEF Roots
<1>12. ASSUME NEW g \in Used', l[g].lv < 3 PROVE DownAt(l, g)'
  <2> SUFFICES ASSUME NEW j \in OwnSlots(l[g].as, l[g].lv), content'[g][j] # NotPresent
               PROVE  content'[g][j] \in Used' /\ l[content'[g][j]] = Below(l[g], j)
    BY DEF DownAt
  <2>0. j \in Slots
    BY OwnSlotsFacts
  <2>1. g # f /\ g \in Used /\ l[g] = lab[g]
    BY <1>2, <1>3, <1>5, <2>0
  <2>2. CASE g = t /\ j = i
    BY <1>2, <1>3, <1>5, <2>2
  <2>3. CASE ~(g = t /\ j = i)
    <3>1. content'[g][j] = content[g][j]
      BY <1>2, <2>0, <2>1, <2>3
    <3>2. content[g][j] \in Used /\ lab[content[g][j]] = Below(lab[g], j)
      BY <1>12, <2>1, <3>1 DEF Tree, DownAt
    <3> QED  BY <1>3, <1>5, <2>1, <3>1, <3>2
  <2> QED  BY <2>2, <2>3
<1>13. ASSUME NEW g \in Used', l[g].lv > 0 PROVE UpAt(l, g)'
  <2>1. CASE g = f
    BY <1>2, <1>3, <1>5, <2>1 DEF UpAt
  <2>2. CASE g # f
    <3>1. g \in Used /\ l[g] = lab[g] /\ g # NotPresent
      BY <1>3, <1>4, <1>5, <2>2, LabelFacts
    <3>2. PICK h \in Used : lab[h].lv < 3 /\ \E j \in OwnSlots(lab[h].as, lab[h].lv) : content[h][j] = g
      BY <1>13, <3>1 DEF Tree, UpAt
    <3>3. PICK j \in OwnSlots(lab[h].as, lab[h].lv) : content[h][j] = g
      BY <3>2
    <3>4. content'[h][j] = g
      BY <1>2, <3>1, <3>3, OwnSlotsFacts
    <3> QED  BY <1>3, <1>5, <3>2, <3>4 DEF UpAt
  <2> QED  BY <2>1, <2>2
<1> QED  BY <1>10, <1>11, <1>12, <1>13 DEF Tree

\* A new space: a root of which no entry of the user half is present.
PlantRoot(s, f) ==
  /\ free' = free \ {f} /\ pml4' = [pml4 EXCEPT ![s] = f]
  /\ \A j \in UserSlots : content'[f][j] = NotPresent
  /\ \A g \in Used : content'[g] = content[g]

LEMMA TreePlanted ==
  ASSUME TypeInv, NEW lab, Tree(lab), NEW s \in UserSpaces, s \notin Live, NEW f \in free,
         PlantRoot(s, f),
         NEW l, l = Extended(lab, f, Label(s, 0, 0))
  PROVE  Tree(l)'
<1>1. l = [g \in Used \cup {f} |-> IF g = f THEN Label(s, 0, 0) ELSE lab[g]]
  BY DEF Extended
<1>2. /\ free \subseteq Frames /\ NotPresent \notin Frames
      /\ free' = free \ {f} /\ pml4' = [pml4 EXCEPT ![s] = f] /\ pml4 = [x \in Spaces |-> pml4[x]]
      /\ \A j \in UserSlots : content'[f][j] = NotPresent
      /\ \A g \in Used : content'[g] = content[g]
  BY FrameFacts DEF PlantRoot
<1>3. Used' = Used \cup {f} /\ f \notin Used /\ f \in Frames /\ s \in Spaces /\ s # Kernel
  BY <1>2, ShapeAssumption DEF Used, Spaces
<1>4. Labelled(lab) /\ Roots(lab)
  BY DEF Tree
<1>5. (\A g \in Used : l[g] = lab[g]) /\ l[f] = Label(s, 0, 0)
  BY <1>2, <1>1, <1>3
<1>6. pml4'[s] = f /\ \A x \in Spaces \ {s} : pml4'[x] = pml4[x]
  BY <1>2, <1>3
<1>7. Live' = Live \cup {s}
  BY <1>2, <1>3, <1>6 DEF Live
<1>8. \A x \in Live : x \in Spaces /\ x # s /\ pml4'[x] = pml4[x]
  BY <1>2, <1>6 DEF Live
<1>9. Labelled(l)'
  <2>1. Label(s, 0, 0) \in Labels
    BY <1>2, <1>3, SMTT(30) DEF Label, Labels
  <2>2. \A g \in Used : lab[g] # Label(s, 0, 0)
    BY <1>2, <1>4, LabelEq, SMTT(30) DEF Roots
  <2>3. l \in [Used \cup {f} -> Labels]
    BY <1>2, <1>1, <1>4, <2>1 DEF Labelled
  <2>4. \A a, b \in Used \cup {f} : l[a] = l[b] => a = b
    BY <1>2, <1>4, <1>5, <2>2, SMTT(30) DEF Labelled
  <2> QED  BY <1>2, <1>3, <2>3, <2>4 DEF Labelled
<1>10. Roots(l)'
  <2>1. \A x \in Live' : pml4'[x] \in Used' /\ l[pml4'[x]] = Label(x, 0, 0)
    BY <1>2, <1>3, <1>4, <1>5, <1>6, <1>7, <1>8, SMTT(30) DEF Roots
  <2>2. \A g \in Used : l[g].as \in Live' /\ (l[g].lv = 0 => g = pml4'[l[g].as])
    BY <1>2, <1>4, <1>5, <1>7, <1>8 DEF Roots
  <2>3. l[f].as \in Live' /\ f = pml4'[l[f].as]
    BY <1>2, <1>5, <1>6, <1>7, LabelEq, SMTT(30)
  <2>4. BootPdp \in Used' /\ l[BootPdp].as = Kernel
    BY <1>2, <1>3, <1>4, <1>5 DEF Roots
  <2> QED  BY <1>2, <1>3, <2>1, <2>2, <2>3, <2>4 DEF Roots
<1>11. ASSUME NEW g \in Used', l[g].lv < 3 PROVE DownAt(l, g)'
  <2> SUFFICES ASSUME NEW j \in OwnSlots(l[g].as, l[g].lv), content'[g][j] # NotPresent
               PROVE  content'[g][j] \in Used' /\ l[content'[g][j]] = Below(l[g], j)
    BY DEF DownAt
  <2>1. CASE g = f
    <3>1. OwnSlots(l[g].as, l[g].lv) = UserSlots
      BY <1>2, <1>3, <1>5, <2>1, LabelEq, SMTT(30) DEF OwnSlots
    <3> QED  BY <1>2, <2>1, <3>1
  <2>2. CASE g # f
    <3>1. g \in Used /\ l[g] = lab[g] /\ content'[g][j] = content[g][j]
      BY <1>2, <1>3, <1>5, <2>2
    <3>2. content[g][j] \in Used /\ lab[content[g][j]] = Below(lab[g], j)
      BY <1>2, <1>11, <3>1 DEF Tree, DownAt
    <3> QED  BY <1>2, <1>3, <1>5, <3>1, <3>2
  <2> QED  BY <1>2, <2>1, <2>2
<1>12. ASSUME NEW g \in Used', l[g].lv > 0 PROVE UpAt(l, g)'
  <2>1. g # f
    BY <1>2, <1>5, <1>12, LabelEq, SMTT(30)
  <2>2. g \in Used /\ l[g] = lab[g]
    BY <1>2, <1>3, <1>5, <2>1
  <2>3. PICK h \in Used : lab[h].lv < 3 /\ \E j \in OwnSlots(lab[h].as, lab[h].lv) : content[h][j] = g
    BY <1>2, <1>12, <2>2 DEF Tree, UpAt
  <2>4. h \in Used' /\ l[h] = lab[h] /\ content'[h] = content[h]
    BY <1>2, <1>3, <1>5
  <2> QED  BY <1>2, <2>3, <2>4 DEF UpAt
<1> QED  BY <1>2, <1>9, <1>10, <1>11, <1>12 DEF Tree

\* A space that goes takes exactly its own tables with it.
Fell(s, gone) ==
  /\ free' = free \cup gone /\ pml4' = [pml4 EXCEPT ![s] = NotPresent]
  /\ \A g \in Used \ gone : content'[g] = content[g]

LEMMA TreeFelled ==
  ASSUME TypeInv, NEW lab, Tree(lab), NEW s \in Live \ {Kernel}, NEW gone,
         gone = {f \in Used : lab[f].as = s},
         Fell(s, gone),
         NEW l, l = [g \in Used \ gone |-> lab[g]]
  PROVE  Tree(l)'
<1>0. /\ free \subseteq Frames /\ NotPresent \notin Frames
      /\ free' = free \cup gone /\ pml4' = [pml4 EXCEPT ![s] = NotPresent]
      /\ pml4 = [x \in Spaces |-> pml4[x]]
      /\ \A g \in Used \ gone : content'[g] = content[g]
  BY FrameFacts DEF Fell
<1>1. l = [g \in Used \ gone |-> lab[g]]
  OBVIOUS
<1>2. Used' = Used \ gone /\ s \in Spaces
  BY <1>0 DEF Used, Live
<1>3. Labelled(lab) /\ Roots(lab)
  BY DEF Tree
<1>4. \A g \in Used' : g \in Used /\ l[g] = lab[g] /\ lab[g].as # s /\ content'[g] = content[g]
  BY <1>0, <1>1, <1>2
<1>5. pml4'[s] = NotPresent /\ \A x \in Spaces \ {s} : pml4'[x] = pml4[x]
  BY <1>0, <1>2
<1>6. Live' = Live \ {s}
  BY <1>0, <1>2, <1>5 DEF Live
<1>7. \A x \in Live' : x \in Live /\ x # s /\ pml4'[x] = pml4[x]
  BY <1>0, <1>5, <1>6 DEF Live
<1>8. Labelled(l)'
  <2>1. l \in [Used \ gone -> Labels]
    BY <1>0, <1>1, <1>3 DEF Labelled
  <2>2. \A a, b \in Used \ gone : l[a] = l[b] => a = b
    BY <1>0, <1>2, <1>3, <1>4 DEF Labelled
  <2> QED  BY <1>0, <1>2, <2>1, <2>2 DEF Labelled
<1>9. Roots(l)'
  <2>1. ASSUME NEW x \in Live' PROVE pml4'[x] \in Used' /\ l[pml4'[x]] = Label(x, 0, 0)
    <3>1. pml4[x] \in Used /\ lab[pml4[x]] = Label(x, 0, 0)
      BY <1>0, <1>3, <1>7 DEF Roots
    <3>2. lab[pml4[x]].as # s
      BY <1>0, <1>7, <3>1, LabelEq, SMTT(30)
    <3> QED  BY <1>0, <1>1, <1>2, <1>7, <3>1, <3>2, SMTT(30)
  <2>2. \A g \in Used' : l[g].as \in Live' /\ (l[g].lv = 0 => g = pml4'[l[g].as])
    BY <1>0, <1>3, <1>4, <1>6, <1>7 DEF Roots
  <2>3. BootPdp \in Used' /\ l[BootPdp].as = Kernel
    BY <1>0, <1>1, <1>2, <1>3 DEF Roots
  <2> QED  BY <1>0, <2>1, <2>2, <2>3 DEF Roots
<1>10. ASSUME NEW g \in Used', l[g].lv < 3 PROVE DownAt(l, g)'
  <2> SUFFICES ASSUME NEW j \in OwnSlots(l[g].as, l[g].lv), content'[g][j] # NotPresent
               PROVE  content'[g][j] \in Used' /\ l[content'[g][j]] = Below(l[g], j)
    BY DEF DownAt
  <2>1. content[g][j] \in Used /\ lab[content[g][j]] = Below(lab[g], j)
    BY <1>0, <1>4, <1>10, SMTT(30) DEF Tree, DownAt
  <2>2. lab[content[g][j]].as # s
    BY <1>0, <1>4, <2>1, LabelEq, SMTT(30) DEF Below
  <2> QED  BY <1>0, <1>1, <1>2, <1>4, <2>1, <2>2
<1>11. ASSUME NEW g \in Used', l[g].lv > 0 PROVE UpAt(l, g)'
  <2>1. g \in Used /\ l[g] = lab[g] /\ lab[g].as # s /\ g # NotPresent
    BY <1>0, <1>3, <1>4, LabelFacts
  <2>2. PICK h \in Used : lab[h].lv < 3 /\ \E j \in OwnSlots(lab[h].as, lab[h].lv) : content[h][j] = g
    BY <1>0, <1>11, <2>1 DEF Tree, UpAt
  <2>3. PICK j \in OwnSlots(lab[h].as, lab[h].lv) : content[h][j] = g
    BY <1>0, <2>2
  <2>4. lab[g].as = lab[h].as
    BY <1>0, <2>1, <2>2, <2>3, LabelEq, SMTT(30) DEF Tree, DownAt, Below
  <2>5. h \in Used' /\ l[h] = lab[h] /\ content'[h] = content[h]
    BY <1>0, <1>1, <1>2, <2>1, <2>4
  <2> QED  BY <1>0, <2>2, <2>5 DEF UpAt
<1> QED  BY <1>0, <1>8, <1>9, <1>10, <1>11 DEF Tree

-----------------------------------------------------------------------------
(* The inductive invariant. *)

\* The boot loader's root has no user half, and every other root has its kernel half.
HalfInv ==
  /\ pml4[Kernel] = BootPml4
  /\ \A i \in UserSlots : content[BootPml4][i] = NotPresent
  /\ KernelHalfShared

DataPages == PPages \cup {APIC_BASE_ADDR}
Kinds == {"map_page", "map_range", "unmap_page", "unmap_range", "rollback"}
Ops ==
  [kind : Kinds, as : Spaces, first : Nat, end : Nat, p : Int,
   v : Nat, stop : Nat, level : 0 .. 3, table : Frames]
PagesFor(s) == IF s = Kernel THEN KernelPages ELSE UserPages
InItsHalf(s, first, end) == \A w \in first .. end - 1 : w \in PagesFor(s)
OntoData(first, end, p) == \A w \in first .. end - 1 : p + (w - first) \in DataPages

\* The call in progress works in the half of its space, at a page of its range; only
\* the kernel's own call, made when there is no other space, works in the kernel half.
CallInv ==
  op # idle =>
    /\ op \in Ops
    /\ op.as \in Live
    /\ op.as = Kernel => Live = {Kernel}
    /\ op.first <= op.v /\ op.v < op.stop /\ op.stop <= op.end
    /\ InItsHalf(op.as, op.first, op.end)
    /\ op.kind \in {"map_page", "unmap_page"} => op.end = op.first + 1
    /\ op.kind # "rollback" => op.stop = op.end
    /\ Mapping => OntoData(op.first, op.end, op.p)

\* Its walk stands at the table of its level that covers the page.
WalkInv(lab) ==
  op # idle =>
    op.table \in Used /\ lab[op.table] = Label(op.as, op.level, Place(op.v, op.level))

Inv == TypeInv /\ HalfInv /\ CallInv /\ \E lab : Tree(lab) /\ WalkInv(lab)

LEMMA CallPages ==
  ASSUME CallInv, op # idle, HalfInv, TypeInv
  PROVE  /\ op.v \in AllPages /\ op.v \in PagesFor(op.as)
         /\ \A k \in 0 .. 3 : TableIndex(op.v, k) \in OwnSlots(op.as, k) /\ TableIndex(op.v, k) \in Slots
<1>1. op \in Ops /\ op.v \in op.first .. op.end - 1
  BY SMTT(30) DEF CallInv, Ops
<1>2. op.v \in PagesFor(op.as)
  BY <1>1 DEF CallInv, InItsHalf
<1>3. op.v \in AllPages
  BY <1>2 DEF PagesFor, AllPages
<1>4. op.as = Kernel => op.v \notin UserPages
  <2>1. SUFFICES ASSUME op.as = Kernel, op.v \in UserPages PROVE FALSE
    OBVIOUS
  <2>2. op.v \in KernelPages
    BY <1>2, <2>1 DEF PagesFor
  <2> DEFINE z == (ENTRIES \div 2) * Span(0)
  <2>3. op.v \in Nat /\ op.v < z
    BY <1>3, <2>1, PagesAreNat
  <2>4. z \in Nat
    BY SlotFacts, SpanFacts, SMTT(30)
  <2>5. ENTRIES * Span(0) \in Nat
    BY SlotFacts, SpanFacts, SMTT(30)
  <2>6. op.v \in z .. ENTRIES * Span(0) - 1
    BY <2>2 DEF KernelPages
  <2> HIDE DEF z
  <2> QED  BY <2>3, <2>4, <2>5, <2>6, SMTT(30)
<1>5. op.as # Kernel => op.v \in UserPages
  BY <1>2 DEF PagesFor
<1> QED
  <2>1. \A k \in 0 .. 3 : TableIndex(op.v, k) \in Slots
    BY <1>3, WalkPlaces
  <2>2. op.v \in UserPages <=> TableIndex(op.v, 0) \in UserSlots
    BY <1>3, WalkPlaces
  <2>3. TableIndex(op.v, 0) \in OwnSlots(op.as, 0)
    BY <1>4, <1>5, <2>1, <2>2, SMTT(30) DEF OwnSlots, KernelSlots
  <2> QED  BY <1>2, <1>3, <2>1, <2>3 DEF OwnSlots

\* A write through the walk's own slot leaves the kernel half shared.
LEMMA HalfKept ==
  ASSUME TypeInv, HalfInv, NEW lab, Tree(lab), NEW t \in Used,
         NEW i \in OwnSlots(lab[t].as, lab[t].lv), lab[t].as = Kernel => Live = {Kernel},
         pml4' = pml4,
         \A j \in Slots \ {i} : content'[t][j] = content[t][j],
         \A g \in Used \ {t} : content'[g] = content[g]
  PROVE  HalfInv'
<1>1. Live' = Live /\ Kernel \in Live /\ pml4'[Kernel] = BootPml4
  BY FrameFacts DEF Live, HalfInv, Used
<1>2. \A s \in Live : pml4[s] \in Used /\ lab[pml4[s]].as = s /\ lab[pml4[s]].lv = 0
  BY LabelEq, SMTT(30) DEF Tree, Roots
<1>3. BootPml4 = pml4[Kernel]
  BY DEF HalfInv
<1>4. Slots = UserSlots \cup KernelSlots /\ UserSlots \cap KernelSlots = {}
  BY SlotFacts
<1>5. CASE lab[t].lv # 0
  <2>1. \A s \in Live : content'[pml4[s]] = content[pml4[s]]
    BY <1>2, <1>5
  <2> QED  BY <1>1, <1>3, <2>1, SMTT(30) DEF HalfInv, KernelHalfShared
<1>6. CASE lab[t].lv = 0 /\ lab[t].as = Kernel
  <2>1. i \in KernelSlots /\ Live = {Kernel}
    BY <1>6 DEF OwnSlots
  <2>2. \A j \in UserSlots : content'[BootPml4][j] = content[BootPml4][j]
    BY <1>1, <1>2, <1>3, <1>4, <2>1
  <2> QED  BY <1>1, <2>1, <2>2 DEF HalfInv, KernelHalfShared
<1>7. CASE lab[t].lv = 0 /\ lab[t].as # Kernel
  <2>1. i \in UserSlots
    BY <1>7 DEF OwnSlots
  <2>2. t # BootPml4 /\ content'[BootPml4] = content[BootPml4]
    BY <1>1, <1>2, <1>3, <1>7, SMTT(30)
  <2>3. \A s \in Live : \A j \in KernelSlots : content'[pml4[s]][j] = content[pml4[s]][j]
    BY <1>2, <1>4, <2>1
  <2> QED  BY <1>1, <1>3, <2>2, <2>3, SMTT(30) DEF HalfInv, KernelHalfShared
<1> QED  BY <1>5, <1>6, <1>7

LEMMA InitInv ==
  Init => Inv
<1> SUFFICES ASSUME Init PROVE Inv
  OBVIOUS
<1> DEFINE h == ENTRIES \div 2
<1>1. /\ Used = {BootPml4, BootPdp} /\ BootPml4 # BootPdp /\ BootPml4 \in Frames /\ BootPdp \in Frames
      /\ NotPresent \notin Frames /\ Kernel \in Spaces
  BY ShapeAssumption DEF Init, Used, Frames, Spaces
<1>2. Live = {Kernel} /\ pml4[Kernel] = BootPml4
  BY <1>1 DEF Init, Live
<1>3. h \in Nat /\ h \in Slots /\ h \in KernelSlots /\ h \notin UserSlots
      /\ UserSlots \subseteq Slots /\ KernelSlots \subseteq Slots
  BY SlotFacts
<1>4. /\ \A i \in Slots : content[BootPml4][i] = IF i = h THEN BootPdp ELSE NotPresent
      /\ \A i \in Slots : content[BootPdp][i] = NotPresent
  BY <1>1, <1>3 DEF Init, Empty
<1> HIDE DEF h
<1>5. TypeInv
  <2>1. Empty \in [Slots -> Entry] /\ Foreign \in [Slots -> Entry]
    BY DEF Empty, Foreign, Entry
  <2>2. [Empty EXCEPT ![h] = BootPdp] \in [Slots -> Entry]
    BY <1>1, <2>1 DEF Entry
  <2>3. content \in [Frames -> [Slots -> Entry]]
    BY <2>1, <2>2 DEF Init, h
  <2>4. pml4 \in [Spaces -> Frames \cup {NotPresent}]
    BY <1>1 DEF Init
  <2> QED  BY <1>2, <2>3, <2>4 DEF TypeInv, Init
<1>6. HalfInv
  BY <1>2, <1>3, <1>4 DEF HalfInv, KernelHalfShared
<1>7. CallInv
  BY DEF CallInv, Init
<1>8. PICK lab : lab = [f \in Used |-> IF f = BootPml4 THEN Label(Kernel, 0, 0)
                                        ELSE Label(Kernel, 1, Child(0, h))]
  OBVIOUS
<1>9. lab[BootPml4] = Label(Kernel, 0, 0) /\ lab[BootPdp] = Label(Kernel, 1, Child(0, h))
  BY <1>1, <1>8
<1>10. /\ lab[BootPml4].as = Kernel /\ lab[BootPml4].lv = 0 /\ lab[BootPml4].at = 0
       /\ lab[BootPdp].as = Kernel /\ lab[BootPdp].lv = 1 /\ lab[BootPdp].at = Child(0, h)
  BY <1>9, LabelEq, SMTT(30)
<1>11. Labelled(lab)
  <2>1. Child(0, h) \in Nat
    BY <1>3, ShapeAssumption, SMTT(30) DEF Child
  <2>2. Label(Kernel, 0, 0) \in Labels /\ Label(Kernel, 1, Child(0, h)) \in Labels
    BY <1>1, <2>1, SMTT(30) DEF Label, Labels
  <2>3. lab \in [Used -> Labels]
    BY <1>8, <2>2
  <2> QED  BY <1>1, <1>10, <2>3, SMTT(30) DEF Labelled
<1>12. Roots(lab)
  BY <1>1, <1>2, <1>9, <1>10, SMTT(30) DEF Roots
<1>13. OwnSlots(Kernel, 0) = KernelSlots /\ OwnSlots(Kernel, 1) = Slots
  BY SMTT(30) DEF OwnSlots
<1>14. DownAt(lab, BootPml4)
  <2> SUFFICES ASSUME NEW i \in KernelSlots, content[BootPml4][i] # NotPresent
               PROVE  content[BootPml4][i] \in Used /\ lab[content[BootPml4][i]] = Below(lab[BootPml4], i)
    BY <1>10, <1>13 DEF DownAt
  <2>1. i = h /\ content[BootPml4][i] = BootPdp
    BY <1>3, <1>4
  <2> QED  BY <1>1, <1>9, <1>10, <2>1, SMTT(30) DEF Below
<1>15. DownAt(lab, BootPdp)
  BY <1>4, <1>10, <1>13 DEF DownAt
<1>16. UpAt(lab, BootPdp)
  BY <1>1, <1>3, <1>4, <1>10, <1>13, SMTT(30) DEF UpAt
<1>17. Tree(lab)
  BY <1>1, <1>10, <1>11, <1>12, <1>14, <1>15, <1>16, SMTT(30) DEF Tree
<1>18. WalkInv(lab)
  BY DEF WalkInv, Init
<1> QED  BY <1>5, <1>6, <1>7, <1>17, <1>18 DEF Inv

\* The beginning of a walk is at the root.
LEMMA WalkBegins ==
  ASSUME NEW lab, Tree(lab), NEW s \in Live, NEW v \in AllPages
  PROVE  pml4[s] \in Used /\ lab[pml4[s]] = Label(s, 0, Place(v, 0))
  BY DEF Tree, Roots, Place

LEMMA RequestPages ==
  ASSUME NEW r \in Requests
  PROVE  /\ vmm_page_align_down(r[1]) \in Nat
         /\ vmm_page_align_up(r[1] + r[2]) \in Nat
         /\ vmm_page_align_down(r[1]) < vmm_page_align_up(r[1] + r[2])
         /\ \A w \in PagesOf(r) : w \in UserPages
<1> DEFINE a == r[1]
           b == r[1] + r[2] + PAGE_SIZE - 1
           q == a \div PAGE_SIZE
           t == b \div PAGE_SIZE
<1>1. a \in Nat /\ r[2] \in Nat \ {0} /\ PAGE_SIZE \in Nat \ {0} /\ b \in Nat /\ a + PAGE_SIZE <= b
  BY RequestAssumption, ShapeAssumption, SMTT(30)
<1>2. q \in Nat /\ q * PAGE_SIZE <= a
  BY <1>1, Quotient
<1> HIDE DEF b
<1>3. t \in Nat /\ b < t * PAGE_SIZE + PAGE_SIZE
  BY <1>1, Quotient
<1> HIDE DEF a, q, t
<1>4. q < t
  <2> SUFFICES ASSUME ~ q < t PROVE FALSE
    OBVIOUS
  <2>1. q = t \/ t < q
    BY <1>2, <1>3, SMTT(30)
  <2>2. t * PAGE_SIZE \in Nat /\ q * PAGE_SIZE \in Nat
    BY <1>1, <1>2, <1>3, SMTT(30)
  <2>3. t * PAGE_SIZE <= q * PAGE_SIZE
    <3>1. CASE q = t  BY <2>2, <3>1, SMTT(30)
    <3>2. CASE t < q
      <4>1. t * PAGE_SIZE + PAGE_SIZE <= q * PAGE_SIZE
        BY <1>1, <1>2, <1>3, <3>2, SmallerProduct
      <4> QED  BY <1>1, <2>2, <4>1, SMTT(30)
    <3> QED  BY <2>1, <3>1, <3>2
  <2> QED  BY <1>1, <1>2, <1>3, <2>2, <2>3, SMTT(30)
<1>5. vmm_page_align_down(r[1]) = q /\ vmm_page_align_up(r[1] + r[2]) = t
  BY DEF vmm_page_align_down, vmm_page_align_up, q, t, a, b
<1> QED  BY <1>2, <1>3, <1>4, <1>5, RequestAssumption

\* A call begins: it changes nothing but op.
LEMMA CallBegins ==
  ASSUME Inv, NEW kind \in Kinds, NEW s \in Spaces, NEW first \in Nat, NEW end \in Nat, NEW p \in Int,
         Call(kind, s, first, end, p), booted',
         s = Kernel => Live = {Kernel},
         first < end,
         InItsHalf(s, first, end),
         kind \in {"map_page", "unmap_page"} => end = first + 1,
         kind # "rollback",
         kind \in {"map_page", "map_range"} => OntoData(first, end, p)
  PROVE  Inv'
<1>1. UNCHANGED <<free, content, pml4, cr3>> /\ s \in Live
  BY DEF Call
<1>2. Live' = Live /\ Used' = Used
  BY <1>1 DEF Live, Used
<1>3. pml4[s] \in Frames
  BY <1>1 DEF Inv, TypeInv, Live
<1>4. op' = [kind |-> kind, as |-> s, first |-> first, end |-> end, p |-> p,
             v |-> first, stop |-> end, level |-> 0, table |-> pml4[s]]
  BY DEF Call
<1>5. op' \in Ops
  BY <1>3, <1>4, SMTT(30) DEF Ops
<1>6. /\ op'.kind = kind /\ op'.as = s /\ op'.first = first /\ op'.end = end /\ op'.p = p
      /\ op'.v = first /\ op'.stop = end /\ op'.level = 0 /\ op'.table = pml4[s]
  BY <1>4
<1>7. TypeInv' /\ HalfInv'
  BY <1>1, <1>2 DEF Inv, TypeInv, HalfInv, KernelHalfShared
<1>8. CallInv'
  <2>1. Mapping' => OntoData(op'.first, op'.end, op'.p)
    BY <1>6 DEF Mapping
  <2>2. InItsHalf(op'.as, op'.first, op'.end)
    BY <1>6
  <2>3. op'.first <= op'.v /\ op'.v < op'.stop /\ op'.stop <= op'.end
    BY <1>6, SMTT(30)
  <2>4. op'.as \in Live' /\ (op'.as = Kernel => Live' = {Kernel})
    BY <1>1, <1>2, <1>6
  <2>5. /\ op'.kind \in {"map_page", "unmap_page"} => op'.end = op'.first + 1
        /\ op'.kind # "rollback" => op'.stop = op'.end
    BY <1>6
  <2> QED  BY <1>5, <2>1, <2>2, <2>3, <2>4, <2>5 DEF CallInv
<1>9. PICK lab : Tree(lab)
  BY DEF Inv
<1>10. Tree(lab)'
  BY <1>1, <1>9, TreeKept
<1>11. first \in AllPages
  BY SMTT(30) DEF InItsHalf, PagesFor, AllPages
<1>12. WalkInv(lab)'
  BY <1>1, <1>2, <1>6, <1>9, <1>11, WalkBegins, SMTT(30) DEF WalkInv
<1> QED  BY <1>7, <1>8, <1>10, <1>12 DEF Inv

\* The walk of the next page, and the one a rollback begins with, starts at the root.
LEMMA WalkRestarts ==
  ASSUME NEW lab, Tree(lab)', CallInv', op' # idle, op'.level = 0, op'.table = pml4'[op'.as]
  PROVE  WalkInv(lab)'
<1>1. op'.as \in Live'
  BY DEF CallInv
<1>2. pml4'[op'.as] \in Used' /\ lab[pml4'[op'.as]] = Label(op'.as, 0, 0)
  BY <1>1 DEF Tree, Roots
<1> QED  BY <1>2 DEF WalkInv, Place

LEMMA NextPageInv ==
  ASSUME TypeInv, CallInv, op # idle, NextPage, pml4' = pml4
  PROVE  /\ CallInv'
         /\ op' # idle => op'.level = 0 /\ op'.table = pml4'[op'.as]
<1>1. CASE ~ op.v + 1 < op.stop
  BY <1>1 DEF NextPage, CallInv
<1>2. CASE op.v + 1 < op.stop
  <2>1. op' = [op EXCEPT !.v = op.v + 1, !.level = 0, !.table = pml4[op.as]]
    BY <1>2 DEF NextPage
  <2>2. op \in Ops /\ op.as \in Live /\ Live' = Live
    BY DEF CallInv, Live
  <2>3. pml4[op.as] \in Frames
    BY <2>2 DEF TypeInv, Live
  <2>4. op' \in Ops
    <3>1. op' = [kind |-> op.kind, as |-> op.as, first |-> op.first, end |-> op.end, p |-> op.p,
                 v |-> op.v + 1, stop |-> op.stop, level |-> 0, table |-> pml4[op.as]]
      BY <2>1, <2>2 DEF Ops
    <3> QED  BY <2>2, <2>3, <3>1, SMTT(30) DEF Ops
  <2>5. /\ op'.kind = op.kind /\ op'.as = op.as /\ op'.first = op.first /\ op'.end = op.end /\ op'.p = op.p
        /\ op'.v = op.v + 1 /\ op'.stop = op.stop /\ op'.level = 0 /\ op'.table = pml4[op.as]
    BY <2>1, <2>2 DEF Ops
  <2>6. op.v \in Nat /\ op.first \in Nat /\ op.end \in Nat /\ op.stop \in Nat
    BY <2>2 DEF Ops
  <2>7. op'.first <= op'.v /\ op'.v < op'.stop /\ op'.stop <= op'.end
    BY <1>2, <2>5, <2>6, SMTT(30) DEF CallInv
  <2>8. Mapping' <=> Mapping
    BY <2>5 DEF Mapping
  <2>9. CallInv'
    BY <2>2, <2>4, <2>5, <2>7, <2>8 DEF CallInv
  <2> QED  BY <2>5, <2>9
<1> QED  BY <1>1, <1>2

LEMMA MapFailsInv ==
  ASSUME TypeInv, CallInv, op # idle, MapFails, pml4' = pml4
  PROVE  /\ CallInv'
         /\ op' # idle => op'.level = 0 /\ op'.table = pml4'[op'.as]
<1>1. CASE ~ (op.kind = "map_range" /\ op.v > op.first)
  BY <1>1 DEF MapFails, CallInv
<1>2. CASE op.kind = "map_range" /\ op.v > op.first
  <2>1. op' = [op EXCEPT !.kind = "rollback", !.v = op.first, !.stop = op.v,
                         !.level = 0, !.table = pml4[op.as]]
    BY <1>2 DEF MapFails, RollbackEnd
  <2>2. op \in Ops /\ op.as \in Live /\ Live' = Live
    BY DEF CallInv, Live
  <2>3. pml4[op.as] \in Frames
    BY <2>2 DEF TypeInv, Live
  <2>4. op' \in Ops
    <3>1. op' = [kind |-> "rollback", as |-> op.as, first |-> op.first, end |-> op.end, p |-> op.p,
                 v |-> op.first, stop |-> op.v, level |-> 0, table |-> pml4[op.as]]
      BY <2>1, <2>2 DEF Ops
    <3> QED  BY <2>2, <2>3, <3>1, SMTT(30) DEF Ops, Kinds
  <2>5. /\ op'.kind = "rollback" /\ op'.as = op.as /\ op'.first = op.first /\ op'.end = op.end
        /\ op'.v = op.first /\ op'.stop = op.v /\ op'.level = 0 /\ op'.table = pml4[op.as]
    BY <2>1, <2>2 DEF Ops
  <2>6. op.v \in Nat /\ op.first \in Nat /\ op.end \in Nat /\ op.stop \in Nat
    BY <2>2 DEF Ops
  <2>7. op'.first <= op'.v /\ op'.v < op'.stop /\ op'.stop <= op'.end
    BY <1>2, <2>5, <2>6, SMTT(30) DEF CallInv
  <2>8. ~Mapping'
    BY <2>5 DEF Mapping
  <2>9. CallInv'
    BY <2>2, <2>4, <2>5, <2>7, <2>8 DEF CallInv
  <2> QED  BY <2>5, <2>9
<1> QED  BY <1>1, <1>2

\* The walk goes one level down, to the table t.
LEMMA WalkDescends ==
  ASSUME CallInv, op # idle, op.level < 3, NEW t \in Frames,
         op' = [op EXCEPT !.level = @ + 1, !.table = t], pml4' = pml4
  PROVE  /\ CallInv'
         /\ op' # idle /\ op'.as = op.as /\ op'.v = op.v /\ op'.level = op.level + 1 /\ op'.table = t
<1>1. op \in Ops /\ Live' = Live
  BY DEF CallInv, Live
<1>2. op.level \in 0 .. 2
  BY <1>1, SMTT(30) DEF Ops
<1>3. op' \in Ops
  <2>1. op' = [kind |-> op.kind, as |-> op.as, first |-> op.first, end |-> op.end, p |-> op.p,
               v |-> op.v, stop |-> op.stop, level |-> op.level + 1, table |-> t]
    BY <1>1 DEF Ops
  <2> QED  BY <1>1, <1>2, <2>1, SMTT(30) DEF Ops
<1>4. /\ op'.kind = op.kind /\ op'.as = op.as /\ op'.first = op.first /\ op'.end = op.end /\ op'.p = op.p
      /\ op'.v = op.v /\ op'.stop = op.stop /\ op'.level = op.level + 1 /\ op'.table = t
  BY <1>1 DEF Ops
<1>5. op' # idle
  BY <1>3 DEF Ops, Kinds, idle
<1>6. Mapping' <=> Mapping
  BY <1>4 DEF Mapping
<1>7. CallInv'
  BY <1>1, <1>3, <1>4, <1>6, SMTT(30) DEF CallInv
<1> QED  BY <1>4, <1>5, <1>7

-----------------------------------------------------------------------------
(* The steps of the calls. *)

\* A step that only moves op to the root of a walk, or ends it.
LEMMA SameTables ==
  ASSUME Inv, op # idle, UNCHANGED <<free, content, pml4, cr3, booted>>, CallInv',
         op' # idle => op'.level = 0 /\ op'.table = pml4'[op'.as]
  PROVE  Inv'
<1>1. booted
  BY DEF Inv, TypeInv
<1>2. TypeInv' /\ HalfInv'
  BY <1>1 DEF Inv, TypeInv, HalfInv, KernelHalfShared, Live
<1>3. PICK lab : Tree(lab)
  BY DEF Inv
<1>4. Tree(lab)'
  BY <1>3, TreeKept
<1>5. WalkInv(lab)'
  <2>1. CASE op' = idle  BY <2>1 DEF WalkInv
  <2>2. CASE op' # idle  BY <1>4, <2>2, WalkRestarts
  <2> QED  BY <2>1, <2>2
<1> QED  BY <1>2, <1>4, <1>5 DEF Inv

LEMMA WalkCreateFailsInv ==
  ASSUME Inv, WalkCreateFails \/ AlreadyPresent
  PROVE  Inv'
<1>1. op # idle /\ MapFails /\ UNCHANGED <<free, content, pml4, cr3, booted>>
  BY DEF WalkCreateFails, AlreadyPresent
<1> QED  BY <1>1, MapFailsInv, SameTables DEF Inv

LEMMA NotMappedInv ==
  ASSUME Inv, NotMapped
  PROVE  Inv'
<1>1. op # idle /\ UNCHANGED <<free, content, pml4, cr3, booted>>
  BY DEF NotMapped
<1>2. CASE op.kind = "unmap_page"
  <2>1. op' = idle /\ CallInv'
    BY <1>2 DEF NotMapped, CallInv
  <2> QED  BY <1>1, <2>1, SameTables
<1>3. CASE op.kind # "unmap_page"
  <2>1. NextPage
    BY <1>3 DEF NotMapped
  <2> QED  BY <1>1, <2>1, NextPageInv, SameTables DEF Inv
<1> QED  BY <1>2, <1>3

\* The slot the walk looks at belongs to the half and the level of its table.
LEMMA AtTable ==
  ASSUME Inv, op # idle, NEW lab, Tree(lab), WalkInv(lab)
  PROVE  /\ op.table \in Used /\ op.table \in Frames /\ op.level \in 0 .. 3 /\ op \in Ops
         /\ lab[op.table].as = op.as /\ lab[op.table].lv = op.level
         /\ lab[op.table].at = Place(op.v, op.level)
         /\ TableIndex(op.v, op.level) \in OwnSlots(lab[op.table].as, lab[op.table].lv)
         /\ TableIndex(op.v, op.level) \in Slots
         /\ op.v \in AllPages
         /\ op.as = Kernel => Live = {Kernel}
         /\ op.level < 3 => Below(lab[op.table], TableIndex(op.v, op.level))
                            = Label(op.as, op.level + 1, Place(op.v, op.level + 1))
<1>1. /\ op.table \in Used /\ lab[op.table] = Label(op.as, op.level, Place(op.v, op.level))
      /\ op \in Ops /\ op.level \in 0 .. 3 /\ (op.as = Kernel => Live = {Kernel})
  BY DEF WalkInv, Inv, CallInv, Ops
<1>2. lab[op.table].as = op.as /\ lab[op.table].lv = op.level /\ lab[op.table].at = Place(op.v, op.level)
  BY <1>1, LabelEq, SMTT(30)
<1>3. /\ op.v \in AllPages /\ TableIndex(op.v, op.level) \in OwnSlots(op.as, op.level)
      /\ TableIndex(op.v, op.level) \in Slots
  BY <1>1, CallPages DEF Inv
<1>4. op.level < 3 => Place(op.v, op.level + 1) = Child(Place(op.v, op.level), TableIndex(op.v, op.level))
  <2>1. op.level < 3 => op.level \in 0 .. 2
    BY <1>1, SMTT(30)
  <2> QED  BY <1>3, <2>1, WalkPlaces
<1>5. op.table \in Frames
  BY <1>1 DEF Used
<1> QED  BY <1>1, <1>2, <1>3, <1>4, <1>5 DEF Below

LEMMA WalkDownInv ==
  ASSUME Inv, WalkDown
  PROVE  Inv'
<1>0. PICK lab : Tree(lab) /\ WalkInv(lab)
  BY DEF Inv
<1> DEFINE t == WalkEntry
<1>1. /\ op # idle /\ op.level < 3 /\ t # NotPresent
      /\ op' = [op EXCEPT !.level = @ + 1, !.table = t]
      /\ UNCHANGED <<free, content, pml4, cr3, booted>>
  BY DEF WalkDown, LastLevel
<1>2. t \in Used /\ lab[t] = Label(op.as, op.level + 1, Place(op.v, op.level + 1))
  <2>1. DownAt(lab, op.table)
    BY <1>0, <1>1, AtTable DEF Tree
  <2>2. t \in Used /\ lab[t] = Below(lab[op.table], TableIndex(op.v, op.level))
    BY <1>0, <1>1, <2>1, AtTable DEF DownAt, WalkEntry
  <2> QED  BY <1>0, <1>1, <2>2, AtTable
<1> HIDE DEF t
<1>3. t \in Frames
  BY <1>2 DEF Used
<1>4. /\ CallInv' /\ op'.as = op.as /\ op'.v = op.v /\ op'.level = op.level + 1 /\ op'.table = t
  BY <1>1, <1>3, WalkDescends DEF Inv
<1>5. Tree(lab)' /\ Used' = Used
  BY <1>0, <1>1, TreeKept DEF Used
<1>6. WalkInv(lab)'
  BY <1>2, <1>4, <1>5 DEF WalkInv
<1>7. booted
  BY <1>1 DEF Inv, TypeInv
<1>8. TypeInv' /\ HalfInv'
  BY <1>1, <1>7 DEF Inv, TypeInv, HalfInv, KernelHalfShared, Live
<1> QED  BY <1>4, <1>5, <1>6, <1>8 DEF Inv

\* A new table is linked where the walk found none.
LEMMA WalkCreateTree ==
  ASSUME Inv, WalkCreate, NEW lab, Tree(lab), WalkInv(lab)
  PROVE  /\ Inv'
         /\ \E f, l :
              /\ f \in free /\ Link(f, op.table, TableIndex(op.v, op.level))
              /\ l = Extended(lab, f, Below(lab[op.table], TableIndex(op.v, op.level)))
              /\ Tree(l)'
<1> DEFINE t == op.table
           i == TableIndex(op.v, op.level)
<1>2. /\ op # idle /\ op.level < 3 /\ content[t][i] = NotPresent
      /\ UNCHANGED <<pml4, cr3, booted>>
  BY DEF WalkCreate, WalkEntry, LastLevel
<1>3. PICK f \in free :
        /\ free' = free \ {f}
        /\ content' = [content EXCEPT ![f] = Empty, ![t] = [@ EXCEPT ![i] = f]]
        /\ op' = [op EXCEPT !.level = @ + 1, !.table = f]
  BY DEF WalkCreate, pmm_alloc_page, vmm_alloc_page_table
<1>4. /\ t \in Used /\ t \in Frames /\ lab[t].as = op.as /\ lab[t].lv = op.level
      /\ i \in OwnSlots(lab[t].as, lab[t].lv) /\ i \in Slots
      /\ (op.as = Kernel => Live = {Kernel})
      /\ Below(lab[t], i) = Label(op.as, op.level + 1, Place(op.v, op.level + 1))
  BY <1>2, AtTable
<1> HIDE DEF t, i
<1>5. /\ free \subseteq Frames /\ NotPresent \notin Frames /\ f # BootPdp /\ f \in Frames /\ f \notin Used /\ f # t
  BY <1>4, FrameFacts DEF Inv, Used
<1>6. content \in [Frames -> [Slots -> Entry]]
  BY DEF Inv, TypeInv
<1>7. /\ content'[f] = Empty
      /\ content'[t] = [content[t] EXCEPT ![i] = f]
      /\ \A g \in Frames : g # f /\ g # t => content'[g] = content[g]
  BY <1>3, <1>4, <1>5, <1>6
<1>8. Link(f, t, i)
  <2>1. pml4' = pml4 /\ free' = free \ {f}
    BY <1>2, <1>3
  <2> QED  BY <1>4, <1>5, <1>6, <1>7, <2>1 DEF Link, Empty, Used
<1>9. PICK l : l = Extended(lab, f, Below(lab[t], i))
  OBVIOUS
<1>10. l[f] = Below(lab[t], i)
  BY <1>9 DEF Extended
<1>11. Tree(l)'
  <2>1. lab[t].lv < 3 /\ content[t][i] = NotPresent
    BY <1>2, <1>4
  <2> QED  BY <1>4, <1>8, <1>9, <2>1, TreeGrows DEF Inv
<1>12. /\ CallInv' /\ op'.as = op.as /\ op'.v = op.v /\ op'.level = op.level + 1 /\ op'.table = f
  BY <1>2, <1>3, <1>5, WalkDescends DEF Inv
<1>13. WalkInv(l)'
  <2>1. f \in Used'
    BY <1>3, <1>5 DEF Used
  <2> QED  BY <1>4, <1>12, <1>10, <2>1 DEF WalkInv
<1>14. HalfInv'
  BY <1>2, <1>4, <1>8, HalfKept DEF Inv, Link
<1>15. TypeInv'
  <2>1. content' \in [Frames -> [Slots -> Entry]]
    <3>1. Empty \in [Slots -> Entry]
      BY DEF Empty, Entry
    <3>2. [content[t] EXCEPT ![i] = f] \in [Slots -> Entry]
      BY <1>4, <1>5, <1>6 DEF Entry
    <3>3. content' = [g \in Frames |-> content'[g]]
      BY <1>3, <1>6
    <3>4. \A g \in Frames : content'[g] \in [Slots -> Entry]
      BY <1>6, <1>7, <3>1, <3>2
    <3> QED  BY <3>3, <3>4
  <2>2. booted
    BY <1>2 DEF Inv, TypeInv
  <2>3. Live' = Live
    BY <1>2 DEF Live
  <2> QED  BY <1>2, <1>3, <2>1, <2>2, <2>3 DEF Inv, TypeInv
<1>16. Inv'
  BY <1>12, <1>13, <1>14, <1>15, <1>11 DEF Inv
<1> QED  BY <1>8, <1>9, <1>11, <1>16 DEF t, i

LEMMA WalkCreateInv ==
  ASSUME Inv, WalkCreate
  PROVE  Inv'
  BY WalkCreateTree DEF Inv

\* StorePte and ClearPte write one entry of a last-level table and go on.
WriteLast(x) ==
  /\ op # idle /\ op.level = 3
  /\ content' = [content EXCEPT ![op.table] = [@ EXCEPT ![TableIndex(op.v, 3)] = x]]
  /\ NextPage
  /\ UNCHANGED <<free, pml4, cr3, booted>>

LEMMA WriteLastInv ==
  ASSUME Inv, NEW x \in Entry, WriteLast(x)
  PROVE  Inv'
<1>0. PICK lab : Tree(lab) /\ WalkInv(lab)
  BY DEF Inv
<1> DEFINE t == op.table
           i == TableIndex(op.v, op.level)
<1>1. /\ op # idle /\ op.level = 3 /\ NextPage
      /\ content' = [content EXCEPT ![t] = [@ EXCEPT ![i] = x]]
      /\ UNCHANGED <<free, pml4, cr3, booted>>
  BY DEF WriteLast
<1>2. /\ t \in Used /\ t \in Frames /\ lab[t].as = op.as /\ lab[t].lv = 3
      /\ i \in OwnSlots(lab[t].as, lab[t].lv) /\ i \in Slots
      /\ (op.as = Kernel => Live = {Kernel})
  BY <1>0, <1>1, AtTable
<1> HIDE DEF t, i
<1>3. content \in [Frames -> [Slots -> Entry]]
  BY DEF Inv, TypeInv
<1>4. /\ content'[t] = [content[t] EXCEPT ![i] = x]
      /\ \A g \in Frames : g # t => content'[g] = content[g]
  BY <1>1, <1>2, <1>3
<1>5. /\ \A j \in Slots \ {i} : content'[t][j] = content[t][j]
      /\ \A g \in Used \ {t} : content'[g] = content[g]
  BY <1>2, <1>3, <1>4 DEF Used
<1>6. Tree(lab)'
  BY <1>0, <1>1, <1>2, <1>5, TreeKept, SMTT(30)
<1>7. HalfInv'
  BY <1>0, <1>1, <1>2, <1>5, HalfKept DEF Inv
<1>8. content' \in [Frames -> [Slots -> Entry]]
  <2>1. [content[t] EXCEPT ![i] = x] \in [Slots -> Entry]
    BY <1>2, <1>3
  <2> QED  BY <1>1, <1>3, <2>1
<1>9. TypeInv'
  <2>1. booted /\ Live' = Live
    BY <1>1 DEF Inv, TypeInv, Live
  <2> QED  BY <1>1, <1>8, <2>1 DEF Inv, TypeInv
<1>10. CallInv' /\ (op' # idle => op'.level = 0 /\ op'.table = pml4'[op'.as])
  BY <1>1, NextPageInv DEF Inv
<1>11. WalkInv(lab)'
  <2>1. CASE op' = idle  BY <2>1 DEF WalkInv
  <2>2. CASE op' # idle  BY <1>6, <1>10, <2>2, WalkRestarts
  <2> QED  BY <2>1, <2>2
<1> QED  BY <1>6, <1>7, <1>9, <1>10, <1>11 DEF Inv

\* The page a mapping stores is one of its caller's.
LEMMA StoredPage ==
  ASSUME Inv, op # idle, Mapping
  PROVE  PhysPage \in DataPages /\ PhysPage \in Entry
<1>1. op \in Ops /\ OntoData(op.first, op.end, op.p) /\ op.first <= op.v /\ op.v < op.end
  BY SMTT(30) DEF Inv, CallInv, Ops
<1>2. op.v \in op.first .. op.end - 1
  BY <1>1, SMTT(30) DEF Ops
<1> QED  BY <1>1, <1>2 DEF OntoData, PhysPage, DataPages, Entry

LEMMA StorePteInv ==
  ASSUME Inv, StorePte
  PROVE  Inv'
<1>1. op # idle /\ Mapping /\ WriteLast(PhysPage)
  BY DEF StorePte, WriteLast, LastLevel
<1> QED  BY <1>1, StoredPage, WriteLastInv

LEMMA ClearPteInv ==
  ASSUME Inv, ClearPte
  PROVE  Inv'
<1>1. WriteLast(NotPresent)
  BY DEF ClearPte, WriteLast, LastLevel
<1>2. NotPresent \in Entry
  BY DEF Entry
<1> QED  BY <1>1, <1>2, WriteLastInv

-----------------------------------------------------------------------------
(* Address spaces and the beginnings of calls. *)

\* A new space is a root alone.
LEMMA CreateTree ==
  ASSUME Inv, NEW s \in UserSpaces, vmm_create_address_space(s), NEW lab, Tree(lab)
  PROVE  /\ Inv'
         /\ \E f, l :
              /\ f \in free /\ PlantRoot(s, f) /\ l = Extended(lab, f, Label(s, 0, 0))
              /\ Tree(l)' /\ Live' = Live \cup {s}
<1>1. PICK f \in free :
        /\ free' = free \ {f}
        /\ pml4' = [pml4 EXCEPT ![s] = f]
        /\ content' = [content EXCEPT ![f] =
             [i \in Slots |-> IF i \in KernelSlots THEN content[pml4[Kernel]][i]
                              ELSE vmm_alloc_page_table(f)[i]]]
  BY DEF vmm_create_address_space, pmm_alloc_page
<1>2. op = idle /\ op' = idle /\ booted /\ booted' /\ cr3' = cr3 /\ s \notin Live
  BY DEF vmm_create_address_space
<1>3. /\ free \subseteq Frames /\ NotPresent \notin Frames /\ f \in Frames /\ f \notin Used
      /\ s \in Spaces /\ s # Kernel /\ Kernel \in Spaces
  BY FrameFacts, ShapeAssumption DEF Inv, Used, Spaces
<1>4. content \in [Frames -> [Slots -> Entry]] /\ pml4 \in [Spaces -> Frames \cup {NotPresent}]
      /\ pml4[Kernel] = BootPml4 /\ BootPml4 \in Used /\ BootPml4 \in Frames
  BY FrameFacts DEF Inv, TypeInv, HalfInv, Used
<1>5. /\ \A i \in Slots : content'[f][i] = IF i \in KernelSlots THEN content[BootPml4][i] ELSE NotPresent
      /\ \A g \in Frames : g # f => content'[g] = content[g]
  BY <1>1, <1>3, <1>4 DEF vmm_alloc_page_table, Empty
<1>6. Slots = UserSlots \cup KernelSlots /\ UserSlots \cap KernelSlots = {}
  BY SlotFacts
<1>7. PlantRoot(s, f)
  BY <1>1, <1>3, <1>5, <1>6 DEF PlantRoot, Used
<1>8. PICK l : l = Extended(lab, f, Label(s, 0, 0))
  OBVIOUS
<1>9. Tree(l)'
  BY <1>2, <1>7, <1>8, TreePlanted DEF Inv
<1>10. pml4'[s] = f /\ pml4' \in [Spaces -> Frames \cup {NotPresent}]
       /\ \A x \in Spaces : x # s => pml4'[x] = pml4[x]
  BY <1>1, <1>3, <1>4
<1>11. Live' = Live \cup {s}
  BY <1>3, <1>10 DEF Live
<1>12. content' \in [Frames -> [Slots -> Entry]]
  <2>1. content' = [g \in Frames |-> content'[g]]
    BY <1>1, <1>4
  <2>2. content'[f] = [i \in Slots |-> IF i \in KernelSlots THEN content[BootPml4][i] ELSE NotPresent]
    BY <1>1, <1>3, <1>4 DEF vmm_alloc_page_table, Empty
  <2>3. content'[f] \in [Slots -> Entry]
    BY <1>4, <2>2, SMTT(30) DEF Entry
  <2>4. \A g \in Frames : content'[g] \in [Slots -> Entry]
    BY <1>4, <1>5, <2>3
  <2> QED  BY <2>1, <2>4
<1>13. TypeInv'
  BY <1>1, <1>2, <1>10, <1>11, <1>12 DEF Inv, TypeInv
<1>14. HalfInv'
  <2>1. content'[BootPml4] = content[BootPml4] /\ pml4'[Kernel] = BootPml4
    BY <1>3, <1>4, <1>5, <1>10 DEF Used
  <2>2. ASSUME NEW x \in Live', NEW i \in KernelSlots
        PROVE  content'[pml4'[x]][i] = content[BootPml4][i]
    <3>1. CASE x = s
      BY <1>5, <1>6, <1>10, <3>1
    <3>2. CASE x # s
      <4>1. x \in Live /\ pml4'[x] = pml4[x]
        BY <1>10, <1>11, <3>2 DEF Live
      <4>2. pml4[x] \in Used
        BY <4>1 DEF Tree, Roots
      <4>3. content'[pml4[x]] = content[pml4[x]]
        BY <1>3, <1>5, <4>2 DEF Used
      <4> QED  BY <1>4, <4>1, <4>3, SMTT(30) DEF Inv, HalfInv, KernelHalfShared
    <3> QED  BY <3>1, <3>2
  <2> QED  BY <2>1, <2>2 DEF Inv, HalfInv, KernelHalfShared
<1>15. CallInv' /\ WalkInv(l)'
  BY <1>2 DEF CallInv, WalkInv
<1>16. Inv'
  BY <1>9, <1>13, <1>14, <1>15 DEF Inv
<1> QED  BY <1>7, <1>8, <1>9, <1>11, <1>16

LEMMA CreateInv ==
  ASSUME Inv, NEW s \in UserSpaces, vmm_create_address_space(s)
  PROVE  Inv'
  BY CreateTree DEF Inv

\* The tables of a destroyed space are gone with it.
LEMMA DestroyTree ==
  ASSUME Inv, NEW s \in UserSpaces, vmm_destroy_address_space(s), NEW lab, Tree(lab)
  PROVE  /\ Inv'
         /\ \E gone, l :
              /\ gone = {f \in Used : lab[f].as = s} /\ Fell(s, gone)
              /\ l = [g \in Used \ gone |-> lab[g]]
              /\ Tree(l)' /\ Live' = Live \ {s}
<1>1. /\ op = idle /\ op' = idle /\ s \in Live \ {Kernel} /\ cr3 # s /\ cr3' = cr3 /\ booted' = booted
      /\ free' = free \cup TablesToFree(s)
      /\ content' = [f \in Frames |-> IF f \in TablesToFree(s) THEN Foreign ELSE content[f]]
      /\ pml4' = [pml4 EXCEPT ![s] = NotPresent]
  BY DEF vmm_destroy_address_space
<1>2. PICK gone : gone = {f \in Used : lab[f].as = s}
  OBVIOUS
<1>3. TablesToFree(s) = gone
  BY <1>1, <1>2, TablesOfSpace
<1>4. /\ gone \subseteq Used /\ Used \subseteq Frames /\ s \in Spaces
      /\ content \in [Frames -> [Slots -> Entry]] /\ pml4 \in [Spaces -> Frames \cup {NotPresent}]
      /\ pml4[Kernel] = BootPml4 /\ Kernel \in Spaces
  BY <1>1, <1>2, FrameFacts DEF Inv, TypeInv, HalfInv, Used, Live
<1>5. \A g \in Used \ gone : content'[g] = content[g]
  BY <1>1, <1>3, <1>4
<1>6. Fell(s, gone)
  BY <1>1, <1>3, <1>5 DEF Fell
<1>7. PICK l : l = [g \in Used \ gone |-> lab[g]]
  OBVIOUS
<1>8. Tree(l)'
  BY <1>1, <1>2, <1>6, <1>7, TreeFelled DEF Inv
<1>9. /\ pml4'[s] = NotPresent /\ pml4' \in [Spaces -> Frames \cup {NotPresent}]
      /\ \A x \in Spaces : x # s => pml4'[x] = pml4[x]
  BY <1>1, <1>4
<1>10. Live' = Live \ {s}
  BY <1>4, <1>9 DEF Live
<1>11. content' \in [Frames -> [Slots -> Entry]]
  <2>1. Foreign \in [Slots -> Entry]
    BY DEF Foreign, Entry
  <2> QED  BY <1>1, <1>4, <2>1
<1>12. gone \subseteq Pool
  <2>1. ASSUME NEW f \in gone PROVE f # BootPml4 /\ f # BootPdp
    <3>1. Kernel \in Live /\ lab[BootPml4].as = Kernel /\ lab[BootPdp].as = Kernel
      <4>1. Kernel \in Live
        BY <1>4, FrameFacts DEF Inv, Live, Used
      <4> QED  BY <1>4, <4>1, LabelEq, SMTT(30) DEF Tree, Roots
    <3> QED  BY <1>1, <1>2, <3>1
  <2> QED  BY <1>4, <2>1 DEF Frames
<1>13. TypeInv'
  BY <1>1, <1>3, <1>9, <1>10, <1>11, <1>12 DEF Inv, TypeInv
<1>14. HalfInv'
  <2>1. \A x \in Live' : x \in Live /\ pml4'[x] = pml4[x] /\ content'[pml4[x]] = content[pml4[x]]
    <3> TAKE x \in Live'
    <3>1. x \in Live /\ x # s /\ pml4'[x] = pml4[x]
      BY <1>9, <1>10 DEF Live
    <3>2. pml4[x] \in Used /\ lab[pml4[x]].as = x
      BY <3>1, LabelEq, SMTT(30) DEF Tree, Roots
    <3>3. pml4[x] \in Used \ gone
      BY <1>2, <3>1, <3>2
    <3> QED  BY <1>5, <3>1, <3>3
  <2>2. Kernel \in Live'
    BY <1>1, <1>4, <1>10, FrameFacts DEF Inv, Live, Used
  <2>3. content'[BootPml4] = content[BootPml4] /\ pml4'[Kernel] = BootPml4
    BY <1>4, <2>1, <2>2
  <2> QED  BY <1>4, <2>1, <2>3, SMTT(30) DEF Inv, HalfInv, KernelHalfShared
<1>15. CallInv' /\ WalkInv(l)'
  BY <1>1 DEF CallInv, WalkInv
<1>16. Inv'
  BY <1>8, <1>13, <1>14, <1>15 DEF Inv
<1> QED  BY <1>2, <1>6, <1>7, <1>8, <1>10, <1>16

LEMMA DestroyInv ==
  ASSUME Inv, NEW s \in UserSpaces, vmm_destroy_address_space(s)
  PROVE  Inv'
  BY DestroyTree DEF Inv

LEMMA UserCallInv ==
  ASSUME Inv, NEW s \in UserSpaces, NEW r \in Requests,
         \/ vmm_unmap_page(s, r) \/ vmm_unmap_range(s, r)
         \/ \E p \in PPages : vmm_map_page(s, r, p) \/ vmm_map_range(s, r, p)
  PROVE  Inv'
<1> DEFINE first == vmm_page_align_down(r[1])
           end == vmm_page_align_up(r[1] + r[2])
<1>1. first \in Nat /\ end \in Nat /\ first < end /\ \A w \in PagesOf(r) : w \in UserPages
  BY RequestPages
<1>2. s \in Spaces /\ s # Kernel
  BY ShapeAssumption DEF Spaces
<1>3. PagesOf(r) = first .. end - 1
  BY DEF PagesOf
<1> HIDE DEF first, end
<1>4. InItsHalf(s, first, end) /\ InItsHalf(s, first, first + 1)
  BY <1>1, <1>2, <1>3, SMTT(30) DEF InItsHalf, PagesFor
<1>5. booted' = booted /\ op = idle /\ s \in Live
  BY DEF vmm_unmap_page, vmm_unmap_range, vmm_map_page, vmm_map_range, Call
<1>6. booted'
  BY <1>2, <1>5 DEF Inv, TypeInv
<1>7. first + 1 \in Nat /\ first < first + 1 /\ 0 \in Int
  BY <1>1, SMTT(30)
<1>8. CASE vmm_unmap_page(s, r)
  <2>1. Call("unmap_page", s, first, first + 1, 0)
    BY <1>8 DEF vmm_unmap_page, first
  <2> QED  BY <1>1, <1>2, <1>4, <1>6, <1>7, <2>1, CallBegins DEF Kinds
<1>9. CASE vmm_unmap_range(s, r)
  <2>1. Call("unmap_range", s, first, end, 0)
    BY <1>9 DEF vmm_unmap_range, first, end
  <2> QED  BY <1>1, <1>2, <1>4, <1>6, <1>7, <2>1, CallBegins DEF Kinds
<1>10. ASSUME NEW p \in PPages, vmm_map_page(s, r, p) PROVE Inv'
  <2>1. Call("map_page", s, first, first + 1, p)
    BY <1>10 DEF vmm_map_page, first
  <2>2. p \in Int
    BY ShapeAssumption
  <2>3. OntoData(first, first + 1, p)
    <3>1. \A w \in first .. (first + 1) - 1 : p + (w - first) = p
      BY <1>1, <2>2, SMTT(30)
    <3> QED  BY <3>1 DEF OntoData, DataPages
  <2> QED  BY <1>1, <1>2, <1>4, <1>6, <1>7, <2>1, <2>2, <2>3, CallBegins DEF Kinds
<1>11. ASSUME NEW p \in PPages, vmm_map_range(s, r, p) PROVE Inv'
  <2>1. Call("map_range", s, first, end, p)
    BY <1>11 DEF vmm_map_range, first, end
  <2>2. p \in Int
    BY ShapeAssumption
  <2>3. OntoData(first, end, p)
    BY <1>3, <1>11 DEF vmm_map_range, OntoData, DataPages, first
  <2> QED  BY <1>1, <1>2, <1>4, <1>6, <2>1, <2>2, <2>3, CallBegins DEF Kinds
<1> QED  BY <1>8, <1>9, <1>10, <1>11

LEMMA ApicInv ==
  ASSUME Inv, apic_global_init
  PROVE  Inv'
<1>1. Live = {Kernel} /\ booted' /\ Call("map_range", Kernel, APIC_VADDR, APIC_VADDR + 1, APIC_BASE_ADDR)
  BY DEF Inv, TypeInv, apic_global_init
<1>2. Kernel \in Spaces /\ APIC_BASE_ADDR \in Int /\ APIC_VADDR \in KernelPages
  BY ShapeAssumption, RequestAssumption DEF Spaces
<1>3. APIC_VADDR \in Nat
  BY <1>2, PagesAreNat DEF AllPages
<1>4. APIC_VADDR + 1 \in Nat /\ APIC_VADDR < APIC_VADDR + 1
      /\ \A w \in APIC_VADDR .. (APIC_VADDR + 1) - 1 : w = APIC_VADDR
  BY <1>3, SMTT(30)
<1>5. InItsHalf(Kernel, APIC_VADDR, APIC_VADDR + 1)
  BY <1>2, <1>4 DEF InItsHalf, PagesFor
<1>6. OntoData(APIC_VADDR, APIC_VADDR + 1, APIC_BASE_ADDR)
  <2>1. \A w \in APIC_VADDR .. (APIC_VADDR + 1) - 1 : APIC_BASE_ADDR + (w - APIC_VADDR) = APIC_BASE_ADDR
    BY <1>2, <1>3, SMTT(30)
  <2> QED  BY <2>1 DEF OntoData, DataPages
<1> QED  BY <1>1, <1>2, <1>3, <1>4, <1>5, <1>6, CallBegins DEF Kinds

\* What changes neither the tables nor the call.
LEMMA OutsideInv ==
  ASSUME Inv, UNCHANGED <<free, content, pml4, op, booted>>, cr3' \in Live
  PROVE  Inv'
<1>1. Live' = Live /\ Used' = Used
  BY DEF Live, Used
<1>2. TypeInv' /\ HalfInv' /\ CallInv'
  BY <1>1 DEF Inv, TypeInv, HalfInv, KernelHalfShared, CallInv, Mapping
<1>3. PICK lab : Tree(lab) /\ WalkInv(lab)
  BY DEF Inv
<1>4. Tree(lab)' /\ WalkInv(lab)'
  BY <1>1, <1>3, TreeKept DEF WalkInv
<1> QED  BY <1>2, <1>4 DEF Inv

LEMMA InvInductive == Inv /\ [Next]_vars => Inv'
<1> SUFFICES ASSUME Inv, [Next]_vars PROVE Inv'
  OBVIOUS
<1>1. CASE apic_global_init  BY <1>1, ApicInv
<1>2. ASSUME NEW s \in UserSpaces, vmm_create_address_space(s) PROVE Inv'
  BY <1>2, CreateInv
<1>3. ASSUME NEW s \in UserSpaces, vmm_destroy_address_space(s) PROVE Inv'
  BY <1>3, DestroyInv
<1>4. ASSUME NEW s \in UserSpaces, NEW r \in Requests,
             \/ vmm_unmap_page(s, r) \/ vmm_unmap_range(s, r)
             \/ \E p \in PPages : vmm_map_page(s, r, p) \/ vmm_map_range(s, r, p)
      PROVE  Inv'
  BY <1>4, UserCallInv
<1>5. ASSUME NEW s \in Spaces, vmm_switch_address_space(s) PROVE Inv'
  BY <1>5, OutsideInv DEF vmm_switch_address_space
<1>6. CASE WalkDown  BY <1>6, WalkDownInv
<1>7. CASE WalkCreate  BY <1>7, WalkCreateInv
<1>8. CASE WalkCreateFails \/ AlreadyPresent  BY <1>8, WalkCreateFailsInv
<1>9. CASE NotMapped  BY <1>9, NotMappedInv
<1>10. CASE StorePte  BY <1>10, StorePteInv
<1>11. CASE ClearPte  BY <1>11, ClearPteInv
<1>12. CASE TlbFill
  <2>1. UNCHANGED <<free, content, pml4, op, cr3, booted>>
    BY <1>12 DEF TlbFill
  <2> QED  BY <2>1, OutsideInv DEF Inv, TypeInv
<1>13. CASE UNCHANGED vars
  <2>1. UNCHANGED <<free, content, pml4, op, cr3, booted>>
    BY <1>13 DEF vars
  <2> QED  BY <2>1, OutsideInv DEF Inv, TypeInv
<1> QED  BY <1>1, <1>2, <1>3, <1>4, <1>5, <1>6, <1>7, <1>8, <1>9, <1>10, <1>11, <1>12, <1>13 DEF Next

\* The tables of every space form a tree, and the walk of the call in progress stands in
\* the right one: Inv, from which the theorems below follow.
THEOREM Invariance == Spec => []Inv
  BY InitInv, InvInductive, PTL DEF Spec

\* All spaces have the kernel half vmm_create_address_space copied, also after
\* apic_global_init and whatever is mapped or unmapped in them.
THEOREM KernelHalfStaysShared == Spec => []KernelHalfShared
<1>1. Inv => KernelHalfShared
  BY DEF Inv, HalfInv
<1> QED  BY <1>1, Invariance, PTL

-----------------------------------------------------------------------------
(* Every table is accounted for. *)

LEMMA TablesOfKernel ==
  ASSUME Inv, NEW lab, Tree(lab)
  PROVE  KernelTables = {f \in Used : lab[f].as = Kernel}
<1>0. Kernel \in Live /\ pml4[Kernel] = BootPml4
  BY FrameFacts DEF Inv, HalfInv, Live, Used
<1>1. OwnSlots(Kernel, 0) = KernelSlots /\ OwnSlots(Kernel, 1) = Slots /\ OwnSlots(Kernel, 2) = Slots
  BY SMTT(30) DEF OwnSlots
<1>2. TablesAt(lab, Kernel, 0) = {BootPml4}
  BY <1>0, RootsOnly
<1>3. /\ Targets(TablesAt(lab, Kernel, 0), OwnSlots(Kernel, 0)) = TablesAt(lab, Kernel, 0 + 1)
      /\ Targets(TablesAt(lab, Kernel, 1), OwnSlots(Kernel, 1)) = TablesAt(lab, Kernel, 1 + 1)
      /\ Targets(TablesAt(lab, Kernel, 2), OwnSlots(Kernel, 2)) = TablesAt(lab, Kernel, 2 + 1)
  BY <1>0, LevelTargets, SMTT(30)
<1>4. /\ Targets({BootPml4}, KernelSlots) = TablesAt(lab, Kernel, 1)
      /\ Targets(TablesAt(lab, Kernel, 1), Slots) = TablesAt(lab, Kernel, 2)
      /\ Targets(TablesAt(lab, Kernel, 2), Slots) = TablesAt(lab, Kernel, 3)
  BY <1>1, <1>2, <1>3, SMTT(30)
<1>5. KernelTables = {BootPml4} \cup TablesAt(lab, Kernel, 1) \cup TablesAt(lab, Kernel, 2)
                     \cup TablesAt(lab, Kernel, 3)
  BY <1>4 DEF KernelTables
<1>6. UNION {TablesAt(lab, Kernel, k) : k \in 0 .. 3} = {f \in Used : lab[f].as = Kernel}
  BY LabelFacts, SMTT(30) DEF TablesAt, Tree
<1>7. 0 .. 3 = {0, 1, 2, 3}
  BY SMTT(30)
<1> QED  BY <1>2, <1>5, <1>6, <1>7

\* The tables of a space below its root.
LowerTables(s) == UserTables(s) \ {pml4[s]}

\* Each present entry of the user half points to a table of its own, and every table but
\* the root has an entry.
LEMMA LinksAreOneToOne ==
  ASSUME Inv, NEW s \in Live \ {Kernel}
  PROVE  /\ Links(s) \subseteq Frames \X Slots
         /\ UserTables(s) = LowerTables(s) \cup {pml4[s]} /\ pml4[s] \notin LowerTables(s)
         /\ \E M \in [Links(s) -> LowerTables(s)] :
              /\ \A a, b \in Links(s) : M[a] = M[b] => a = b
              /\ \A u \in LowerTables(s) : \E l \in Links(s) : M[l] = u
<1> PICK lab : Tree(lab)
  BY DEF Inv
<1> PICK Target : Target = [l \in Links(s) |-> content[l[1]][l[2]]]
  OBVIOUS
<1> DEFINE T == {f \in Used : lab[f].as = s}
<1>0. Labelled(lab) /\ pml4[s] \in Used /\ lab[pml4[s]].as = s /\ lab[pml4[s]].lv = 0
  BY LabelEq, SMTT(30) DEF Tree, Roots
<1>1. UserTables(s) = T /\ LowerTables(s) = T \ {pml4[s]}
      /\ Pdps(s) = TablesAt(lab, s, 1) /\ Pds(s) = TablesAt(lab, s, 2)
  BY TablesOfSpace DEF LowerTables
<1>2. OwnSlots(s, 0) = UserSlots /\ \A k \in 1 .. 3 : OwnSlots(s, k) = Slots
  BY SMTT(30) DEF OwnSlots
<1>3. ASSUME NEW l \in Links(s)
      PROVE  /\ l[1] \in Used /\ lab[l[1]].as = s /\ lab[l[1]].lv \in 0 .. 2
             /\ l[2] \in OwnSlots(s, lab[l[1]].lv) /\ content[l[1]][l[2]] # NotPresent
             /\ l = <<l[1], l[2]>>
  BY <1>0, <1>1, <1>2, SMTT(30) DEF Links, TablesAt
<1>4. ASSUME NEW f \in Used, lab[f].as = s, lab[f].lv \in 0 .. 2, NEW i \in OwnSlots(s, lab[f].lv),
             content[f][i] # NotPresent
      PROVE  <<f, i>> \in Links(s)
  <2>1. CASE lab[f].lv = 0
    <3>1. f = pml4[s]
      BY <1>4, <2>1 DEF Tree, Roots
    <3>2. i \in UserSlots
      BY <1>2, <2>1
    <3> QED  BY <1>4, <3>1, <3>2 DEF Links
  <2>2. CASE lab[f].lv \in 1 .. 2
    <3>1. f \in Pdps(s) \cup Pds(s)
      <4>1. lab[f].lv = 1 \/ lab[f].lv = 2
        BY <2>2, SMTT(30)
      <4> QED  BY <1>1, <1>4, <4>1 DEF TablesAt
    <3>2. i \in Slots
      BY <1>2, <2>2, SMTT(30)
    <3> QED  BY <1>4, <3>1, <3>2 DEF Links
  <2> QED  BY <1>4, <2>1, <2>2, SMTT(30)
<1>5. ASSUME NEW l \in Links(s)
      PROVE  /\ content[l[1]][l[2]] \in Used
             /\ lab[content[l[1]][l[2]]] = Below(lab[l[1]], l[2])
  <2>1. lab[l[1]].lv < 3 /\ l[2] \in OwnSlots(lab[l[1]].as, lab[l[1]].lv)
    BY <1>3, SMTT(30)
  <2> QED  BY <1>3, <2>1 DEF Tree, DownAt
<1>6. Target \in [Links(s) -> LowerTables(s)]
  <2>1. ASSUME NEW l \in Links(s) PROVE content[l[1]][l[2]] \in LowerTables(s)
    <3>1. lab[content[l[1]][l[2]]].as = s /\ lab[content[l[1]][l[2]]].lv = lab[l[1]].lv + 1
      BY <1>3, <1>5, LabelEq, SMTT(30) DEF Below
    <3>2. lab[content[l[1]][l[2]]].lv # 0
      BY <1>3, <3>1, SMTT(30)
    <3> QED  BY <1>0, <1>1, <1>5, <3>1, <3>2
  <2> QED  BY <2>1
<1>7. ASSUME NEW a \in Links(s), NEW b \in Links(s), Target[a] = Target[b] PROVE a = b
  <2>1. Below(lab[a[1]], a[2]) = Below(lab[b[1]], b[2])
    BY <1>5, <1>7
  <2>2. lab[a[1]].lv + 1 = lab[b[1]].lv + 1 /\ Child(lab[a[1]].at, a[2]) = Child(lab[b[1]].at, b[2])
    BY <2>1, LabelEq, SMTT(30) DEF Below
  <2>3. lab[a[1]].at \in Nat /\ lab[b[1]].at \in Nat /\ a[2] \in Slots /\ b[2] \in Slots
        /\ lab[a[1]].lv \in Int /\ lab[b[1]].lv \in Int
    BY <1>0, <1>3, LabelFacts, OwnSlotsFacts, SMTT(30)
  <2>4. lab[a[1]].at = lab[b[1]].at /\ a[2] = b[2] /\ lab[a[1]].lv = lab[b[1]].lv
    BY <2>2, <2>3, ChildInjective, SMTT(30)
  <2>5. lab[a[1]] = lab[b[1]]
    BY <1>0, <1>3, <2>4, LabelFacts, SMTT(30)
  <2>6. a[1] = b[1]
    BY <1>0, <1>3, <2>5 DEF Labelled
  <2> QED  BY <1>3, <2>4, <2>6
<1>8. ASSUME NEW u \in LowerTables(s) PROVE \E l \in Links(s) : Target[l] = u
  <2>1. u \in Used /\ lab[u].as = s /\ u # pml4[s] /\ u # NotPresent /\ lab[u].lv \in 0 .. 3
    BY <1>0, <1>1, LabelFacts
  <2>2. lab[u].lv > 0
    BY <2>1, SMTT(30) DEF Tree, Roots
  <2>3. PICK g \in Used : lab[g].lv < 3 /\ \E i \in OwnSlots(lab[g].as, lab[g].lv) : content[g][i] = u
    BY <2>1, <2>2 DEF Tree, UpAt
  <2>4. PICK i \in OwnSlots(lab[g].as, lab[g].lv) : content[g][i] = u
    BY <2>3
  <2>5. lab[u] = Below(lab[g], i)
    BY <2>1, <2>3, <2>4 DEF Tree, DownAt
  <2>6. lab[g].as = s /\ lab[g].lv \in 0 .. 2
    BY <1>0, <2>1, <2>3, <2>5, LabelEq, LabelFacts, SMTT(30) DEF Below
  <2>7. <<g, i>> \in Links(s)
    BY <1>4, <2>1, <2>4, <2>6
  <2> QED  BY <2>4, <2>7
<1>9. ASSUME NEW l \in Links(s) PROVE l \in Frames \X Slots
  <2>1. l[1] \in Frames /\ l[2] \in Slots /\ l = <<l[1], l[2]>>
    BY <1>3, OwnSlotsFacts DEF Used
  <2> QED  BY <2>1
<1>10. UserTables(s) = LowerTables(s) \cup {pml4[s]} /\ pml4[s] \notin LowerTables(s)
  BY <1>0, <1>1, SMTT(30)
<1>11. Links(s) \subseteq Frames \X Slots
  BY <1>9
<1>12. \E M \in [Links(s) -> LowerTables(s)] : /\ \A a, b \in Links(s) : M[a] = M[b] => a = b
                                            /\ \A u \in LowerTables(s) : \E l \in Links(s) : M[l] = u
  BY <1>6, <1>7, <1>8
<1> QED  BY <1>10, <1>11, <1>12

LEMMA TablesAndFree ==
  ASSUME Inv, NEW users, users = Live \ {Kernel}
  PROVE  /\ Pool = free \cup (KernelTables \cap Pool) \cup UNION {UserTables(s) : s \in users}
         /\ KernelTables \cap free = {}
         /\ \A s \in users :
              /\ UserTables(s) \cap (free \cup KernelTables) = {}
              /\ \A t \in users \ {s} : UserTables(s) \cap UserTables(t) = {}
<1>1. PICK lab : Tree(lab)
  BY DEF Inv
<1> DEFINE Of(s) == {f \in Used : lab[f].as = s}
<1>2. KernelTables = Of(Kernel)
  BY <1>1, TablesOfKernel
<1>3. \A s \in users : UserTables(s) = Of(s)
  BY <1>1, TablesOfSpace, SMTT(30)
<1>4. \A f \in Used : lab[f].as \in Live
  BY <1>1 DEF Tree, Roots
<1>5. lab[BootPml4].as = Kernel /\ lab[BootPdp].as = Kernel
  <2>1. Kernel \in Live /\ pml4[Kernel] = BootPml4
    BY FrameFacts DEF Inv, HalfInv, Live, Used
  <2> QED  BY <1>1, <2>1, LabelEq, SMTT(30) DEF Tree, Roots
<1>6. free \subseteq Pool
  BY DEF Inv, TypeInv
<1>7. \A s \in users : UserTables(s) \subseteq Pool
  <2> SUFFICES ASSUME NEW s \in users, NEW f \in UserTables(s) PROVE f \in Pool
    OBVIOUS
  <2>1. f \in Used /\ lab[f].as # Kernel
    BY <1>3
  <2> QED  BY <1>5, <2>1 DEF Used, Frames
<1>8. ASSUME NEW f \in Pool
      PROVE  f \in free \cup (KernelTables \cap Pool) \cup UNION {UserTables(s) : s \in users}
  <2>1. CASE f \in free  BY <2>1
  <2>2. CASE f \notin free
    <3>1. f \in Used
      BY <2>2 DEF Used, Frames
    <3>2. CASE lab[f].as = Kernel  BY <1>2, <3>1, <3>2
    <3>3. CASE lab[f].as # Kernel
      <4>1. lab[f].as \in users /\ f \in Of(lab[f].as)
        BY <1>4, <3>1, <3>3
      <4>2. f \in UserTables(lab[f].as)
        BY <1>3, <4>1
      <4> QED  BY <4>1, <4>2
    <3> QED  BY <3>2, <3>3
  <2> QED  BY <2>1, <2>2
<1>9. Pool = free \cup (KernelTables \cap Pool) \cup UNION {UserTables(s) : s \in users}
  BY <1>6, <1>7, <1>8
<1>10. KernelTables \cap free = {}
  BY <1>2 DEF Used
<1>11. \A s \in users : UserTables(s) \cap (free \cup KernelTables) = {}
  BY <1>2, <1>3 DEF Used
<1>12. \A s \in users : \A t \in users \ {s} : UserTables(s) \cap UserTables(t) = {}
  BY <1>3
<1> QED  BY <1>9, <1>10, <1>11, <1>12

-----------------------------------------------------------------------------
(* What the processor finds. *)

\* The tables a page of a space is found in: its own, or the kernel's.
Home(s, w) == IF w \in UserPages THEN s ELSE Kernel

Pdp(s, w) == EntryAt(pml4[s], w, 0)
Pd(s, w) == EntryAt(Pdp(s, w), w, 1)
Pt(s, w) == EntryAt(Pd(s, w), w, 2)

\* t is the table of level k on the way to w, if there is one.
OnTheWay(lab, s, w, t, k) == t \in Used /\ lab[t] = Label(Home(s, w), k, Place(w, k))

LEMMA NextTable ==
  ASSUME NEW lab, Tree(lab), NEW s, NEW w \in AllPages, NEW t, NEW k \in 1 .. 2,
         OnTheWay(lab, s, w, t, k)
  PROVE  /\ EntryAt(t, w, k) = content[t][TableIndex(w, k)]
         /\ EntryAt(t, w, k) = NotPresent \/ OnTheWay(lab, s, w, EntryAt(t, w, k), k + 1)
<1>1. t \in Used /\ lab[t].as = Home(s, w) /\ lab[t].lv = k /\ lab[t].at = Place(w, k) /\ lab[t].lv < 3
  BY LabelEq, SMTT(30) DEF OnTheWay
<1>2. TableIndex(w, k) \in OwnSlots(lab[t].as, lab[t].lv) /\ Place(w, k + 1) = Child(Place(w, k), TableIndex(w, k))
  <2>1. k \in 0 .. 2 /\ k \in 0 .. 3 /\ k # 0
    BY SMTT(30)
  <2> QED  BY <1>1, <2>1, WalkPlaces DEF OwnSlots
<1>3. EntryAt(t, w, k) = content[t][TableIndex(w, k)]
  BY <1>1 DEF EntryAt, Used
<1>4. DownAt(lab, t)
  BY <1>1 DEF Tree
<1> QED  BY <1>1, <1>2, <1>3, <1>4 DEF DownAt, OnTheWay, Below

LEMMA FirstTable ==
  ASSUME Inv, NEW lab, Tree(lab), NEW s \in Live, NEW w \in AllPages
  PROVE  /\ Pdp(s, w) = content[pml4[s]][TableIndex(w, 0)] /\ pml4[s] \in Frames
         /\ Pdp(s, w) = NotPresent \/ OnTheWay(lab, s, w, Pdp(s, w), 1)
         /\ Pdp(s, w) # NotPresent => s = Home(s, w) \/ w \notin UserPages
<1> DEFINE i == TableIndex(w, 0)
<1>0. /\ i \in Slots /\ (w \in UserPages <=> i \in UserSlots) /\ Place(w, 0) = 0
      /\ Place(w, 0 + 1) = Child(Place(w, 0), i)
  BY WalkPlaces, SMTT(30)
<1>1. pml4[s] \in Used /\ pml4[s] \in Frames /\ lab[pml4[s]] = Label(s, 0, 0)
  BY DEF Tree, Roots, Used
<1>2. Pdp(s, w) = content[pml4[s]][i]
  BY <1>1 DEF Pdp, EntryAt
<1>3. Kernel \in Live /\ pml4[Kernel] = BootPml4
  BY FrameFacts DEF Inv, HalfInv, Live, Used
<1>4. ASSUME NEW x \in Live, i \in OwnSlots(x, 0), content[pml4[x]][i] # NotPresent
      PROVE  content[pml4[x]][i] \in Used /\ lab[content[pml4[x]][i]] = Label(x, 1, Place(w, 1))
  <2>1. pml4[x] \in Used /\ lab[pml4[x]] = Label(x, 0, 0)
    BY DEF Tree, Roots
  <2>2. lab[pml4[x]].as = x /\ lab[pml4[x]].lv = 0 /\ lab[pml4[x]].at = 0 /\ lab[pml4[x]].lv < 3
    BY <2>1, LabelEq, SMTT(30)
  <2>3. Below(lab[pml4[x]], i) = Label(x, 1, Place(w, 1))
    BY <1>0, <2>2, SMTT(30) DEF Below
  <2>4. DownAt(lab, pml4[x])
    BY <2>1, <2>2 DEF Tree
  <2> QED  BY <1>4, <2>2, <2>3, <2>4 DEF DownAt
<1>5. CASE w \in UserPages /\ s # Kernel
  <2>1. i \in OwnSlots(s, 0) /\ Home(s, w) = s
    BY <1>0, <1>5 DEF OwnSlots, Home
  <2> QED  BY <1>1, <1>2, <1>4, <2>1 DEF OnTheWay
<1>6. CASE w \in UserPages /\ s = Kernel
  <2>1. content[pml4[s]][i] = NotPresent
    BY <1>0, <1>3, <1>6 DEF Inv, HalfInv
  <2> QED  BY <1>1, <1>2, <2>1
<1>7. CASE w \notin UserPages
  <2>1. i \in KernelSlots /\ Home(s, w) = Kernel
    BY <1>0, <1>7 DEF KernelSlots, Home
  <2>2. content[pml4[s]][i] = content[pml4[Kernel]][i]
    BY <2>1 DEF Inv, HalfInv, KernelHalfShared
  <2>3. i \in OwnSlots(Kernel, 0)
    BY <2>1 DEF OwnSlots
  <2> QED  BY <1>1, <1>2, <1>3, <1>4, <1>7, <2>1, <2>2, <2>3 DEF OnTheWay
<1> QED  BY <1>5, <1>6, <1>7

\* The processor's walk stays in the tree of the page's home.
LEMMA WalkTables ==
  ASSUME Inv, NEW lab, Tree(lab), NEW s \in Live, NEW w \in AllPages
  PROVE  /\ Pdp(s, w) = NotPresent \/ OnTheWay(lab, s, w, Pdp(s, w), 1)
         /\ Pd(s, w) = NotPresent \/ OnTheWay(lab, s, w, Pd(s, w), 2)
         /\ Pt(s, w) = NotPresent \/ OnTheWay(lab, s, w, Pt(s, w), 3)
         /\ Pd(s, w) # NotPresent => Pdp(s, w) # NotPresent
         /\ Pt(s, w) # NotPresent => Pd(s, w) # NotPresent
         /\ vmm_virt_to_phys(s, w) = EntryAt(Pt(s, w), w, 3)
         /\ vmm_virt_to_phys(s, w) # NotPresent => Pt(s, w) # NotPresent
<1>0. \A k \in 0 .. 3 : EntryAt(NotPresent, w, k) = NotPresent
  BY FrameFacts DEF EntryAt, Inv
<1>1. Pdp(s, w) = NotPresent \/ OnTheWay(lab, s, w, Pdp(s, w), 1)
  BY FirstTable
<1>2. Pd(s, w) = NotPresent \/ OnTheWay(lab, s, w, Pd(s, w), 1 + 1)
  <2>1. CASE Pdp(s, w) = NotPresent  BY <1>0, <2>1, SMTT(30) DEF Pd
  <2>2. CASE OnTheWay(lab, s, w, Pdp(s, w), 1)  BY <2>2, NextTable, SMTT(30) DEF Pd
  <2> QED  BY <1>1, <2>1, <2>2
<1>3. Pt(s, w) = NotPresent \/ OnTheWay(lab, s, w, Pt(s, w), 2 + 1)
  <2>1. CASE Pd(s, w) = NotPresent  BY <1>0, <2>1, SMTT(30) DEF Pt
  <2>2. CASE OnTheWay(lab, s, w, Pd(s, w), 2)  BY <2>2, NextTable, SMTT(30) DEF Pt
  <2> QED  BY <1>2, <2>1, <2>2, SMTT(30)
<1>4. vmm_virt_to_phys(s, w) = EntryAt(Pt(s, w), w, 3)
  BY DEF vmm_virt_to_phys, Pt, Pd, Pdp
<1>5. /\ Pd(s, w) # NotPresent => Pdp(s, w) # NotPresent
      /\ Pt(s, w) # NotPresent => Pd(s, w) # NotPresent
  BY <1>0, SMTT(30) DEF Pd, Pt
<1>6. vmm_virt_to_phys(s, w) # NotPresent => Pt(s, w) # NotPresent
  BY <1>0, <1>4, SMTT(30)
<1> QED  BY <1>1, <1>2, <1>3, <1>4, <1>5, <1>6, SMTT(30)

\* Every table has the entry that leads to it where the walk looks for it.
LEMMA WayUp ==
  ASSUME NEW lab, Tree(lab), NEW h, NEW w \in AllPages, NEW k \in 0 .. 2,
         NEW t \in Used, lab[t] = Label(h, k + 1, Place(w, k + 1))
  PROVE  \E g \in Used : /\ lab[g] = Label(h, k, Place(w, k))
                         /\ TableIndex(w, k) \in OwnSlots(h, k)
                         /\ content[g][TableIndex(w, k)] = t
<1>1. /\ Place(w, k) \in Nat /\ TableIndex(w, k) \in Slots
      /\ Place(w, k + 1) = Child(Place(w, k), TableIndex(w, k))
  BY WalkPlaces, SMTT(30)
<1>2. lab[t].as = h /\ lab[t].lv = k + 1 /\ lab[t].at = Child(Place(w, k), TableIndex(w, k))
  BY <1>1, LabelEq, SMTT(30)
<1>3. Labelled(lab) /\ t # NotPresent
  BY LabelFacts DEF Tree
<1>4. PICK g \in Used : lab[g].lv < 3 /\ \E j \in OwnSlots(lab[g].as, lab[g].lv) : content[g][j] = t
  BY <1>2, SMTT(30) DEF Tree, UpAt
<1>5. PICK j \in OwnSlots(lab[g].as, lab[g].lv) : content[g][j] = t
  BY <1>4
<1>6. lab[t] = Below(lab[g], j)
  BY <1>3, <1>4, <1>5 DEF Tree, DownAt
<1>7. lab[g].as = h /\ lab[g].lv + 1 = k + 1
      /\ Child(lab[g].at, j) = Child(Place(w, k), TableIndex(w, k))
  BY <1>2, <1>6, LabelEq, SMTT(30) DEF Below
<1>8. lab[g].at \in Nat /\ lab[g].lv \in 0 .. 3 /\ j \in Slots
  BY <1>3, LabelFacts, OwnSlotsFacts
<1>9. lab[g].at = Place(w, k) /\ j = TableIndex(w, k)
  BY <1>1, <1>7, <1>8, ChildInjective, SMTT(30)
<1>10. lab[g].lv = k
  BY <1>7, <1>8, SMTT(30)
<1>11. lab[g] = Label(h, k, Place(w, k))
  BY <1>3, <1>7, <1>9, <1>10, LabelFacts
<1> QED  BY <1>5, <1>7, <1>9, <1>10, <1>11

\* The tables on the way to a last-level table.
OnChain(lab, s, w, r, a, b, t) ==
  /\ r \in Used /\ lab[r] = Label(Home(s, w), 0, Place(w, 0)) /\ content[r][TableIndex(w, 0)] = a
  /\ a \in Used /\ lab[a] = Label(Home(s, w), 1, Place(w, 1)) /\ content[a][TableIndex(w, 1)] = b
  /\ b \in Used /\ lab[b] = Label(Home(s, w), 2, Place(w, 2)) /\ content[b][TableIndex(w, 2)] = t
  /\ TableIndex(w, 0) \in OwnSlots(Home(s, w), 0)

LEMMA WayToTable ==
  ASSUME NEW lab, Tree(lab), NEW s, NEW w \in AllPages, NEW t, OnTheWay(lab, s, w, t, 3)
  PROVE  \E r, a, b : OnChain(lab, s, w, r, a, b, t)
<1>1. t \in Used /\ lab[t] = Label(Home(s, w), 2 + 1, Place(w, 2 + 1))
  <2>1. 3 = 2 + 1
    BY SMTT(30)
  <2>2. t \in Used /\ lab[t] = Label(Home(s, w), 3, Place(w, 3))
    BY DEF OnTheWay
  <2> QED  BY <2>1, <2>2
<1>2. PICK b \in Used : lab[b] = Label(Home(s, w), 1 + 1, Place(w, 1 + 1)) /\ content[b][TableIndex(w, 2)] = t
  BY <1>1, WayUp, SMTT(30)
<1>3. PICK a \in Used : lab[a] = Label(Home(s, w), 0 + 1, Place(w, 0 + 1)) /\ content[a][TableIndex(w, 1)] = b
  BY <1>2, WayUp, SMTT(30)
<1>4. PICK r \in Used : /\ lab[r] = Label(Home(s, w), 0, Place(w, 0)) /\ content[r][TableIndex(w, 0)] = a
                        /\ TableIndex(w, 0) \in OwnSlots(Home(s, w), 0)
  BY <1>3, WayUp, SMTT(30)
<1> QED  BY <1>2, <1>3, <1>4, SMTT(30) DEF OnChain

\* The processor finds the page's entry in the last-level table that covers it, if its
\* space has one, and nothing otherwise.
LEMMA EntryFound ==
  ASSUME Inv, NEW lab, Tree(lab), NEW s \in Live, NEW w \in AllPages, NEW t,
         OnTheWay(lab, s, w, t, 3)
  PROVE  vmm_virt_to_phys(s, w) = content[t][TableIndex(w, 3)]
<1>1. PICK r, a, b : OnChain(lab, s, w, r, a, b, t)
  BY WayToTable
<1>2. /\ r \in Used /\ a \in Frames /\ b \in Frames /\ t \in Frames
      /\ lab[r].as = Home(s, w) /\ lab[r].lv = 0
      /\ content[r][TableIndex(w, 0)] = a /\ content[a][TableIndex(w, 1)] = b
      /\ content[b][TableIndex(w, 2)] = t
  BY <1>1, LabelEq, SMTT(30) DEF OnChain, OnTheWay, Used
<1>3. r = pml4[Home(s, w)]
  BY <1>2 DEF Tree, Roots
<1>4. content[pml4[s]][TableIndex(w, 0)] = a
  <2>1. CASE w \in UserPages
    BY <1>2, <1>3, <2>1 DEF Home
  <2>2. CASE w \notin UserPages
    <3>1. TableIndex(w, 0) \in KernelSlots
      BY <1>1, <2>2 DEF OnChain, Home, OwnSlots
    <3> QED  BY <1>2, <1>3, <2>2, <3>1 DEF Inv, HalfInv, KernelHalfShared, Home
  <2> QED  BY <2>1, <2>2
<1>5. pml4[s] \in Frames
  BY DEF Inv, TypeInv, Live
<1>6. EntryAt(pml4[s], w, 0) = a /\ EntryAt(a, w, 1) = b /\ EntryAt(b, w, 2) = t
      /\ EntryAt(t, w, 3) = content[t][TableIndex(w, 3)]
  BY <1>2, <1>4, <1>5 DEF EntryAt
<1> QED  BY <1>6 DEF vmm_virt_to_phys

Translated(lab) ==
  \A s \in Live, w \in AllPages :
    \/ \E t : OnTheWay(lab, s, w, t, 3) /\ vmm_virt_to_phys(s, w) = content[t][TableIndex(w, 3)]
    \/ (\A t : ~OnTheWay(lab, s, w, t, 3)) /\ vmm_virt_to_phys(s, w) = NotPresent
Translations == Inv => \A lab : Tree(lab) => Translated(lab)

LEMMA TranslationNow == Translations
<1> SUFFICES ASSUME Inv, NEW lab, Tree(lab), NEW s \in Live, NEW w \in AllPages
             PROVE  \/ \E t : /\ OnTheWay(lab, s, w, t, 3)
                              /\ vmm_virt_to_phys(s, w) = content[t][TableIndex(w, 3)]
                    \/ /\ \A t : ~OnTheWay(lab, s, w, t, 3)
                       /\ vmm_virt_to_phys(s, w) = NotPresent
  BY DEF Translations, Translated
<1>1. ASSUME NEW t, OnTheWay(lab, s, w, t, 3)
      PROVE  vmm_virt_to_phys(s, w) = content[t][TableIndex(w, 3)]
  BY <1>1, EntryFound
<1>2. ASSUME \A t : ~OnTheWay(lab, s, w, t, 3) PROVE vmm_virt_to_phys(s, w) = NotPresent
  BY <1>2, WalkTables
<1> QED  BY <1>1, <1>2

LEMMA TranslationNext == Translations'
  BY TranslationNow, PTL

\* A step that keeps the last-level tables of space h and what they hold, all but
\* entry y of table x, and may give h new ones, of which no entry is present.
Kept(lab, l, h, x, y) ==
  /\ \A t \in Used : lab[t].as = h /\ lab[t].lv = 3 =>
       /\ t \in Used' /\ l[t] = lab[t]
       /\ \A j \in Slots : ~(t = x /\ j = y) => content'[t][j] = content[t][j]
  /\ \A t \in Used' : l[t].as = h /\ l[t].lv = 3 =>
       \/ t \in Used /\ l[t] = lab[t]
       \/ \A j \in Slots : content'[t][j] = NotPresent

LEMMA TranslationKept ==
  ASSUME Inv, Inv', NEW lab, NEW l, Tree(lab), Tree(l)',
         NEW s \in Live, s \in Live', NEW w \in AllPages, NEW x, NEW y,
         Kept(lab, l, Home(s, w), x, y),
         ~(OnTheWay(lab, s, w, x, 3) /\ TableIndex(w, 3) = y)
  PROVE  vmm_virt_to_phys(s, w)' = vmm_virt_to_phys(s, w)
<1> DEFINE i == TableIndex(w, 3)
           T == vmm_virt_to_phys(s, w)
<1>1. /\ \A t : OnTheWay(lab, s, w, t, 3) <=> t \in Used /\ lab[t] = Label(Home(s, w), 3, Place(w, 3))
      /\ \A t : OnTheWay(l, s, w, t, 3)' <=> t \in Used' /\ l[t] = Label(Home(s, w), 3, Place(w, 3))
  BY DEF OnTheWay
<1>2. i \in Slots
  <2>1. 3 \in 0 .. 3
    BY SMTT(30)
  <2> QED  BY <2>1, WalkPlaces
<1>3. \A t : lab[t] = Label(Home(s, w), 3, Place(w, 3)) => lab[t].as = Home(s, w) /\ lab[t].lv = 3
  BY LabelEq, SMTT(30)
<1>4. \A t : l[t] = Label(Home(s, w), 3, Place(w, 3)) => l[t].as = Home(s, w) /\ l[t].lv = 3
  BY LabelEq, SMTT(30)
<1>5. \/ \E t : OnTheWay(lab, s, w, t, 3) /\ T = content[t][i]
      \/ (\A t : ~OnTheWay(lab, s, w, t, 3)) /\ T = NotPresent
  BY TranslationNow DEF Translations, Translated
<1>6. \/ \E t : OnTheWay(l, s, w, t, 3)' /\ T' = content'[t][i]
      \/ (\A t : ~OnTheWay(l, s, w, t, 3)') /\ T' = NotPresent
  BY TranslationNext DEF Translations, Translated
<1>7. \A f, g \in Used' : l[f] = l[g] => f = g
  BY DEF Tree, Labelled
<1> SUFFICES T' = T
  OBVIOUS
<1> HIDE DEF i, T
<1>8. CASE \E t : OnTheWay(lab, s, w, t, 3) /\ T = content[t][i]
  <2>1. PICK t : OnTheWay(lab, s, w, t, 3) /\ T = content[t][i]
    BY <1>8
  <2>2. t \in Used /\ lab[t] = Label(Home(s, w), 3, Place(w, 3)) /\ lab[t].as = Home(s, w) /\ lab[t].lv = 3
    BY <1>1, <1>3, <2>1
  <2>3. ~(t = x /\ i = y)
    BY <2>1 DEF i
  <2>4. t \in Used' /\ l[t] = lab[t] /\ content'[t][i] = content[t][i]
    BY <1>2, <2>2, <2>3 DEF Kept
  <2>5. OnTheWay(l, s, w, t, 3)'
    BY <1>1, <2>2, <2>4
  <2>6. PICK u : OnTheWay(l, s, w, u, 3)' /\ T' = content'[u][i]
    BY <1>6, <2>5
  <2>7. u = t
    BY <1>1, <1>7, <2>2, <2>4, <2>6, SMTT(30)
  <2> QED  BY <2>1, <2>4, <2>6, <2>7
<1>9. CASE (\A t : ~OnTheWay(lab, s, w, t, 3)) /\ T = NotPresent
  <2>1. CASE (\A t : ~OnTheWay(l, s, w, t, 3)') /\ T' = NotPresent
    BY <1>9, <2>1
  <2>2. ASSUME NEW u, OnTheWay(l, s, w, u, 3)', T' = content'[u][i] PROVE T' = NotPresent
    <3>1. u \in Used' /\ l[u] = Label(Home(s, w), 3, Place(w, 3)) /\ l[u].as = Home(s, w) /\ l[u].lv = 3
      BY <1>1, <1>4, <2>2
    <3>2. ~(u \in Used /\ l[u] = lab[u])
      BY <1>1, <1>9, <3>1
    <3>3. \A j \in Slots : content'[u][j] = NotPresent
      BY <3>1, <3>2 DEF Kept
    <3> QED  BY <1>2, <2>2, <3>3
  <2> QED  BY <1>6, <1>9, <2>1, <2>2
<1> QED  BY <1>5, <1>8, <1>9

\* A table that covers a page nobody has: no exception to Kept.
LEMMA NoTable ==
  ASSUME Inv, NEW lab, NEW s, NEW w
  PROVE  ~OnTheWay(lab, s, w, NotPresent, 3)
  BY FrameFacts DEF Inv, OnTheWay, Used

LEMMA WalkCreateTranslations ==
  ASSUME Inv, Inv', WalkCreate
  PROVE  \A s \in Live, w \in AllPages : vmm_virt_to_phys(s, w)' = vmm_virt_to_phys(s, w)
<1>1. PICK lab : Tree(lab) /\ WalkInv(lab)
  BY DEF Inv
<1>2. PICK f, l : /\ f \in free /\ Link(f, op.table, TableIndex(op.v, op.level))
                  /\ l = Extended(lab, f, Below(lab[op.table], TableIndex(op.v, op.level)))
                  /\ Tree(l)'
  BY <1>1, WalkCreateTree
<1> DEFINE t == op.table
           i == TableIndex(op.v, op.level)
<1>3. t \in Used /\ lab[t].lv < 3 /\ Live' = Live
  BY <1>1, AtTable DEF WalkCreate, LastLevel, Live
<1>4. Used' = Used \cup {f} /\ f \notin Used
  BY <1>2, FrameFacts DEF Inv, Link, Used
<1>5. (\A g \in Used : l[g] = lab[g]) /\ \A g \in Used \ {t} : content'[g] = content[g]
  BY <1>2, <1>4 DEF Extended, Link
<1>6. \A j \in Slots : content'[f][j] = NotPresent
  BY <1>2 DEF Link
<1> HIDE DEF t, i
<1>7. \A h : Kept(lab, l, h, NotPresent, 0)
  BY <1>3, <1>4, <1>5, <1>6, SMTT(30) DEF Kept
<1> QED  BY <1>1, <1>2, <1>3, <1>7, TranslationKept, NoTable

\* A write of a last entry changes the translation of its page, and no other.
LEMMA WriteLastTranslations ==
  ASSUME Inv, Inv', NEW x \in Entry, WriteLast(x)
  PROVE  \A s \in Live, w \in AllPages :
           vmm_virt_to_phys(s, w)' = IF Home(s, w) = op.as /\ w = op.v THEN x ELSE vmm_virt_to_phys(s, w)
<1>1. PICK lab : Tree(lab) /\ WalkInv(lab)
  BY DEF Inv
<1> DEFINE t == op.table
           i == TableIndex(op.v, 3)
<1>2. /\ op # idle /\ op.level = 3 /\ pml4' = pml4 /\ free' = free
      /\ content' = [content EXCEPT ![t] = [@ EXCEPT ![i] = x]]
  BY DEF WriteLast
<1>3. /\ t \in Used /\ t \in Frames /\ lab[t].lv = 3 /\ i \in Slots /\ op.v \in AllPages
      /\ lab[t].at = Place(op.v, 3) /\ lab[t].as = op.as
  BY <1>1, <1>2, AtTable
<1>4. content \in [Frames -> [Slots -> Entry]] /\ Used \subseteq Frames /\ Used' = Used /\ Live' = Live
  BY <1>2 DEF Inv, TypeInv, Used, Live
<1> HIDE DEF t, i
<1>5. /\ \A g \in Used : g # t => content'[g] = content[g]
      /\ \A j \in Slots : j # i => content'[t][j] = content[t][j]
      /\ content'[t][i] = x
  BY <1>2, <1>3, <1>4
<1>6. Tree(lab)'
  BY <1>1, <1>2, <1>3, <1>5, TreeKept, SMTT(30)
<1>7. \A h : Kept(lab, lab, h, t, i)
  BY <1>4, <1>5 DEF Kept
<1>8. ASSUME NEW s \in Live, NEW w \in AllPages, Home(s, w) = op.as, w = op.v
      PROVE  vmm_virt_to_phys(s, w)' = x
  <2>1. lab[t] = Label(op.as, 3, Place(op.v, 3))
    BY <1>1, <1>2 DEF WalkInv, t
  <2>2. PICK c : c = t
    OBVIOUS
  <2>3. OnTheWay(lab, s, w, c, 3)'
    BY <1>3, <1>4, <1>8, <2>1, <2>2 DEF OnTheWay
  <2>4. PICK u : OnTheWay(lab, s, w, u, 3)' /\ vmm_virt_to_phys(s, w)' = content'[u][TableIndex(w, 3)]
    BY <1>4, <1>6, <2>3, TranslationNext DEF Translations, Translated
  <2>5. u = c
    BY <1>6, <2>3, <2>4 DEF OnTheWay, Tree, Labelled
  <2> QED  BY <1>5, <1>8, <2>2, <2>4, <2>5 DEF i
<1>9. ASSUME NEW s \in Live, NEW w \in AllPages, ~(Home(s, w) = op.as /\ w = op.v)
      PROVE  vmm_virt_to_phys(s, w)' = vmm_virt_to_phys(s, w)
  <2>1. ~(OnTheWay(lab, s, w, t, 3) /\ TableIndex(w, 3) = i)
    <3> SUFFICES ASSUME OnTheWay(lab, s, w, t, 3), TableIndex(w, 3) = i PROVE FALSE
      OBVIOUS
    <3>1. Place(w, 3) = Place(op.v, 3) /\ Home(s, w) = op.as
      BY <1>3, LabelEq, SMTT(30) DEF OnTheWay
    <3>2. w = Child(Place(w, 3), TableIndex(w, 3)) /\ op.v = Child(Place(op.v, 3), TableIndex(op.v, 3))
      BY <1>3, WalkPlaces
    <3> QED  BY <1>9, <3>1, <3>2 DEF i
  <2> QED  BY <1>1, <1>4, <1>6, <1>7, <2>1, TranslationKept
<1> QED  BY <1>8, <1>9

LEMMA CreateTranslations ==
  ASSUME Inv, Inv', NEW s \in UserSpaces, vmm_create_address_space(s)
  PROVE  /\ Live' = Live \cup {s} /\ s \notin Live
         /\ \A x \in Live, w \in AllPages : vmm_virt_to_phys(x, w)' = vmm_virt_to_phys(x, w)
         /\ \A w \in UserPages : vmm_virt_to_phys(s, w)' = NotPresent
<1>1. PICK lab : Tree(lab)
  BY DEF Inv
<1>2. PICK f, l : /\ f \in free /\ PlantRoot(s, f) /\ l = Extended(lab, f, Label(s, 0, 0))
                  /\ Tree(l)' /\ Live' = Live \cup {s}
  BY <1>1, CreateTree
<1>3. s \notin Live /\ Used' = Used \cup {f} /\ f \notin Used
  BY <1>2, FrameFacts DEF vmm_create_address_space, Inv, PlantRoot, Used
<1>4. /\ \A g \in Used : l[g] = lab[g] /\ content'[g] = content[g] /\ lab[g].as \in Live
      /\ l[f].as = s /\ l[f].lv = 0
  <2>1. l[f] = Label(s, 0, 0) /\ \A g \in Used : l[g] = lab[g]
    BY <1>2, <1>3 DEF Extended
  <2>2. \A g \in Used : content'[g] = content[g]
    BY <1>2 DEF PlantRoot
  <2>3. \A g \in Used : lab[g].as \in Live
    BY <1>1 DEF Tree, Roots
  <2>4. l[f].as = s /\ l[f].lv = 0
    BY <2>1, SMTT(30) DEF Label
  <2> QED  BY <2>1, <2>2, <2>3, <2>4
<1>5. \A h : Kept(lab, l, h, NotPresent, 0)
  BY <1>3, <1>4, SMTT(30) DEF Kept
<1>6. \A x \in Live, w \in AllPages : vmm_virt_to_phys(x, w)' = vmm_virt_to_phys(x, w)
  BY <1>1, <1>2, <1>5, TranslationKept, NoTable
<1>7. ASSUME NEW w \in UserPages PROVE vmm_virt_to_phys(s, w)' = NotPresent
  <2>1. ASSUME NEW t, OnTheWay(l, s, w, t, 3)' PROVE FALSE
    <3>1. t \in Used' /\ l[t] = Label(s, 3, Place(w, 3))
      BY <2>1 DEF OnTheWay, Home
    <3>2. l[t].as = s /\ l[t].lv = 3
      BY <3>1, LabelEq, SMTT(30)
    <3> QED  BY <1>3, <1>4, <3>1, <3>2, SMTT(30)
  <2>2. w \in AllPages /\ s \in Live'
    BY <1>2 DEF AllPages
  <2> QED  BY <1>2, <2>1, <2>2, TranslationNext DEF Translations, Translated
<1> QED  BY <1>2, <1>3, <1>6, <1>7

LEMMA DestroyTranslations ==
  ASSUME Inv, Inv', NEW s \in UserSpaces, vmm_destroy_address_space(s)
  PROVE  /\ Live' = Live \ {s} /\ s \in Live
         /\ \A x \in Live \ {s}, w \in AllPages : vmm_virt_to_phys(x, w)' = vmm_virt_to_phys(x, w)
<1>1. PICK lab : Tree(lab)
  BY DEF Inv
<1>2. PICK gone, l : /\ gone = {f \in Used : lab[f].as = s} /\ Fell(s, gone)
                     /\ l = [g \in Used \ gone |-> lab[g]]
                     /\ Tree(l)' /\ Live' = Live \ {s}
  BY <1>1, DestroyTree
<1>3. s \in Live /\ s # Kernel /\ Used' = Used \ gone
  BY <1>2 DEF vmm_destroy_address_space, Fell, Used
<1>4. \A g \in Used \ gone : l[g] = lab[g] /\ content'[g] = content[g]
  BY <1>2 DEF Fell
<1>5. \A g \in gone : g \in Used /\ lab[g].as = s
  BY <1>2
<1>6. \A g \in Used : lab[g].as # s => g \in Used \ gone
  BY <1>2
<1>7. ASSUME NEW h, h # s PROVE Kept(lab, l, h, NotPresent, 0)
  BY <1>3, <1>4, <1>6, <1>7 DEF Kept
<1>8. ASSUME NEW x \in Live \ {s}, NEW w \in AllPages
      PROVE  vmm_virt_to_phys(x, w)' = vmm_virt_to_phys(x, w)
  <2>1. Home(x, w) # s
    BY <1>3 DEF Home
  <2> QED  BY <1>1, <1>2, <1>7, <2>1, TranslationKept, NoTable
<1> QED  BY <1>2, <1>3, <1>8

\* A page at which the walk of the call in progress finds no entry has no translation.
LEMMA NoEntry ==
  ASSUME Inv, op # idle, WalkEntry = NotPresent, NEW s \in Live, Home(s, op.v) = op.as
  PROVE  vmm_virt_to_phys(s, op.v) = NotPresent
<1>1. PICK lab : Tree(lab) /\ WalkInv(lab)
  BY DEF Inv
<1>2. PICK w, k, g : w = op.v /\ k = op.level /\ g = op.table
  OBVIOUS
<1>3. /\ w \in AllPages /\ k \in 0 .. 3 /\ g \in Used /\ content[g][TableIndex(w, k)] = NotPresent
      /\ lab[g] = Label(Home(s, w), k, Place(w, k))
  BY <1>1, <1>2, AtTable DEF WalkInv, WalkEntry
<1> SUFFICES ASSUME vmm_virt_to_phys(s, w) # NotPresent PROVE FALSE
  BY <1>2
<1>4. PICK t : OnTheWay(lab, s, w, t, 3) /\ vmm_virt_to_phys(s, w) = content[t][TableIndex(w, 3)]
  BY <1>1, <1>3, TranslationNow DEF Translations, Translated
<1>5. PICK r, a, b : OnChain(lab, s, w, r, a, b, t)
  BY <1>1, <1>3, <1>4, WayToTable
<1>6. \A f, h \in Used : lab[f] = lab[h] => f = h
  BY <1>1 DEF Tree, Labelled
<1>7. /\ t \in Used /\ lab[t] = Label(Home(s, w), 3, Place(w, 3))
      /\ r \in Used /\ lab[r] = Label(Home(s, w), 0, Place(w, 0)) /\ content[r][TableIndex(w, 0)] = a
      /\ a \in Used /\ lab[a] = Label(Home(s, w), 1, Place(w, 1)) /\ content[a][TableIndex(w, 1)] = b
      /\ b \in Used /\ lab[b] = Label(Home(s, w), 2, Place(w, 2)) /\ content[b][TableIndex(w, 2)] = t
  BY <1>4, <1>5 DEF OnChain, OnTheWay
<1>8. NotPresent \notin Used
  BY FrameFacts DEF Inv, Used
<1>9. k = 0 \/ k = 1 \/ k = 2 \/ k = 3
  BY <1>3, SMTT(30)
<1>10. CASE k = 0
  <2>1. g = r
    BY <1>3, <1>6, <1>7, <1>10, SMTT(30)
  <2> QED  BY <1>3, <1>7, <1>8, <1>10, <2>1
<1>11. CASE k = 1
  <2>1. g = a
    BY <1>3, <1>6, <1>7, <1>11, SMTT(30)
  <2> QED  BY <1>3, <1>7, <1>8, <1>11, <2>1
<1>12. CASE k = 2
  <2>1. g = b
    BY <1>3, <1>6, <1>7, <1>12
  <2> QED  BY <1>3, <1>7, <1>8, <1>12, <2>1
<1>13. CASE k = 3
  <2>1. g = t
    BY <1>3, <1>6, <1>7, <1>13, SMTT(30)
  <2> QED  BY <1>3, <1>4, <1>13, <2>1
<1> QED  BY <1>9, <1>10, <1>11, <1>12, <1>13

\* A space that does not exist translates nothing.
Dead == Inv => \A s \in Spaces \ Live : \A w : vmm_virt_to_phys(s, w) = NotPresent

LEMMA DeadNow == Dead
<1> SUFFICES ASSUME Inv, NEW s \in Spaces \ Live, NEW w PROVE vmm_virt_to_phys(s, w) = NotPresent
  BY DEF Dead
<1>1. pml4[s] = NotPresent /\ NotPresent \notin Frames
  BY FrameFacts DEF Inv, Live
<1>2. \A k : EntryAt(NotPresent, w, k) = NotPresent
  BY <1>1 DEF EntryAt
<1> QED  BY <1>1, <1>2 DEF vmm_virt_to_phys

LEMMA DeadNext == Dead'
  BY DeadNow, PTL

\* The page of the call in progress is found in the tables of the call's space, and in
\* those of no other space that exists.
LEMMA HomeOfCall ==
  ASSUME Inv, op # idle
  PROVE  /\ op.as \in Live /\ op.v \in AllPages /\ Home(op.as, op.v) = op.as
         /\ \A s \in Live : Home(s, op.v) = op.as => s = op.as
<1>1. /\ op.as \in Live /\ (op.as = Kernel => Live = {Kernel})
      /\ op.v \in AllPages /\ TableIndex(op.v, 0) \in OwnSlots(op.as, 0)
      /\ (op.as # Kernel => op.v \in UserPages)
  BY CallPages, SMTT(30) DEF Inv, CallInv, PagesFor
<1>2. op.as = Kernel => op.v \notin UserPages
  BY <1>1, WalkPlaces DEF OwnSlots, KernelSlots
<1> QED  BY <1>1, <1>2 DEF Home

\* A step that changes no translation, and one that changes that of the call's page.
Steady == \A s \in Spaces, w \in AllPages : vmm_virt_to_phys(s, w)' = vmm_virt_to_phys(s, w)
Written(x) ==
  \A s \in Spaces, w \in AllPages :
    vmm_virt_to_phys(s, w)' = IF s = op.as /\ w = op.v THEN x ELSE vmm_virt_to_phys(s, w)

LEMMA SteadyTables ==
  ASSUME UNCHANGED <<content, pml4>>
  PROVE  Steady
<1> SUFFICES ASSUME NEW s, NEW w PROVE vmm_virt_to_phys(s, w)' = vmm_virt_to_phys(s, w)
  BY DEF Steady
<1> QED  BY DEF vmm_virt_to_phys, EntryAt

LEMMA WalkCreateSteady ==
  ASSUME Inv, Inv', WalkCreate
  PROVE  Steady
<1>1. Live' = Live
  BY DEF WalkCreate, Live
<1>2. \A s \in Spaces \ Live : \A w : vmm_virt_to_phys(s, w)' = vmm_virt_to_phys(s, w)
  BY <1>1, DeadNow, DeadNext DEF Dead
<1> QED  BY <1>2, WalkCreateTranslations DEF Steady

LEMMA WriteLastWritten ==
  ASSUME Inv, Inv', NEW x \in Entry, WriteLast(x)
  PROVE  Written(x)
<1>1. op # idle /\ Live' = Live
  BY DEF WriteLast, Live
<1>2. \A s \in Spaces \ Live : s # op.as /\ \A w : vmm_virt_to_phys(s, w)' = vmm_virt_to_phys(s, w)
  BY <1>1, DeadNow, DeadNext, HomeOfCall DEF Dead
<1>3. ASSUME NEW s \in Live, NEW w \in AllPages
      PROVE  vmm_virt_to_phys(s, w)' = IF s = op.as /\ w = op.v THEN x ELSE vmm_virt_to_phys(s, w)
  <2>1. (Home(s, w) = op.as /\ w = op.v) <=> (s = op.as /\ w = op.v)
    BY <1>1, HomeOfCall
  <2> QED  BY <2>1, WriteLastTranslations
<1> QED  BY <1>2, <1>3 DEF Written
-----------------------------------------------------------------------------
(* What the processor has cached. *)

\* The processor caches translations its tables hold, until a range is being unmapped.
Unmapping == op # idle /\ op.kind \in {"unmap_range", "rollback"}
Cached == \A e \in tlb : e[1] \in AllPages /\ e[2] # NotPresent
Fresh == \A e \in tlb : vmm_virt_to_phys(cr3, e[1]) = e[2]
TlbInv == Cached /\ (~Unmapping => Fresh)

LEMMA FreshKept ==
  ASSUME Cached, Fresh, NEW s, s = cr3, cr3' = cr3, tlb' \subseteq tlb,
         \A e \in tlb' : vmm_virt_to_phys(s, e[1])' = vmm_virt_to_phys(s, e[1])
  PROVE  Cached' /\ Fresh'
<1>1. ASSUME NEW w PROVE vmm_virt_to_phys(cr3, w)' = vmm_virt_to_phys(s, w)'
  BY DEF vmm_virt_to_phys, EntryAt
<1>2. Cached'
  BY DEF Cached
<1>3. ASSUME NEW e \in tlb' PROVE vmm_virt_to_phys(cr3, e[1])' = e[2]
  <2>1. vmm_virt_to_phys(s, e[1]) = e[2]
    BY DEF Fresh
  <2> QED  BY <1>1, <2>1
<1> QED  BY <1>2, <1>3 DEF Fresh

\* No page of a space that goes on existing is translated otherwise than before.
LEMMA FreshLive ==
  ASSUME Inv, Cached, Fresh, cr3' = cr3, tlb' \subseteq tlb, NEW s, s = cr3,
         \A w \in AllPages : vmm_virt_to_phys(s, w)' = vmm_virt_to_phys(s, w)
  PROVE  Cached' /\ Fresh'
<1>1. \A e \in tlb' : e[1] \in AllPages
  BY DEF Cached
<1> QED  BY <1>1, FreshKept

LEMMA FreshSteady ==
  ASSUME Inv, Cached, Fresh, cr3' = cr3, tlb' \subseteq tlb, Steady
  PROVE  Cached' /\ Fresh'
<1>1. PICK s \in Spaces : s = cr3
  BY DEF Inv, TypeInv, Live
<1> QED  BY <1>1, FreshLive DEF Steady

\* The loop of an unmapping goes on, or ends with vmm_flush_tlb.
LEMMA UnmappingGoesOn ==
  ASSUME Inv, Cached, Unmapping, NextPage
  PROVE  TlbInv'
<1>1. op \in Ops
  BY DEF Inv, CallInv, Unmapping
<1>2. CASE op.v + 1 < op.stop
  <2>1. op' = [op EXCEPT !.v = op.v + 1, !.level = 0, !.table = pml4[op.as]] /\ tlb' = tlb
    BY <1>2 DEF NextPage
  <2>2. op'.kind = op.kind
    BY <1>1, <2>1 DEF Ops
  <2>3. op'.kind # "idle"
    BY <2>2 DEF Unmapping
  <2>4. Unmapping'
    BY <2>2, <2>3, SMTT(30) DEF Unmapping, idle
  <2>5. Cached'
    BY <2>1 DEF Cached
  <2> QED  BY <2>4, <2>5 DEF TlbInv
<1>3. CASE ~ op.v + 1 < op.stop
  <2>1. tlb' = {}
    BY <1>3 DEF NextPage, Flushed, Unmapping
  <2> QED  BY <2>1 DEF TlbInv, Cached, Fresh
<1> QED  BY <1>2, <1>3

LEMMA CreateTlb ==
  ASSUME Inv, Inv', Cached, Fresh, NEW s \in UserSpaces, vmm_create_address_space(s)
  PROVE  Cached' /\ Fresh'
<1>1. PICK c \in Live : c = cr3
  BY DEF Inv, TypeInv
<1>2. cr3' = cr3 /\ tlb' = tlb
  BY DEF vmm_create_address_space
<1> QED  BY <1>1, <1>2, CreateTranslations, FreshLive

LEMMA DestroyTlb ==
  ASSUME Inv, Inv', Cached, Fresh, NEW s \in UserSpaces, vmm_destroy_address_space(s)
  PROVE  Cached' /\ Fresh'
<1>1. PICK c \in Live : c = cr3
  BY DEF Inv, TypeInv
<1>2. cr3' = cr3 /\ tlb' = tlb /\ cr3 # s
  BY DEF vmm_destroy_address_space
<1> QED  BY <1>1, <1>2, DestroyTranslations, FreshLive

\* A page that gets an entry had none, so it was not cached.
LEMMA StorePteTlb ==
  ASSUME Inv, Inv', Cached, Fresh, StorePte
  PROVE  Cached' /\ Fresh'
<1>1. op # idle /\ WriteLast(PhysPage) /\ PhysPage \in Entry /\ WalkEntry = NotPresent
  BY StoredPage DEF StorePte, WriteLast, LastLevel
<1>2. cr3' = cr3 /\ tlb' \subseteq tlb
  BY DEF StorePte, NextPage
<1>3. PICK c \in Spaces : c = cr3
  BY DEF Inv, TypeInv, Live
<1>4. vmm_virt_to_phys(op.as, op.v) = NotPresent
  BY <1>1, HomeOfCall, NoEntry
<1>5. Written(PhysPage)
  BY <1>1, WriteLastWritten
<1>6. ASSUME NEW e \in tlb' PROVE vmm_virt_to_phys(c, e[1])' = vmm_virt_to_phys(c, e[1])
  <2>1. e[1] \in AllPages /\ vmm_virt_to_phys(cr3, e[1]) # NotPresent
    BY <1>2 DEF Cached, Fresh
  <2>2. ~(c = op.as /\ e[1] = op.v)
    BY <1>3, <1>4, <2>1
  <2> QED  BY <1>5, <2>1, <2>2 DEF Written
<1> QED  BY <1>2, <1>3, <1>6, FreshKept

\* vmm_unmap_page ends with the flush of the page's own translation.
LEMMA ClearPteTlb ==
  ASSUME Inv, Inv', TlbInv, ClearPte
  PROVE  TlbInv'
<1>1. op # idle /\ op.level = 3 /\ ~Mapping /\ WriteLast(NotPresent) /\ NextPage /\ cr3' = cr3
  BY DEF ClearPte, WriteLast, LastLevel
<1>2. op \in Ops /\ op.kind \in Kinds
  BY <1>1 DEF Inv, CallInv, Ops
<1>3. CASE op.kind # "unmap_page"
  <2>1. Unmapping
    BY <1>1, <1>2, <1>3 DEF Unmapping, Mapping, Kinds
  <2> QED  BY <1>1, <2>1, UnmappingGoesOn DEF TlbInv
<1>4. CASE op.kind = "unmap_page"
  <2>1. op.end = op.first + 1 /\ op.stop = op.end /\ op.first <= op.v /\ op.v < op.stop
    BY <1>1, <1>4 DEF Inv, CallInv
  <2>2. ~ op.v + 1 < op.stop
    BY <1>2, <2>1, SMTT(30) DEF Ops
  <2>3. tlb' = tlb \ {e \in tlb : e[1] = op.v}
    BY <1>1, <1>4, <2>2 DEF NextPage, Flushed
  <2>4. Cached /\ Fresh
    BY <1>4 DEF TlbInv, Unmapping
  <2>5. PICK c \in Spaces : c = cr3
    BY DEF Inv, TypeInv, Live
  <2>6. Written(NotPresent)
    BY <1>1, WriteLastWritten DEF Entry
  <2>7. \A e \in tlb' : e \in tlb /\ e[1] # op.v
    BY <2>3
  <2>8. \A e \in tlb' : vmm_virt_to_phys(c, e[1])' = vmm_virt_to_phys(c, e[1])
    BY <2>4, <2>6, <2>7 DEF Cached, Written
  <2>9. Cached' /\ Fresh'
    BY <1>1, <2>4, <2>5, <2>7, <2>8, FreshKept
  <2> QED  BY <2>9 DEF TlbInv
<1> QED  BY <1>3, <1>4

LEMMA NotMappedTlb ==
  ASSUME Inv, TlbInv, NotMapped
  PROVE  TlbInv'
<1>1. op # idle /\ ~Mapping /\ UNCHANGED <<content, pml4, cr3>>
  BY DEF NotMapped
<1>2. op.kind \in Kinds
  BY <1>1 DEF Inv, CallInv, Ops
<1>3. CASE op.kind # "unmap_page"
  <2>1. Unmapping /\ NextPage
    BY <1>1, <1>2, <1>3 DEF Unmapping, Mapping, Kinds, NotMapped
  <2> QED  BY <2>1, UnmappingGoesOn DEF TlbInv
<1>4. CASE op.kind = "unmap_page"
  <2>1. tlb' = tlb /\ Cached /\ Fresh
    BY <1>4 DEF NotMapped, TlbInv, Unmapping
  <2> QED  BY <1>1, <2>1, FreshSteady, SteadyTables DEF TlbInv
<1> QED  BY <1>3, <1>4

LEMMA TlbFillTlb ==
  ASSUME Inv, TlbInv, TlbFill
  PROVE  TlbInv'
<1>1. PICK v \in Touched :
        /\ vmm_virt_to_phys(cr3, v) # NotPresent
        /\ tlb' = {e \in tlb : e[1] # v} \cup {<<v, vmm_virt_to_phys(cr3, v)>>}
        /\ UNCHANGED <<content, pml4, op, cr3>>
  BY DEF TlbFill
<1>2. v \in AllPages
  BY RequestAssumption DEF AllPages
<1>3. \A e \in tlb' : e \in tlb \/ e = <<v, vmm_virt_to_phys(cr3, v)>>
  BY <1>1
<1>4. Cached'
  BY <1>1, <1>2, <1>3, SMTT(30) DEF Cached, TlbInv
<1>5. ASSUME Fresh PROVE Fresh'
  <2>1. \A e \in tlb' : vmm_virt_to_phys(cr3, e[1]) = e[2]
    BY <1>3, <1>5, SMTT(30) DEF Fresh
  <2>2. ASSUME NEW w PROVE vmm_virt_to_phys(cr3, w)' = vmm_virt_to_phys(cr3, w)
    BY <1>1 DEF vmm_virt_to_phys, EntryAt
  <2> QED  BY <2>1, <2>2 DEF Fresh
<1>6. Unmapping' <=> Unmapping
  BY <1>1 DEF Unmapping
<1> QED  BY <1>4, <1>5, <1>6 DEF TlbInv

LEMMA TlbInductive ==
  ASSUME Inv, Inv', TlbInv, [Next]_vars
  PROVE  TlbInv'
<1>0. Cached /\ (op = idle => Fresh) /\ (Mapping => Fresh) /\ (~Unmapping => Fresh)
  BY DEF TlbInv, Unmapping, Mapping
<1>1. ASSUME NEW kind, NEW s, NEW first, NEW end, NEW p, Call(kind, s, first, end, p) PROVE TlbInv'
  <2>1. op = idle /\ UNCHANGED <<content, pml4, cr3, tlb>>
    BY <1>1 DEF Call
  <2> QED  BY <1>0, <2>1, FreshSteady, SteadyTables DEF TlbInv
<1>2. CASE apic_global_init
  BY <1>1, <1>2 DEF apic_global_init
<1>3. ASSUME NEW s \in UserSpaces, vmm_create_address_space(s) PROVE TlbInv'
  <2>1. op = idle
    BY <1>3 DEF vmm_create_address_space
  <2> QED  BY <1>0, <1>3, <2>1, CreateTlb DEF TlbInv
<1>4. ASSUME NEW s \in UserSpaces, vmm_destroy_address_space(s) PROVE TlbInv'
  <2>1. op = idle
    BY <1>4 DEF vmm_destroy_address_space
  <2> QED  BY <1>0, <1>4, <2>1, DestroyTlb DEF TlbInv
<1>5. ASSUME NEW s \in UserSpaces, NEW r \in Requests,
             \/ vmm_unmap_page(s, r) \/ vmm_unmap_range(s, r)
             \/ \E p \in PPages : vmm_map_page(s, r, p) \/ vmm_map_range(s, r, p)
      PROVE  TlbInv'
  BY <1>1, <1>5 DEF vmm_unmap_page, vmm_unmap_range, vmm_map_page, vmm_map_range
<1>6. ASSUME NEW s \in Spaces, vmm_switch_address_space(s) PROVE TlbInv'
  <2>1. tlb' = {}
    BY <1>6 DEF vmm_switch_address_space
  <2> QED  BY <2>1 DEF TlbInv, Cached, Fresh
<1>7. CASE WalkDown
  <2>1. /\ op # idle /\ UNCHANGED <<content, pml4, cr3, tlb>>
        /\ op' = [op EXCEPT !.level = @ + 1, !.table = WalkEntry]
    BY <1>7 DEF WalkDown
  <2>2. op'.kind = op.kind
    BY <2>1 DEF Inv, CallInv, Ops
  <2>3. Unmapping => Unmapping'
    BY <2>2, SMTT(30) DEF Unmapping, idle
  <2>4. Fresh => Fresh'
    BY <1>0, <2>1, FreshSteady, SteadyTables
  <2>5. Cached'
    BY <1>0, <2>1 DEF Cached
  <2> QED  BY <1>0, <2>3, <2>4, <2>5 DEF TlbInv
<1>8. CASE WalkCreate
  <2>1. Mapping /\ cr3' = cr3 /\ tlb' = tlb
    BY <1>8 DEF WalkCreate
  <2> QED  BY <1>0, <1>8, <2>1, FreshSteady, WalkCreateSteady DEF TlbInv
<1>9. CASE WalkCreateFails \/ AlreadyPresent
  <2>1. Mapping /\ UNCHANGED <<content, pml4, cr3, tlb>>
    BY <1>9 DEF WalkCreateFails, AlreadyPresent, MapFails
  <2> QED  BY <1>0, <2>1, FreshSteady, SteadyTables DEF TlbInv
<1>10. CASE NotMapped  BY <1>10, NotMappedTlb
<1>11. CASE StorePte
  <2>1. Mapping
    BY <1>11 DEF StorePte
  <2> QED  BY <1>0, <1>11, <2>1, StorePteTlb DEF TlbInv
<1>12. CASE ClearPte  BY <1>12, ClearPteTlb
<1>13. CASE TlbFill  BY <1>13, TlbFillTlb
<1>14. CASE UNCHANGED vars
  <2>1. UNCHANGED <<content, pml4, cr3, tlb, op>>
    BY <1>14 DEF vars
  <2>2. Cached' /\ (Unmapping' <=> Unmapping)
    BY <1>0, <2>1 DEF Cached, Unmapping
  <2>3. Fresh => Fresh'
    BY <1>0, <2>1, FreshSteady, SteadyTables
  <2> QED  BY <1>0, <2>2, <2>3 DEF TlbInv
<1> QED  BY <1>2, <1>3, <1>4, <1>5, <1>6, <1>7, <1>8, <1>9, <1>10, <1>11, <1>12, <1>13, <1>14 DEF Next

\* When no call is in progress, the processor that made the calls has no translation
\* cached that its tables do not hold: the flushes of vmm_unmap_page, vmm_map_range and
\* vmm_unmap_range are enough, also after a mapping that failed and was rolled back.
THEOREM TlbStaysFresh == Spec => []TlbFresh
<1>1. Init => TlbInv
  BY DEF Init, TlbInv, Cached, Fresh
<1>2. TlbInv => TlbFresh
  BY DEF TlbInv, TlbFresh, Unmapping, Fresh
<1>3. Inv /\ Inv' /\ TlbInv /\ [Next]_vars => TlbInv'
  BY TlbInductive
<1> QED  BY <1>1, <1>2, <1>3, Invariance, PTL DEF Spec

-----------------------------------------------------------------------------
(* The promise of AddressSpace. *)

\* What the calls have done so far: a mapping has mapped the pages up to the current one
\* onto consecutive pages, an unmapping or a rollback has taken them away.
Progress ==
  op # idle =>
    \A w \in op.first .. op.v - 1 :
      vmm_virt_to_phys(op.as, w) = IF Mapping THEN op.p + (w - op.first) ELSE NotPresent

\* The promise's trans, as VMM states it.
Seen(s, v) ==
  IF v \in InProgress(s) \/ (s # Kernel /\ v = APIC_VADDR) THEN NotPresent
  ELSE vmm_virt_to_phys(s, v)
seen == [s \in Spaces |-> [v \in VPages |-> Seen(s, v)]]

LEMMA PageFacts ==
  /\ VPages \subseteq AllPages /\ APIC_VADDR \notin UserPages /\ APIC_VADDR \in KernelPages
  /\ \A w \in AllPages : w \in Nat
<1>1. APIC_VADDR \in KernelPages /\ \A r \in Requests : PagesOf(r) \subseteq UserPages
  BY RequestAssumption
<1>2. ASSUME NEW w \in VPages PROVE w \in AllPages
  <2>1. w = APIC_VADDR \/ \E r \in Requests : w \in PagesOf(r)
    BY DEF VPages
  <2> QED  BY <1>1, <2>1 DEF AllPages
<1>3. APIC_VADDR \notin UserPages
  <2> DEFINE z == (ENTRIES \div 2) * Span(0)
  <2>1. z \in Nat /\ ENTRIES * Span(0) \in Nat
    BY SlotFacts, SpanFacts, SMTT(30)
  <2>2. UserPages = 0 .. z - 1 /\ KernelPages = z .. ENTRIES * Span(0) - 1
    BY DEF UserPages, KernelPages
  <2> HIDE DEF z
  <2> QED  BY <1>1, <2>1, <2>2, SMTT(30)
<1> QED  BY <1>1, <1>2, <1>3, PagesAreNat

LEMMA Stutters ==
  ASSUME Live' = Live, CallInProgress' = CallInProgress,
         \A s \in Spaces, v \in VPages : Seen(s, v)' = Seen(s, v)
  PROVE  UNCHANGED Promise!vars
<1>1. seen' = seen
  BY DEF seen
<1> QED  BY <1>1 DEF Promise!vars, seen, Seen

\* The facts about the call in progress that the steps need.
LEMMA CallFacts ==
  ASSUME Inv, op # idle
  PROVE  /\ op \in Ops /\ op.as \in Live /\ op.as \in Spaces
         /\ op.first \in Nat /\ op.v \in Nat /\ op.stop \in Nat /\ op.end \in Nat
         /\ op.first <= op.v /\ op.v < op.stop /\ op.stop <= op.end
         /\ op.kind \in Kinds
         /\ op.kind # "rollback" => op.stop = op.end
         /\ op.kind \in {"map_page", "unmap_page"} => op.end = op.first + 1
         /\ op.v \in AllPages
         /\ \A w \in op.first .. op.end - 1 : /\ w \in AllPages
                                              /\ ~(op.as # Kernel /\ w = APIC_VADDR)
<1>1. CallInv /\ op \in Ops
  BY DEF Inv, CallInv
<1>2. op.v \in AllPages
  BY HomeOfCall
<1>3. ASSUME NEW w \in op.first .. op.end - 1
      PROVE  w \in AllPages /\ ~(op.as # Kernel /\ w = APIC_VADDR)
  <2>1. w \in PagesFor(op.as)
    BY <1>1 DEF CallInv, InItsHalf
  <2> QED  BY <2>1, PageFacts DEF PagesFor, AllPages
<1> QED  BY <1>1, <1>2, <1>3 DEF CallInv, Ops, Live

LEMMA ProgressNext ==
  ASSUME NEW s, s = op'.as,
         \A w \in op'.first .. op'.v - 1 :
           vmm_virt_to_phys(s, w)' = IF Mapping' THEN op'.p + (w - op'.first) ELSE NotPresent
  PROVE  Progress'
<1>1. ASSUME NEW w PROVE vmm_virt_to_phys(op.as, w)' = vmm_virt_to_phys(s, w)'
  BY DEF vmm_virt_to_phys, EntryAt
<1> QED  BY <1>1 DEF Progress

\* The walk goes on at the same page of the same call.
SameCall ==
  /\ op # idle /\ op' # idle
  /\ op'.kind = op.kind /\ op'.as = op.as /\ op'.first = op.first /\ op'.end = op.end
  /\ op'.p = op.p /\ op'.stop = op.stop

LEMMA SameCallFacts ==
  ASSUME SameCall
  PROVE  /\ CallInProgress' = CallInProgress
         /\ Mapping' = Mapping
         /\ \A s : ~Mapping \/ op'.v = op.v => InProgress(s)' = InProgress(s)
<1>1. Mapping' = Mapping
  BY DEF SameCall, Mapping
<1>2. CallInProgress' = CallInProgress
  BY DEF SameCall, CallInProgress
<1>3. ASSUME NEW s, ~Mapping \/ op'.v = op.v PROVE InProgress(s)' = InProgress(s)
  BY <1>1, <1>3 DEF SameCall, InProgress
<1> QED  BY <1>1, <1>2, <1>3

LEMMA WalkRefines ==
  ASSUME Inv, Inv', Progress, WalkDown \/ WalkCreate
  PROVE  Progress' /\ UNCHANGED Promise!vars
<1>1. op # idle /\ op \in Ops
  BY DEF WalkDown, WalkCreate, Inv, CallInv
<1>2. \E t : op' = [op EXCEPT !.level = @ + 1, !.table = t]
  BY DEF WalkDown, WalkCreate
<1>3. /\ op'.kind = op.kind /\ op'.as = op.as /\ op'.first = op.first /\ op'.end = op.end
      /\ op'.p = op.p /\ op'.stop = op.stop /\ op'.v = op.v
  BY <1>1, <1>2 DEF Ops
<1>4. op' # idle
  <2>1. op.kind # "idle"
    BY <1>1 DEF Ops, Kinds
  <2> QED  BY <1>3, <2>1, SMTT(30) DEF idle
<1>5. SameCall
  BY <1>1, <1>3, <1>4 DEF SameCall
<1>6. Steady /\ Live' = Live
  BY SteadyTables, WalkCreateSteady DEF WalkDown, WalkCreate, Live
<1>7. \A s : InProgress(s)' = InProgress(s)
  BY <1>3, <1>5, SameCallFacts
<1>8. \A s \in Spaces, v \in VPages : Seen(s, v)' = Seen(s, v)
  BY <1>6, <1>7, PageFacts DEF Seen, Steady
<1>9. UNCHANGED Promise!vars
  BY <1>5, <1>6, <1>8, SameCallFacts, Stutters
<1>10. Progress'
  <2>1. PICK s : s = op.as
    OBVIOUS
  <2>2. \A w \in op.first .. op.v - 1 : w \in AllPages /\ s \in Spaces
    BY <1>1, <2>1, CallFacts, SMTT(30)
  <2>3. \A w \in op.first .. op.v - 1 :
          vmm_virt_to_phys(s, w) = IF Mapping THEN op.p + (w - op.first) ELSE NotPresent
    BY <1>1, <2>1 DEF Progress
  <2>4. \A w \in op'.first .. op'.v - 1 :
          vmm_virt_to_phys(s, w)' = IF Mapping' THEN op'.p + (w - op'.first) ELSE NotPresent
    BY <1>3, <1>5, <1>6, <2>2, <2>3, SameCallFacts, SMTT(30) DEF Steady
  <2> QED  BY <1>3, <2>1, <2>4, ProgressNext
<1> QED  BY <1>9, <1>10

LEMMA OutsideRefines ==
  ASSUME Inv, Progress, UNCHANGED <<content, pml4, op>>
  PROVE  Progress' /\ UNCHANGED Promise!vars
<1>1. Steady /\ Live' = Live /\ Mapping' = Mapping
  BY SteadyTables DEF Live, Mapping
<1>2. CallInProgress' = CallInProgress /\ \A s : InProgress(s)' = InProgress(s)
  BY <1>1 DEF CallInProgress, InProgress
<1>3. \A s \in Spaces, v \in VPages : Seen(s, v)' = Seen(s, v)
  BY <1>1, <1>2, PageFacts DEF Seen, Steady
<1>4. CASE op = idle
  BY <1>1, <1>2, <1>3, <1>4, Stutters DEF Progress
<1>5. CASE op # idle
  <2>1. PICK s : s = op.as
    OBVIOUS
  <2>2. s \in Spaces /\ \A w \in op.first .. op.v - 1 : w \in AllPages
    BY <1>5, <2>1, CallFacts, SMTT(30)
  <2>3. \A w \in op.first .. op.v - 1 :
          vmm_virt_to_phys(s, w) = IF Mapping THEN op.p + (w - op.first) ELSE NotPresent
    BY <1>5, <2>1 DEF Progress
  <2>4. Progress'
    BY <1>1, <2>1, <2>2, <2>3, ProgressNext, SMTT(30) DEF Steady
  <2> QED  BY <1>1, <1>2, <1>3, <2>4, Stutters
<1> QED  BY <1>4, <1>5

LEMMA CallRefines ==
  ASSUME Inv, NEW kind \in Kinds \ {"rollback"}, NEW s \in Spaces,
         NEW first \in VPages, NEW end \in Nat, end - 1 \in VPages, NEW p,
         kind \in {"map_page", "map_range"} => p \in DataPages,
         Call(kind, s, first, end, p)
  PROVE  Progress' /\ Promise!Next
<1> DEFINE last == end - 1
<1>1. /\ op = idle /\ s \in Live /\ UNCHANGED <<content, pml4>>
      /\ op' = [kind |-> kind, as |-> s, first |-> first, end |-> end, p |-> p,
                v |-> first, stop |-> end, level |-> 0, table |-> pml4[s]]
  BY DEF Call
<1>2. /\ op'.kind = kind /\ op'.as = s /\ op'.first = first /\ op'.end = end /\ op'.p = p
      /\ op'.v = first /\ op'.stop = end /\ first \in Nat
  BY <1>1, PageFacts
<1>3. op' # idle
  BY <1>2, SMTT(30) DEF idle, Kinds
<1>4. Steady /\ Live' = Live
  BY <1>1, SteadyTables DEF Live
<1>5. Progress'
  BY <1>2, ProgressNext, SMTT(30)
<1>6. CallInProgress = Promise!NoCall /\ \A x : InProgress(x) = {}
  BY <1>1 DEF CallInProgress, Promise!NoCall, InProgress
<1>7. CASE kind \in {"map_page", "map_range"}
  <2>1. Mapping' /\ op'.kind \notin {"unmap_page", "unmap_range"}
    BY <1>2, <1>7 DEF Mapping
  <2>2. CallInProgress' = [does |-> "map", as |-> s, first |-> first, last |-> last, p |-> p]
    BY <1>2, <1>3, <2>1 DEF CallInProgress
  <2>3. \A x : InProgress(x)' = {}
    BY <1>2, <1>3, <2>1, SMTT(30) DEF InProgress
  <2>4. \A x \in Spaces, v \in VPages : Seen(x, v)' = Seen(x, v)
    BY <1>4, <1>6, <2>3, PageFacts DEF Seen, Steady
  <2>5. seen' = seen
    BY <2>4 DEF seen
  <2>6. Promise!Map(s, first, last, p)
    BY <1>1, <1>4, <1>6, <2>2, <2>5 DEF Promise!Map, seen, Seen
  <2>7. p \in PPages \cup {APIC_BASE_ADDR}
    BY <1>7 DEF DataPages
  <2> QED  BY <1>5, <2>6, <2>7 DEF Promise!Next
<1>8. CASE kind \notin {"map_page", "map_range"}
  <2>1. ~Mapping' /\ op'.kind \in {"unmap_page", "unmap_range"}
    BY <1>2, <1>8 DEF Mapping, Kinds
  <2>2. CallInProgress' = [does |-> "unmap", as |-> s, first |-> first, last |-> last]
    BY <1>2, <1>3, <2>1 DEF CallInProgress
  <2>3. \A x : InProgress(x)' = IF x = s THEN first .. last ELSE {}
    BY <1>2, <1>3, <2>1 DEF InProgress
  <2>4. ASSUME NEW x \in Spaces, NEW v \in VPages
        PROVE  Seen(x, v)' = IF x = s /\ v \in first .. last THEN NotPresent ELSE Seen(x, v)
    BY <1>4, <1>6, <2>3, PageFacts DEF Seen, Steady
  <2>5. seen' = [seen EXCEPT ![s] = [v \in VPages |-> IF v \in first .. last THEN NotPresent ELSE @[v]]]
    BY <2>4 DEF seen
  <2>6. Promise!Unmap(s, first, last)
    BY <1>1, <1>4, <1>6, <2>2, <2>5 DEF Promise!Unmap, seen, Seen
  <2> QED  BY <1>5, <2>6 DEF Promise!Next
<1> QED  BY <1>7, <1>8

LEMMA UserCallRefines ==
  ASSUME Inv, NEW s \in UserSpaces, NEW r \in Requests,
         \/ vmm_unmap_page(s, r) \/ vmm_unmap_range(s, r)
         \/ \E p \in PPages : vmm_map_page(s, r, p) \/ vmm_map_range(s, r, p)
  PROVE  Progress' /\ Promise!Next
<1> DEFINE first == vmm_page_align_down(r[1])
           end == vmm_page_align_up(r[1] + r[2])
<1>1. first \in Nat /\ end \in Nat /\ first < end
  BY RequestPages
<1>2. PagesOf(r) = first .. end - 1 /\ PagesOf(r) \subseteq VPages /\ s \in Spaces
  BY DEF PagesOf, VPages, Spaces
<1> HIDE DEF first, end
<1>3. first \in VPages /\ end - 1 \in VPages /\ first + 1 \in Nat /\ (first + 1) - 1 \in VPages
  BY <1>1, <1>2, SMTT(30)
<1>4. CASE vmm_unmap_page(s, r)
  <2>1. Call("unmap_page", s, first, first + 1, 0)
    BY <1>4 DEF vmm_unmap_page, first
  <2> QED  BY <1>2, <1>3, <2>1, CallRefines DEF Kinds
<1>5. CASE vmm_unmap_range(s, r)
  <2>1. Call("unmap_range", s, first, end, 0)
    BY <1>5 DEF vmm_unmap_range, first, end
  <2> QED  BY <1>1, <1>2, <1>3, <2>1, CallRefines DEF Kinds
<1>6. ASSUME NEW p \in PPages, vmm_map_page(s, r, p) PROVE Progress' /\ Promise!Next
  <2>1. Call("map_page", s, first, first + 1, p) /\ p \in DataPages
    BY <1>6 DEF vmm_map_page, first, DataPages
  <2> QED  BY <1>2, <1>3, <2>1, CallRefines DEF Kinds
<1>7. ASSUME NEW p \in PPages, vmm_map_range(s, r, p) PROVE Progress' /\ Promise!Next
  <2>1. Call("map_range", s, first, end, p) /\ p \in DataPages
    BY <1>7 DEF vmm_map_range, first, end, DataPages
  <2> QED  BY <1>1, <1>2, <1>3, <2>1, CallRefines DEF Kinds
<1> QED  BY <1>4, <1>5, <1>6, <1>7

LEMMA ApicRefines ==
  ASSUME Inv, apic_global_init
  PROVE  Progress' /\ Promise!Next
<1>1. Call("map_range", Kernel, APIC_VADDR, APIC_VADDR + 1, APIC_BASE_ADDR)
  BY DEF apic_global_init
<1>2. APIC_VADDR \in VPages /\ APIC_VADDR \in Nat /\ Kernel \in Spaces
  BY PageFacts DEF VPages, Spaces
<1>3. APIC_VADDR + 1 \in Nat /\ (APIC_VADDR + 1) - 1 \in VPages
  BY <1>2, SMTT(30)
<1> QED  BY <1>1, <1>2, <1>3, CallRefines DEF Kinds, DataPages

LEMMA CreateRefines ==
  ASSUME Inv, Inv', NEW s \in UserSpaces, vmm_create_address_space(s)
  PROVE  Progress' /\ Promise!Next
<1>1. op = idle /\ op' = idle /\ s \in Spaces /\ s # Kernel
  BY ShapeAssumption DEF vmm_create_address_space, Spaces
<1>2. /\ Live' = Live \cup {s} /\ s \notin Live
      /\ \A x \in Live, w \in AllPages : vmm_virt_to_phys(x, w)' = vmm_virt_to_phys(x, w)
      /\ \A w \in UserPages : vmm_virt_to_phys(s, w)' = NotPresent
  BY CreateTranslations
<1>3. /\ \A x \in Spaces \ Live : \A w : vmm_virt_to_phys(x, w) = NotPresent
      /\ \A x \in Spaces \ Live' : \A w : vmm_virt_to_phys(x, w)' = NotPresent
  BY DeadNow, DeadNext DEF Dead
<1>4. /\ CallInProgress = Promise!NoCall /\ CallInProgress' = Promise!NoCall
      /\ \A x : InProgress(x) = {} /\ InProgress(x)' = {}
  BY <1>1 DEF CallInProgress, Promise!NoCall, InProgress
<1>5. \A w \in VPages : w \in AllPages /\ (w # APIC_VADDR => w \in UserPages)
  BY PageFacts, RequestAssumption DEF VPages
<1>6. ASSUME NEW x \in Spaces, NEW v \in VPages PROVE Seen(x, v)' = Seen(x, v)
  <2>1. CASE x = s
    BY <1>1, <1>2, <1>3, <1>4, <1>5, <2>1 DEF Seen
  <2>2. CASE x \in Live
    BY <1>2, <1>4, <1>5, <2>2 DEF Seen
  <2>3. CASE x # s /\ x \notin Live
    BY <1>2, <1>3, <1>4, <2>3 DEF Seen
  <2> QED  BY <2>1, <2>2, <2>3
<1>7. seen' = seen
  BY <1>6 DEF seen
<1>8. Promise!Create(s)
  BY <1>2, <1>4, <1>7 DEF Promise!Create, seen, Seen
<1> QED  BY <1>1, <1>8 DEF Promise!Next, Progress

LEMMA DestroyRefines ==
  ASSUME Inv, Inv', NEW s \in UserSpaces, vmm_destroy_address_space(s)
  PROVE  Progress' /\ Promise!Next
<1>1. op = idle /\ op' = idle /\ s \in Spaces /\ s # Kernel
  BY ShapeAssumption DEF vmm_destroy_address_space, Spaces
<1>2. /\ Live' = Live \ {s} /\ s \in Live
      /\ \A x \in Live \ {s}, w \in AllPages : vmm_virt_to_phys(x, w)' = vmm_virt_to_phys(x, w)
  BY DestroyTranslations
<1>3. /\ \A x \in Spaces \ Live : \A w : vmm_virt_to_phys(x, w) = NotPresent
      /\ \A x \in Spaces \ Live' : \A w : vmm_virt_to_phys(x, w)' = NotPresent
  BY DeadNow, DeadNext DEF Dead
<1>4. /\ CallInProgress = Promise!NoCall /\ CallInProgress' = Promise!NoCall
      /\ \A x : InProgress(x) = {} /\ InProgress(x)' = {}
  BY <1>1 DEF CallInProgress, Promise!NoCall, InProgress
<1>5. ASSUME NEW x \in Spaces, NEW v \in VPages
      PROVE  Seen(x, v)' = IF x = s THEN NotPresent ELSE Seen(x, v)
  <2>1. CASE x = s
    BY <1>1, <1>2, <1>3, <1>4, <2>1 DEF Seen
  <2>2. CASE x \in Live \ {s}
    BY <1>2, <1>4, <2>2, PageFacts DEF Seen
  <2>3. CASE x # s /\ x \notin Live
    BY <1>2, <1>3, <1>4, <2>3 DEF Seen
  <2> QED  BY <2>1, <2>2, <2>3
<1>6. seen' = [seen EXCEPT ![s] = [v \in VPages |-> NotPresent]]
  BY <1>5 DEF seen
<1>7. Promise!Destroy(s)
  BY <1>1, <1>2, <1>4, <1>6 DEF Promise!Destroy, Promise!Nothing, seen, Seen
<1> QED  BY <1>1, <1>7 DEF Promise!Next, Progress

\* A mapping that fails: nothing was mapped yet, or the rollback begins.
LEMMA FailsRefines ==
  ASSUME Inv, Progress, WalkCreateFails \/ AlreadyPresent
  PROVE  Progress' /\ [Promise!Next]_(Promise!vars)
<1>1. op # idle /\ Mapping /\ MapFails /\ UNCHANGED <<content, pml4>>
  BY DEF WalkCreateFails, AlreadyPresent
<1>2. /\ op \in Ops /\ op.first \in Nat /\ op.v \in Nat /\ op.stop \in Nat /\ op.first <= op.v
      /\ op.v < op.stop /\ op.stop <= op.end /\ op.kind \in Kinds
      /\ op.kind \in {"map_page", "unmap_page"} => op.end = op.first + 1
  BY <1>1, CallFacts
<1>3. Steady /\ Live' = Live
  BY <1>1, SteadyTables DEF Live
<1>4. CallInProgress = [does |-> "map", as |-> op.as, first |-> op.first, last |-> op.end - 1, p |-> op.p]
  BY <1>1 DEF CallInProgress, Mapping
<1>5. \A s : InProgress(s) = IF op.as = s THEN op.first .. op.v - 1 ELSE {}
  BY <1>1 DEF InProgress
<1>6. CASE op.kind = "map_range" /\ op.v > op.first
  <2>1. op' = [op EXCEPT !.kind = "rollback", !.v = op.first, !.stop = op.v,
                         !.level = 0, !.table = pml4[op.as]]
    BY <1>1, <1>6 DEF MapFails, RollbackEnd
  <2>2. /\ op'.kind = "rollback" /\ op'.as = op.as /\ op'.first = op.first /\ op'.end = op.end
        /\ op'.p = op.p /\ op'.v = op.first /\ op'.stop = op.v
    BY <1>2, <2>1 DEF Ops
  <2>3. op' # idle /\ ~Mapping'
    BY <2>2, SMTT(30) DEF idle, Mapping
  <2>4. CallInProgress' = CallInProgress
    BY <1>4, <2>2, <2>3 DEF CallInProgress
  <2>5. \A s : InProgress(s)' = InProgress(s)
    BY <1>5, <2>2, <2>3 DEF InProgress
  <2>6. \A s \in Spaces, v \in VPages : Seen(s, v)' = Seen(s, v)
    BY <1>3, <2>5, PageFacts DEF Seen, Steady
  <2>7. Progress'
    BY <1>2, <2>2, ProgressNext, SMTT(30)
  <2> QED  BY <1>3, <2>4, <2>6, <2>7, Stutters
<1>7. CASE ~(op.kind = "map_range" /\ op.v > op.first)
  <2>1. op' = idle
    BY <1>1, <1>7 DEF MapFails
  <2>2. op.v = op.first
    <3>1. CASE op.kind = "map_range"
      BY <1>2, <1>7, <3>1, SMTT(30)
    <3>2. CASE op.kind # "map_range"
      <4>1. op.kind = "map_page"
        BY <1>1, <3>2 DEF Mapping
      <4>2. op.v < op.first + 1
        BY <1>2, <4>1, SMTT(30)
      <4> QED  BY <1>2, <4>2, SMTT(30)
    <3> QED  BY <3>1, <3>2
  <2>3. CallInProgress' = Promise!NoCall /\ \A s : InProgress(s)' = {} /\ InProgress(s) = {}
    BY <1>2, <1>5, <2>1, <2>2, SMTT(30) DEF CallInProgress, Promise!NoCall, InProgress
  <2>4. \A s \in Spaces, v \in VPages : Seen(s, v)' = Seen(s, v)
    BY <1>3, <2>3, PageFacts DEF Seen, Steady
  <2>5. seen' = seen
    BY <2>4 DEF seen
  <2>6. Promise!MapFails
    BY <1>3, <1>4, <2>3, <2>5 DEF Promise!MapFails, seen, Seen
  <2> QED  BY <2>1, <2>6 DEF Promise!Next, Progress
<1> QED  BY <1>6, <1>7

\* The loops go on with the next page, or the call ends.
GoesOn == op.v + 1 < op.stop /\ op' = [op EXCEPT !.v = op.v + 1, !.level = 0, !.table = pml4[op.as]]
Ends == op.v + 1 = op.stop /\ op' = idle

LEMMA GoesOnFacts ==
  ASSUME Inv, op # idle, GoesOn
  PROVE  SameCall /\ op'.v = op.v + 1
<1>1. op \in Ops /\ op.kind \in Kinds
  BY CallFacts
<1>2. /\ op'.kind = op.kind /\ op'.as = op.as /\ op'.first = op.first /\ op'.end = op.end
      /\ op'.p = op.p /\ op'.stop = op.stop /\ op'.v = op.v + 1
  BY <1>1 DEF GoesOn, Ops
<1>3. op' # idle
  BY <1>1, <1>2, SMTT(30) DEF idle, Kinds
<1> QED  BY <1>2, <1>3 DEF SameCall

\* A page of a range that is taken away.
LEMMA ClearedRefines ==
  ASSUME Inv, Progress, op # idle, ~Mapping, Written(NotPresent), Live' = Live, GoesOn \/ Ends
  PROVE  Progress' /\ [Promise!Next]_(Promise!vars)
<1>1. /\ op \in Ops /\ op.first \in Nat /\ op.v \in Nat /\ op.stop \in Nat /\ op.first <= op.v
      /\ op.v < op.stop /\ op.stop <= op.end /\ op.end \in Nat /\ op.kind \in Kinds /\ op.as \in Spaces
      /\ \A w \in op.first .. op.end - 1 : w \in AllPages
  BY CallFacts
<1>2. \A s : InProgress(s) = IF op.as = s THEN op.first .. op.stop - 1 ELSE {}
  BY DEF InProgress
<1>3. \A w \in op.first .. op.v - 1 : vmm_virt_to_phys(op.as, w) = NotPresent
  BY DEF Progress
<1>4. PICK a : a = op.as
  OBVIOUS
<1>5. \A w \in op.first .. op.v : vmm_virt_to_phys(a, w)' = NotPresent
  <2> TAKE w \in op.first .. op.v
  <2>1. w \in AllPages /\ (w = op.v \/ w \in op.first .. op.v - 1)
    BY <1>1, SMTT(30)
  <2> QED  BY <1>1, <1>3, <1>4, <2>1 DEF Written
<1>6. CASE GoesOn
  <2>1. SameCall /\ op'.v = op.v + 1
    BY <1>6, GoesOnFacts
  <2>2. CallInProgress' = CallInProgress /\ Mapping' = Mapping /\ \A s : InProgress(s)' = InProgress(s)
    BY <2>1, SameCallFacts
  <2>3. ASSUME NEW s \in Spaces, NEW v \in VPages PROVE Seen(s, v)' = Seen(s, v)
    <3>1. CASE s = op.as /\ v = op.v
      BY <1>1, <1>2, <2>2, <3>1, SMTT(30) DEF Seen
    <3>2. CASE ~(s = op.as /\ v = op.v)
      BY <2>2, <3>2, PageFacts DEF Seen, Written
    <3> QED  BY <3>1, <3>2
  <2>4. Progress'
    <3>1. a = op'.as /\ op'.first = op.first /\ op'.v - 1 = op.v /\ ~Mapping'
      BY <1>1, <1>4, <2>1, <2>2, SMTT(30) DEF SameCall
    <3> QED  BY <1>5, <3>1, ProgressNext
  <2> QED  BY <2>2, <2>3, <2>4, Stutters
<1>7. CASE Ends
  <2>1. op' = idle /\ op.stop - 1 = op.v
    BY <1>1, <1>7, SMTT(30) DEF Ends
  <2>2. CallInProgress' = Promise!NoCall /\ \A s : InProgress(s)' = {}
    BY <2>1 DEF CallInProgress, Promise!NoCall, InProgress
  <2>3. ASSUME NEW s \in Spaces, NEW v \in VPages PROVE Seen(s, v)' = Seen(s, v)
    <3>1. CASE s = op.as /\ v \in op.first .. op.v
      BY <1>2, <1>4, <1>5, <2>1, <2>2, <3>1 DEF Seen
    <3>2. CASE ~(s = op.as /\ v \in op.first .. op.v)
      <4>1. v \notin InProgress(s) /\ v \notin InProgress(s)'
        BY <1>2, <2>1, <2>2, <3>2
      <4>2. v \in AllPages /\ ~(s = op.as /\ v = op.v)
        BY <1>1, <3>2, PageFacts, SMTT(30)
      <4> QED  BY <4>1, <4>2 DEF Seen, Written
    <3> QED  BY <3>1, <3>2
  <2>4. seen' = seen
    BY <2>3 DEF seen
  <2>5. CASE op.kind \in {"unmap_page", "unmap_range"}
    <3>1. CallInProgress = [does |-> "unmap", as |-> op.as, first |-> op.first, last |-> op.end - 1]
      BY <2>5 DEF CallInProgress
    <3>2. Promise!UnmapDone
      BY <2>2, <2>4, <3>1 DEF Promise!UnmapDone, seen, Seen
    <3> QED  BY <2>1, <3>2 DEF Promise!Next, Progress
  <2>6. CASE op.kind \notin {"unmap_page", "unmap_range"}
    <3>1. CallInProgress = [does |-> "map", as |-> op.as, first |-> op.first, last |-> op.end - 1, p |-> op.p]
      BY <2>6 DEF CallInProgress
    <3>2. Promise!MapFails
      BY <2>2, <2>4, <3>1 DEF Promise!MapFails, seen, Seen
    <3> QED  BY <2>1, <3>2 DEF Promise!Next, Progress
  <2> QED  BY <2>5, <2>6
<1> QED  BY <1>6, <1>7

LEMMA NotMappedRefines ==
  ASSUME Inv, Progress, NotMapped
  PROVE  Progress' /\ [Promise!Next]_(Promise!vars)
<1>1. op # idle /\ ~Mapping /\ WalkEntry = NotPresent /\ UNCHANGED <<content, pml4>>
  BY DEF NotMapped
<1>2. Steady /\ Live' = Live
  BY <1>1, SteadyTables DEF Live
<1>3. vmm_virt_to_phys(op.as, op.v) = NotPresent
  BY <1>1, HomeOfCall, NoEntry
<1>4. Written(NotPresent)
  BY <1>2, <1>3 DEF Steady, Written
<1>5. GoesOn \/ Ends
  <2>1. /\ op.first \in Nat /\ op.v \in Nat /\ op.stop \in Nat /\ op.first <= op.v /\ op.v < op.stop
        /\ (op.kind = "unmap_page" => op.stop = op.first + 1)
    BY <1>1, CallFacts
  <2> QED  BY <2>1, SMTT(30) DEF NotMapped, NextPage, GoesOn, Ends
<1> QED  BY <1>1, <1>2, <1>4, <1>5, ClearedRefines

LEMMA ClearPteRefines ==
  ASSUME Inv, Inv', Progress, ClearPte
  PROVE  Progress' /\ [Promise!Next]_(Promise!vars)
<1>1. op # idle /\ ~Mapping /\ WriteLast(NotPresent) /\ NextPage /\ NotPresent \in Entry
  BY DEF ClearPte, WriteLast, LastLevel, Entry
<1>2. Written(NotPresent) /\ Live' = Live
  BY <1>1, WriteLastWritten DEF ClearPte, Live
<1>3. GoesOn \/ Ends
  <2>1. op.v \in Nat /\ op.stop \in Nat /\ op.v < op.stop
    BY <1>1, CallFacts
  <2> QED  BY <1>1, <2>1, SMTT(30) DEF NextPage, GoesOn, Ends
<1> QED  BY <1>1, <1>2, <1>3, ClearedRefines

\* The pages of the call in progress are pages a caller asked for.
Asked == op # idle => \A w \in op.first .. op.end - 1 : w \in VPages

LEMMA AskedSame ==
  ASSUME Asked, op # idle, op' = idle \/ (op'.first = op.first /\ op'.end = op.end)
  PROVE  Asked'
BY DEF Asked

LEMMA AskedBegins ==
  ASSUME NEW kind, NEW s, NEW first \in Nat, NEW end \in Nat, NEW p,
         \A w \in first .. end - 1 : w \in VPages,
         Call(kind, s, first, end, p)
  PROVE  Asked'
<1>1. op'.first = first /\ op'.end = end
  BY DEF Call
<1> QED  BY <1>1 DEF Asked

LEMMA AskedInductive ==
  ASSUME Inv, Asked, Next
  PROVE  Asked'
<1>1. CASE apic_global_init
  <2>1. Call("map_range", Kernel, APIC_VADDR, APIC_VADDR + 1, APIC_BASE_ADDR)
    BY <1>1 DEF apic_global_init
  <2>2. APIC_VADDR \in VPages /\ APIC_VADDR \in Nat
    BY PageFacts DEF VPages
  <2>3. APIC_VADDR + 1 \in Nat /\ \A w \in APIC_VADDR .. (APIC_VADDR + 1) - 1 : w \in VPages
    BY <2>2, SMTT(30)
  <2> QED  BY <2>1, <2>2, <2>3, AskedBegins
<1>2. ASSUME NEW s \in UserSpaces, NEW r \in Requests,
             \/ vmm_unmap_page(s, r) \/ vmm_unmap_range(s, r)
             \/ \E p \in PPages : vmm_map_page(s, r, p) \/ vmm_map_range(s, r, p)
      PROVE  Asked'
  <2> DEFINE first == vmm_page_align_down(r[1])
             end == vmm_page_align_up(r[1] + r[2])
  <2>1. \E kind, p : Call(kind, s, first, first + 1, p) \/ Call(kind, s, first, end, p)
    BY <1>2 DEF vmm_unmap_page, vmm_unmap_range, vmm_map_page, vmm_map_range
  <2>2. first \in Nat /\ end \in Nat /\ first < end
    BY RequestPages
  <2>3. \A w \in first .. end - 1 : w \in VPages
    BY DEF PagesOf, VPages
  <2> HIDE DEF first, end
  <2>4. first + 1 \in Nat /\ \A w \in first .. (first + 1) - 1 : w \in VPages
    BY <2>2, <2>3, SMTT(30)
  <2> QED  BY <2>1, <2>2, <2>3, <2>4, AskedBegins
<1>3. ASSUME UNCHANGED op PROVE Asked'
  BY <1>3 DEF Asked
<1>5. CASE WalkDown \/ WalkCreate \/ WalkCreateFails \/ NotMapped \/ StorePte \/ AlreadyPresent \/ ClearPte
  <2>1. op # idle
    BY <1>5 DEF WalkDown, WalkCreate, WalkCreateFails, NotMapped, StorePte, AlreadyPresent, ClearPte
  <2>2. op \in Ops
    BY <2>1 DEF Inv, CallInv
  <2>3. CASE op' = idle
    BY <2>1, <2>3, AskedSame
  <2>4. CASE \E t : op' = [op EXCEPT !.level = @ + 1, !.table = t]
    BY <2>1, <2>2, <2>4, AskedSame DEF Ops
  <2>5. CASE op' = [op EXCEPT !.v = @ + 1, !.level = 0, !.table = pml4[op.as]]
    BY <2>1, <2>2, <2>5, AskedSame DEF Ops
  <2>6. CASE op' = [op EXCEPT !.kind = "rollback", !.v = op.first, !.stop = RollbackEnd,
                              !.level = 0, !.table = pml4[op.as]]
    BY <2>1, <2>2, <2>6, AskedSame DEF Ops
  <2> QED
    BY <1>5, <2>3, <2>4, <2>5, <2>6
    DEF WalkDown, WalkCreate, WalkCreateFails, NotMapped, StorePte, AlreadyPresent, ClearPte, MapFails, NextPage
<1> QED
  BY <1>1, <1>2, <1>3, <1>5 DEF Next, vmm_create_address_space, vmm_destroy_address_space,
     vmm_switch_address_space, TlbFill

\* A page of a range that is mapped; with the last one the whole range is.
LEMMA StorePteRefines ==
  ASSUME Inv, Inv', Progress, Asked, StorePte
  PROVE  Progress' /\ [Promise!Next]_(Promise!vars)
<1>1. op # idle /\ Mapping /\ WalkEntry = NotPresent /\ WriteLast(PhysPage) /\ NextPage /\ PhysPage \in Entry
  BY StoredPage DEF StorePte, WriteLast, LastLevel
<1>2. /\ op \in Ops /\ op.first \in Nat /\ op.v \in Nat /\ op.stop \in Nat /\ op.first <= op.v
      /\ op.v < op.stop /\ op.stop = op.end /\ op.kind \in Kinds /\ op.as \in Spaces
      /\ \A w \in op.first .. op.end - 1 : w \in AllPages /\ ~(op.as # Kernel /\ w = APIC_VADDR)
  BY <1>1, CallFacts DEF Mapping
<1>3. Written(PhysPage) /\ Live' = Live
  BY <1>1, WriteLastWritten DEF StorePte, Live
<1>4. vmm_virt_to_phys(op.as, op.v) = NotPresent
  BY <1>1, HomeOfCall, NoEntry
<1>5. \A s : InProgress(s) = IF op.as = s THEN op.first .. op.v - 1 ELSE {}
  BY <1>1 DEF InProgress
<1>6. PICK a : a = op.as
  OBVIOUS
<1>7. \A w \in op.first .. op.v : vmm_virt_to_phys(a, w)' = op.p + (w - op.first)
  <2> TAKE w \in op.first .. op.v
  <2>1. w \in AllPages /\ (w = op.v \/ w \in op.first .. op.v - 1)
    BY <1>2, SMTT(30)
  <2>2. w \in op.first .. op.v - 1 => vmm_virt_to_phys(op.as, w) = op.p + (w - op.first)
    BY <1>1 DEF Progress
  <2>3. w \in op.first .. op.v - 1 => w # op.v
    BY <1>2, SMTT(30)
  <2> QED  BY <1>2, <1>3, <1>6, <2>1, <2>2, <2>3 DEF Written, PhysPage
<1>8. GoesOn \/ Ends
  BY <1>1, <1>2, SMTT(30) DEF NextPage, GoesOn, Ends
<1>9. CASE GoesOn
  <2>1. SameCall /\ op'.v = op.v + 1
    BY <1>1, <1>9, GoesOnFacts
  <2>2. CallInProgress' = CallInProgress /\ Mapping'
    BY <1>1, <2>1, SameCallFacts
  <2>3. \A s : InProgress(s)' = IF op.as = s THEN op.first .. op.v ELSE {}
    BY <1>2, <2>1, <2>2, SMTT(30) DEF InProgress, SameCall
  <2>4. ASSUME NEW s \in Spaces, NEW v \in VPages PROVE Seen(s, v)' = Seen(s, v)
    <3>1. CASE s = op.as /\ v = op.v
      BY <1>2, <1>4, <2>3, <3>1, SMTT(30) DEF Seen
    <3>2. CASE ~(s = op.as /\ v = op.v)
      <4>1. v \in InProgress(s)' <=> v \in InProgress(s)
        BY <1>2, <1>5, <2>3, <3>2, SMTT(30)
      <4> QED  BY <1>3, <3>2, <4>1, PageFacts DEF Seen, Written
    <3> QED  BY <3>1, <3>2
  <2>5. Progress'
    <3>1. a = op'.as /\ op'.first = op.first /\ op'.v - 1 = op.v /\ op'.p = op.p
      BY <1>2, <1>6, <2>1, SMTT(30) DEF SameCall
    <3> QED  BY <1>7, <2>2, <3>1, ProgressNext
  <2> QED  BY <1>3, <2>2, <2>4, <2>5, Stutters
<1>10. CASE Ends
  <2> DEFINE last == op.end - 1
             E(f) == [v \in VPages |-> IF v \in op.first .. last THEN op.p + (v - op.first) ELSE f[v]]
  <2>1. op' = idle /\ last = op.v
    BY <1>2, <1>10, SMTT(30) DEF Ends
  <2>2. CallInProgress' = Promise!NoCall /\ \A s : InProgress(s)' = {}
    BY <2>1 DEF CallInProgress, Promise!NoCall, InProgress
  <2>3. CallInProgress = [does |-> "map", as |-> op.as, first |-> op.first, last |-> last, p |-> op.p]
    BY <1>1 DEF CallInProgress, Mapping
  <2>4. ASSUME NEW s \in Spaces, NEW v \in VPages
        PROVE  Seen(s, v)' = IF s = op.as /\ v \in op.first .. last THEN op.p + (v - op.first) ELSE Seen(s, v)
    <3>1. CASE s = op.as /\ v \in op.first .. last
      BY <1>2, <1>6, <1>7, <2>1, <2>2, <3>1 DEF Seen
    <3>2. CASE ~(s = op.as /\ v \in op.first .. last)
      <4>1. \A x \in op.first .. op.v - 1 : x \in op.first .. last
        BY <1>2, <2>1, SMTT(30)
      <4>2. op.v \in op.first .. last
        BY <1>2, <2>1, SMTT(30)
      <4>3. v \notin InProgress(s) /\ v \notin InProgress(s)' /\ ~(s = op.as /\ v = op.v)
        BY <1>5, <2>2, <3>2, <4>1, <4>2
      <4> QED  BY <1>3, <3>2, <4>3, PageFacts DEF Seen, Written
    <3> QED  BY <3>1, <3>2
  <2>5. ASSUME NEW v \in op.first .. last PROVE Seen(op.as, v) = NotPresent
    BY <1>2, <1>4, <1>5, <2>1, SMTT(30) DEF Seen
  <2>6. seen' = [seen EXCEPT ![op.as] = [v \in VPages |->
                   IF v \in op.first .. last THEN op.p + (v - op.first) ELSE @[v]]]
    BY <1>2, <2>4 DEF seen
  <2>7. Promise!MapDone
    <3>1. /\ CallInProgress.does = "map" /\ CallInProgress.as = op.as
          /\ CallInProgress.first = op.first /\ CallInProgress.last = last /\ CallInProgress.p = op.p
      BY <2>3
    <3>2. \A v \in op.first .. last : seen[op.as][v] = NotPresent
      BY <1>1, <1>2, <2>5 DEF seen, Asked
    <3>3. /\ CallInProgress.does = "map"
          /\ \A v \in CallInProgress.first .. CallInProgress.last : seen[CallInProgress.as][v] = NotPresent
          /\ seen' = [seen EXCEPT ![CallInProgress.as] = [v \in VPages |->
                 IF v \in CallInProgress.first .. CallInProgress.last
                 THEN CallInProgress.p + (v - CallInProgress.first) ELSE @[v]]]
      BY <2>6, <3>1, <3>2
    <3> QED  BY <1>3, <2>2, <3>3 DEF Promise!MapDone, seen, Seen
  <2> QED  BY <2>1, <2>7 DEF Promise!Next, Progress
<1> QED  BY <1>8, <1>9, <1>10

\* Every step of the manager is a step of the promise or none at all.
LEMMA StepRefines ==
  ASSUME Inv, Inv', Progress, Asked, [Next]_vars
  PROVE  Progress' /\ Asked' /\ [Promise!Next]_(Promise!vars)
<1>1. CASE apic_global_init  BY <1>1, ApicRefines, AskedInductive DEF Next
<1>2. ASSUME NEW s \in UserSpaces, vmm_create_address_space(s)
      PROVE  Progress' /\ Promise!Next
  BY <1>2, CreateRefines
<1>3. ASSUME NEW s \in UserSpaces, vmm_destroy_address_space(s)
      PROVE  Progress' /\ Promise!Next
  BY <1>3, DestroyRefines
<1>4. ASSUME NEW s \in UserSpaces, NEW r \in Requests,
             \/ vmm_unmap_page(s, r) \/ vmm_unmap_range(s, r)
             \/ \E p \in PPages : vmm_map_page(s, r, p) \/ vmm_map_range(s, r, p)
      PROVE  Progress' /\ Promise!Next
  BY <1>4, UserCallRefines
<1>5. ASSUME NEW s \in Spaces, vmm_switch_address_space(s)
      PROVE  Progress' /\ UNCHANGED Promise!vars
  BY <1>5, OutsideRefines DEF vmm_switch_address_space
<1>6. CASE WalkDown \/ WalkCreate  BY <1>6, WalkRefines, AskedInductive DEF Next
<1>7. CASE WalkCreateFails \/ AlreadyPresent  BY <1>7, FailsRefines, AskedInductive DEF Next
<1>8. CASE NotMapped  BY <1>8, NotMappedRefines, AskedInductive DEF Next
<1>9. CASE StorePte  BY <1>9, StorePteRefines, AskedInductive DEF Next
<1>10. CASE ClearPte  BY <1>10, ClearPteRefines, AskedInductive DEF Next
<1>11. CASE TlbFill
  BY <1>11, OutsideRefines, AskedInductive DEF TlbFill, Next
<1>12. CASE UNCHANGED vars
  BY <1>12, OutsideRefines DEF vars, Asked
<1> QED
  BY <1>1, <1>2, <1>3, <1>4, <1>5, <1>6, <1>7, <1>8, <1>9, <1>10, <1>11, <1>12, AskedInductive DEF Next

\* What a space translates to before any call: nothing.
LEMMA InitRefines ==
  ASSUME Init
  PROVE  Progress /\ Asked /\ Promise!Init
<1>1. op = idle /\ Inv
  BY InitInv DEF Init
<1>2. Live = {Kernel} /\ CallInProgress = Promise!NoCall /\ \A s : InProgress(s) = {}
  BY <1>1, ShapeAssumption DEF Init, Live, CallInProgress, Promise!NoCall, InProgress, Frames, Spaces
<1>3. \A s \in Spaces \ Live : \A w : vmm_virt_to_phys(s, w) = NotPresent
  BY <1>1, DeadNow DEF Dead
<1>4. ASSUME NEW v \in VPages PROVE vmm_virt_to_phys(Kernel, v) = NotPresent
  <2>1. \A level \in 0 .. 3 : TableIndex(v, level) \in Slots
    BY WalkPlaces, PageFacts
  <2>2. /\ pml4[Kernel] = BootPml4 /\ BootPdp \in Frames /\ NotPresent \notin Frames
        /\ \A i \in Slots : content[BootPml4][i] \in {BootPdp, NotPresent} /\ content[BootPdp][i] = NotPresent
    BY ShapeAssumption DEF Init, Frames, Spaces, Empty
  <2>3. EntryAt(pml4[Kernel], v, 0) \in {BootPdp, NotPresent}
    <3>1. 0 \in 0 .. 3
      BY SMTT(30)
    <3> QED  BY <2>1, <2>2, <3>1 DEF EntryAt
  <2>4. EntryAt(EntryAt(pml4[Kernel], v, 0), v, 1) = NotPresent
    <3>1. 1 \in 0 .. 3
      BY SMTT(30)
    <3> QED  BY <2>1, <2>2, <2>3, <3>1 DEF EntryAt
  <2> QED  BY <2>2, <2>4 DEF vmm_virt_to_phys, EntryAt
<1>5. \A s \in Spaces, v \in VPages : Seen(s, v) = NotPresent
  BY <1>2, <1>3, <1>4 DEF Seen
<1>6. seen = [s \in Spaces |-> [v \in VPages |-> NotPresent]]
  BY <1>5 DEF seen
<1>7. Promise!Init
  BY <1>2, <1>6 DEF Promise!Init, Promise!Nothing, seen, Seen
<1> QED  BY <1>1, <1>7 DEF Progress, Asked

\* The calls of vmm.c do what AddressSpace says, whole and at once as far as a space's
\* user can tell: every page of a range is mapped or none is, an unmapping takes away
\* what it was asked to and nothing else, other spaces see nothing of it, and the steps
\* through the tables are invisible.
THEOREM KeepsThePromise == Spec => RefinesAddressSpace
<1>1. Init => Progress /\ Asked /\ Promise!Init
  BY InitRefines
<1>2. Inv /\ Inv' /\ Progress /\ Asked /\ [Next]_vars
        => Progress' /\ Asked' /\ [Promise!Next]_(Promise!vars)
  BY StepRefines
<1> QED  BY <1>1, <1>2, Invariance, PTL DEF Spec, RefinesAddressSpace, Promise!Spec

-----------------------------------------------------------------------------
(* Counting the tables. *)

INSTANCE FiniteSetTheorems

LEMMA LinksAndTables ==
  ASSUME Inv, NEW s \in Live \ {Kernel}
  PROVE  Cardinality(UserTables(s)) = 1 + Cardinality(Links(s))
<1> DEFINE L == Links(s)
           U == LowerTables(s)
<1>1. /\ L \subseteq Frames \X Slots
      /\ UserTables(s) = U \cup {pml4[s]} /\ pml4[s] \notin U
      /\ \E M \in [L -> U] : /\ \A a, b \in L : M[a] = M[b] => a = b
                             /\ \A u \in U : \E l \in L : M[l] = u
  BY LinksAreOneToOne
<1>2. IsFiniteSet(L)
  <2>1. IsFiniteSet({BootPml4} \cup {BootPdp})
    BY FS_Singleton, FS_AddElement
  <2>2. Frames = Pool \cup ({BootPml4} \cup {BootPdp})
    BY DEF Frames
  <2>3. IsFiniteSet(Frames)
    BY <2>1, <2>2, FS_Union, ShapeAssumption
  <2>4. ENTRIES - 1 \in Int /\ 0 \in Int
    BY ShapeAssumption, SMTT(30)
  <2>5. IsFiniteSet(Slots)
    BY <2>4, FS_Interval DEF Slots
  <2> QED  BY <1>1, <2>3, <2>5, FS_Product, FS_Subset
<1>3. ExistsBijection(L, U)
  <2>1. PICK M \in [L -> U] : /\ \A a, b \in L : M[a] = M[b] => a = b
                             /\ \A u \in U : \E l \in L : M[l] = u
    BY <1>1
  <2>2. M \in Injection(L, U)
    BY <2>1 DEF Injection, IsInjective
  <2>3. M \in Surjection(L, U)
    BY <2>1 DEF Surjection
  <2> QED  BY <2>2, <2>3 DEF ExistsBijection, Bijection
<1>4. IsFiniteSet(U) /\ Cardinality(U) = Cardinality(L)
  BY <1>2, <1>3, FS_Bijection
<1>5. Cardinality(UserTables(s)) = Cardinality(L) + 1 /\ Cardinality(L) \in Nat
  <2>1. Cardinality(U \cup {pml4[s]}) = Cardinality(U) + 1
    BY <1>1, <1>4, FS_AddElement
  <2> QED  BY <1>1, <1>2, <1>4, <2>1, FS_CardinalityType
<1>6. \A n \in Nat : n + 1 = 1 + n
  BY SMTT(30)
<1> QED  BY <1>5, <1>6

\* No page of the pool is lost or used twice, whatever calls failed half way: it is
\* free or a table of exactly one space, and the tables of a space are a tree.
THEOREM TablesAreAccounted == Spec => []EveryTableAccounted
<1>1. Inv => EveryTableAccounted
  BY TablesAndFree, LinksAndTables DEF EveryTableAccounted
<1> QED  BY <1>1, Invariance, PTL
====
