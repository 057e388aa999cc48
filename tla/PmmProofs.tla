------------------------------ MODULE PmmProofs ------------------------------
(***************************************************************************)
(* Proofs about Pmm and the slab cache it contains, for every set of       *)
(* pages, of request sizes and of objects: the cache's lists and totals    *)
(* are exact, every page has one owner, kfree finds that owner, and it     *)
(* refuses no block whose holder stayed in bounds.                         *)
(***************************************************************************)
EXTENDS Pmm, FiniteSetTheorems, TLAPS

\* Leaves go to Zenon unless they name the SMT solver.
USE ZenonT(30)

-----------------------------------------------------------------------------
(* Arithmetic. *)

\* A set of natural numbers has a smallest element.
LEMMA Smallest ==
  ASSUME NEW S, S \subseteq Nat, S # {}
  PROVE  \E x \in S : \A y \in S : x <= y
<1>1. PICK x \in S : \A y \in S : ~(<<y, x>> \in OpToRel(<, Nat))
  BY NatLessThanWellFounded, WFMin
<1>2. ASSUME NEW y \in S, y < x PROVE FALSE
  <2>1. <<y, x>> \in OpToRel(<, Nat)
    BY <1>2 DEF OpToRel
  <2> QED  BY <1>1, <2>1
<1>3. \A y \in S : x \in Nat /\ y \in Nat
  OBVIOUS
<1> QED  BY <1>2, <1>3, SMTT(30)

\* Block sizes: 2^n is the number of subsets of a set of n elements.
LEMMA PowerOfTwo ==
  ASSUME NEW n \in Nat
  PROVE  /\ 2^n \in Nat \ {0}
         /\ IsFiniteSet(SUBSET (1 .. n)) /\ Cardinality(SUBSET (1 .. n)) = 2^n
<1>1. IsFiniteSet(1 .. n) /\ Cardinality(1 .. n) = n
  BY FS_Interval, SMTT(30)
<1>2. IsFiniteSet(SUBSET (1 .. n)) /\ Cardinality(SUBSET (1 .. n)) = 2^n
  BY <1>1, FS_SUBSET
<1>3. 2^n \in Nat
  BY <1>2, FS_CardinalityType
<1>4. 2^n # 0
  <2>1. {} \in SUBSET (1 .. n)
    OBVIOUS
  <2> QED  BY <1>2, <2>1, FS_EmptySet
<1> QED  BY <1>2, <1>3, <1>4

LEMMA PowerOfZero == 2^0 = 1
<1>1. SUBSET (1 .. 0) = {{}}
  BY SMTT(30)
<1>2. Cardinality(SUBSET (1 .. 0)) = 2^0
  BY PowerOfTwo
<1> QED  BY <1>1, <1>2, FS_Singleton

LEMMA PowerDoubles ==
  ASSUME NEW n \in Nat
  PROVE  2^(n + 1) = 2 * 2^n
<1> DEFINE L == SUBSET (1 .. n)
           U == {T \cup {n + 1} : T \in L}
           f == [T \in L |-> T \cup {n + 1}]
<1>1. IsFiniteSet(L) /\ Cardinality(L) = 2^n /\ 2^n \in Nat
  BY PowerOfTwo
<1>2. Cardinality(SUBSET (1 .. n + 1)) = 2^(n + 1)
  BY PowerOfTwo, SMTT(30)
<1>3. \A T \in L : n + 1 \notin T
  BY SMTT(30)
<1>4. f \in Bijection(L, U)
  <2>1. f \in [L -> U] /\ \A u \in U : \E T \in L : f[T] = u
    OBVIOUS
  <2>2. \A S, T \in L : f[S] = f[T] => S = T
    BY <1>3, SMTT(30)
  <2> HIDE DEF f, L, U
  <2>3. f \in Injection(L, U)
    BY <2>1, <2>2 DEF Injection, IsInjective
  <2>4. f \in Surjection(L, U)
    BY <2>1 DEF Surjection
  <2> QED  BY <2>3, <2>4 DEF Bijection
<1>5. IsFiniteSet(U) /\ Cardinality(U) = 2^n
  BY <1>1, <1>4, FS_Bijection DEF ExistsBijection
<1>6. L \cap U = {}
  BY <1>3
<1>7. SUBSET (1 .. n + 1) = L \cup U
  <2>1. ASSUME NEW S \in SUBSET (1 .. n + 1) PROVE S \in L \cup U
    <3>1. CASE n + 1 \in S
      <4>1. S \ {n + 1} \in L /\ S = (S \ {n + 1}) \cup {n + 1}
        BY <3>1, SMTT(30)
      <4> QED  BY <4>1
    <3>2. CASE n + 1 \notin S
      BY <3>2, SMTT(30)
    <3> QED  BY <3>1, <3>2
  <2>2. ASSUME NEW S \in L \cup U PROVE S \in SUBSET (1 .. n + 1)
    BY SMTT(30)
  <2> QED  BY <2>1, <2>2
<1> HIDE DEF L, U
<1>8. Cardinality(L \cup U) = Cardinality(L) + Cardinality(U) - Cardinality(L \cap U)
  BY <1>1, <1>5, FS_Union
<1>9. Cardinality(L \cap U) = 0
  BY <1>6, FS_EmptySet
<1> DEFINE a == 2^n
           b == 2^(n + 1)
<1>10. a \in Nat /\ Cardinality(L) = a /\ Cardinality(U) = a /\ Cardinality(L \cup U) = b
  BY <1>1, <1>2, <1>5, <1>7
<1> HIDE DEF a, b
<1>11. b = 2 * a
  BY <1>8, <1>9, <1>10, SMTT(30)
<1> QED  BY <1>11 DEF a, b

\* Blocks of order 1 and above have an even number of pages.
LEMMA PowerEven ==
  ASSUME NEW n \in Nat, 2^n # 1
  PROVE  \E h \in Nat \ {0} : 2^n = 2 * h
<1>1. n # 0
  BY PowerOfZero
<1>2. n - 1 \in Nat /\ (n - 1) + 1 = n
  BY <1>1, SMTT(30)
<1>3. 2^((n - 1) + 1) = 2 * 2^(n - 1) /\ 2^(n - 1) \in Nat \ {0}
  BY <1>2, PowerDoubles, PowerOfTwo
<1> QED  BY <1>2, <1>3

LEMMA PowerOfOne == 2^1 = 2
BY PowerDoubles, PowerOfZero, SMTT(30)

\* kmalloc's loop finds an order.
LEMMA OrderExists ==
  ASSUME NEW n \in Int
  PROVE  OrderFor(n) \in 0 .. MAX_SUPPORTED_ORDER + 1
<1> DEFINE P(k) == k > MAX_SUPPORTED_ORDER \/ 2^k * PAGE_FRAME_SIZE >= n
           S == {k \in 0 .. MAX_SUPPORTED_ORDER + 1 : P(k)}
<1>1. MAX_SUPPORTED_ORDER \in Nat
  BY PmmAssumption
<1>2. MAX_SUPPORTED_ORDER + 1 \in S /\ S \subseteq Nat
  BY <1>1, SMTT(30)
<1>3. PICK k \in S : \A j \in S : k <= j
  BY <1>2, Smallest
<1>4. \A j \in 0 .. k - 1 : 2^j * PAGE_FRAME_SIZE < n
  <2> TAKE j \in 0 .. k - 1
  <2>1. j \in Nat /\ j \in 0 .. MAX_SUPPORTED_ORDER + 1 /\ ~(k <= j)
    BY <1>1, <1>3, SMTT(30)
  <2>2. ~P(j)
    BY <1>3, <2>1
  <2> DEFINE a == 2^j
  <2>3. a \in Nat
    BY <2>1, PowerOfTwo
  <2>4. ~(a * PAGE_FRAME_SIZE >= n)
    BY <2>2
  <2> HIDE DEF a
  <2>5. a * PAGE_FRAME_SIZE < n
    BY <2>3, <2>4, PmmAssumption, SMTT(30)
  <2> QED  BY <2>5 DEF a
<1> QED  BY <1>3, <1>4 DEF OrderFor

-----------------------------------------------------------------------------
(* The slab cache: lists and counts. *)

N == Cardinality(Objects)
Lists == {"full", "partial", "empty"}

\* The cardinality the instance speaks of is that of FiniteSets.
LEMMA SameCardinality == ASSUME NEW S PROVE Cache!Cardinality(S) = Cardinality(S)
  BY DEF Cardinality, Cache!Cardinality

LEMMA ObjectsPerSlab == Cache!OBJECTS_PER_SLAB = N /\ N \in Nat /\ N >= 2
<1>1. Cache!OBJECTS_PER_SLAB = N
  BY SameCardinality DEF Cache!OBJECTS_PER_SLAB, N
<1>2. IsFiniteSet(Objects) /\ Cardinality(Objects) >= 2
  BY PmmAssumption
<1>3. Cardinality(Objects) \in Nat
  BY <1>2, FS_CardinalityType
<1> QED  BY <1>1, <1>2, <1>3 DEF N

LEMMA FiniteSlabs == IsFiniteSet(Slabs)
<1>1. Slabs \in SUBSET Pages /\ IsFiniteSet(Pages)
  BY PmmAssumption DEF Slabs
<1> QED  BY <1>1, FS_Subset

\* The list a slab of n free objects belongs on.
Belongs(l, n) ==
  /\ l = "full" => n = 0
  /\ l = "partial" => n \in 1 .. N - 1
  /\ l = "empty" => n = N

\* Every slab on a list has the count that list is for, and the count is the
\* number of objects on the slab's free list.
ListsOK(ls, fl, fc) ==
  /\ ls \in [Lists -> SUBSET Slabs]
  /\ fl \in [Slabs -> SUBSET Objects]
  /\ fc \in [Slabs -> Nat]
  /\ \A s \in Slabs : fc[s] = Cardinality(fl[s])
  /\ \A l \in Lists : \A s \in ls[l] : Belongs(l, fc[s])

Listed(ls) == ls["full"] \cup ls["partial"] \cup ls["empty"]

LEMMA BelongsToOne ==
  ASSUME NEW n, NEW l \in Lists, NEW m \in Lists, Belongs(l, n), Belongs(m, n)
  PROVE  l = m
BY ObjectsPerSlab, SMTT(30) DEF Belongs, Lists

\* The slab is on one list at most.
OnOneList(ls, s) == \A m, k \in Lists : s \in ls[m] /\ s \in ls[k] => m = k

\* slab_remove_from_list and the insertion after it move a slab, and no other.
LEMMA MoveToMoves ==
  ASSUME NEW ls \in [Lists -> SUBSET Slabs], NEW s \in Slabs, NEW l \in Lists, OnOneList(ls, s)
  PROVE  /\ Cache!MoveTo(ls, s, l) \in [Lists -> SUBSET Slabs]
         /\ \A m \in Lists : Cache!MoveTo(ls, s, l)[m] =
              IF m = l THEN ls[m] \cup {s} ELSE ls[m] \ {s}
<1> DEFINE rs == Cache!slab_remove_from_list(ls, s)
<1>1. rs \in [Lists -> SUBSET Slabs] /\ \A m \in Lists : rs[m] = ls[m] \ {s}
  <2>1. CASE s \in ls["partial"]
    BY <2>1 DEF Cache!slab_remove_from_list, Lists, OnOneList
  <2>2. CASE s \notin ls["partial"] /\ s \in ls["full"]
    BY <2>2 DEF Cache!slab_remove_from_list, Lists, OnOneList
  <2>3. CASE s \notin ls["partial"] /\ s \notin ls["full"]
    BY <2>3 DEF Cache!slab_remove_from_list, Lists, OnOneList
  <2> QED  BY <2>1, <2>2, <2>3
<1>2. Cache!MoveTo(ls, s, l) = [rs EXCEPT ![l] = @ \cup {s}]
  BY DEF Cache!MoveTo
<1> HIDE DEF rs
<1>3. Cache!MoveTo(ls, s, l) \in [Lists -> SUBSET Slabs]
  BY <1>1, <1>2
<1>4. \A m \in Lists : Cache!MoveTo(ls, s, l)[m] = IF m = l THEN rs[m] \cup {s} ELSE rs[m]
  BY <1>1, <1>2
<1> QED  BY <1>1, <1>3, <1>4

\* The slab s has been moved to list l, or stays there.
Relisted(ks, ls, s, l) == ks = Cache!MoveTo(ls, s, l) \/ (ks = ls /\ s \in ls[l])

\* A slab whose count becomes n, and which is put on the list for n.
LEMMA RelistKeepsLists ==
  ASSUME NEW ls, NEW fl, NEW fc, ListsOK(ls, fl, fc),
         NEW s \in Slabs, NEW F \in SUBSET Objects, NEW n \in Nat, n = Cardinality(F),
         NEW l \in Lists, Belongs(l, n), s \in Listed(ls),
         NEW ks, Relisted(ks, ls, s, l)
  PROVE  /\ ListsOK(ks, [fl EXCEPT ![s] = F], [fc EXCEPT ![s] = n])
         /\ Listed(ks) = Listed(ls)
<1>1. OnOneList(ls, s)
  BY BelongsToOne DEF ListsOK, OnOneList
<1>2. /\ ks \in [Lists -> SUBSET Slabs]
      /\ \A m \in Lists : ks[m] = IF m = l THEN ls[m] \cup {s} ELSE ls[m] \ {s}
  <2>1. CASE ks = Cache!MoveTo(ls, s, l)
    <3>1. ls \in [Lists -> SUBSET Slabs]
      BY DEF ListsOK
    <3>2. /\ Cache!MoveTo(ls, s, l) \in [Lists -> SUBSET Slabs]
          /\ \A m \in Lists : Cache!MoveTo(ls, s, l)[m] =
               IF m = l THEN ls[m] \cup {s} ELSE ls[m] \ {s}
      BY <1>1, <3>1, MoveToMoves
    <3> QED  BY <2>1, <3>2
  <2>2. CASE ks = ls /\ s \in ls[l]
    <3>1. \A m \in Lists : m # l => s \notin ls[m]
      BY <1>1, <2>2 DEF OnOneList
    <3>2. \A m \in Lists : ls[m] = IF m = l THEN ls[m] \cup {s} ELSE ls[m] \ {s}
      BY <2>2, <3>1
    <3> QED  BY <2>2, <3>2 DEF ListsOK
  <2> QED  BY <2>1, <2>2 DEF Relisted
<1>3. \A t \in Slabs : [fc EXCEPT ![s] = n][t] = Cardinality([fl EXCEPT ![s] = F][t])
  BY DEF ListsOK
<1>4. \A m \in Lists : \A t \in ks[m] : Belongs(m, [fc EXCEPT ![s] = n][t])
  <2> TAKE m \in Lists
  <2> TAKE t \in ks[m]
  <2>1. t \in Slabs
    BY <1>2
  <2>2. CASE t = s
    <3>1. m = l
      BY <1>2, <2>2
    <3>2. [fc EXCEPT ![s] = n][t] = n
      BY <2>2 DEF ListsOK
    <3> QED  BY <3>1, <3>2
  <2>3. CASE t # s
    <3>1. t \in ls[m]
      BY <1>2, <2>3
    <3>2. [fc EXCEPT ![s] = n][t] = fc[t]
      BY <2>1, <2>3 DEF ListsOK
    <3> QED  BY <3>1, <3>2 DEF ListsOK
  <2> QED  BY <2>2, <2>3
<1>5. /\ [fl EXCEPT ![s] = F] \in [Slabs -> SUBSET Objects]
      /\ [fc EXCEPT ![s] = n] \in [Slabs -> Nat]
  BY DEF ListsOK
<1>6. ListsOK(ks, [fl EXCEPT ![s] = F], [fc EXCEPT ![s] = n])
  BY <1>2, <1>3, <1>4, <1>5 DEF ListsOK
<1>7. Listed(ks) = Listed(ls)
  BY <1>2 DEF Listed, Lists
<1> QED  BY <1>6, <1>7

\* The number of free objects of a slab is between 0 and N.
LEMMA FreeListSize ==
  ASSUME NEW F \in SUBSET Objects
  PROVE  /\ IsFiniteSet(F) /\ Cardinality(F) \in 0 .. N
         /\ Cardinality(F) = 0 <=> F = {}
         /\ \A o \in F : Cardinality(F \ {o}) = Cardinality(F) - 1
         /\ \A o \in Objects \ F : Cardinality(F \cup {o}) = Cardinality(F) + 1
<1>1. IsFiniteSet(F) /\ Cardinality(F) <= N
  BY FS_Subset, PmmAssumption DEF N
<1>2. Cardinality(F) \in Nat
  BY <1>1, FS_CardinalityType
<1>3. Cardinality(F) \in 0 .. N
  BY <1>1, <1>2, ObjectsPerSlab, SMTT(30)
<1>4. Cardinality(F) = 0 <=> F = {}
  BY <1>1, FS_EmptySet
<1>5. \A o \in F : Cardinality(F \ {o}) = Cardinality(F) - 1
  BY <1>1, FS_RemoveElement
<1>6. \A o \in Objects \ F : Cardinality(F \cup {o}) = Cardinality(F) + 1
  BY <1>1, FS_AddElement
<1> QED  BY <1>1, <1>3, <1>4, <1>5, <1>6

\* The second half of slab_alloc, on a slab of the partial or the empty list.
LEMMA TakeObjectTakes ==
  ASSUME NEW ls, NEW fl, NEW fc, ListsOK(ls, fl, fc), NEW s,
         s \in ls["partial"] \/ s \in ls["empty"],
         Cache!TakeObject(ls, fl, fc, s)
  PROVE  \E o \in fl[s] :
           /\ free_list' = [fl EXCEPT ![s] = fl[s] \ {o}]
           /\ allocated_objects' = allocated_objects + 1
           /\ objects' = objects \cup {<<s, o>>}
           /\ old_objects' = old_objects \ {<<s, o>>}
           /\ ListsOK(list', free_list', free_count')
           /\ Listed(list') = Listed(ls)
<1>1. s \in Slabs /\ s \in Listed(ls)
  BY DEF ListsOK, Lists, Listed
<1>2. fl[s] \in SUBSET Objects /\ fc[s] = Cardinality(fl[s]) /\ fc[s] \in 0 .. N
  BY <1>1, FreeListSize, SMTT(30) DEF ListsOK
<1>3. (s \in ls["partial"] => fc[s] \in 1 .. N - 1) /\ (s \in ls["empty"] => fc[s] = N)
  BY DEF ListsOK, Lists, Belongs
<1>4. N \in Nat /\ N >= 2 /\ Cache!OBJECTS_PER_SLAB = N
  BY ObjectsPerSlab
<1>5. fc[s] # 0 /\ fl[s] # {}
  BY <1>2, <1>3, <1>4, FreeListSize, SMTT(30)
<1>6. PICK o \in fl[s] :
        /\ free_list' = [fl EXCEPT ![s] = fl[s] \ {o}]
        /\ free_count' = [fc EXCEPT ![s] = fc[s] - 1]
        /\ allocated_objects' = allocated_objects + 1
        /\ list' = Cache!ListAfterAlloc(ls, s, fc[s] - 1)
        /\ objects' = objects \cup {<<s, o>>}
        /\ old_objects' = old_objects \ {<<s, o>>}
  BY <1>5 DEF Cache!TakeObject
<1> DEFINE F == fl[s] \ {o}
           n == fc[s] - 1
<1>7. F \in SUBSET Objects /\ n \in Nat /\ n = Cardinality(F) /\ n < N
  BY <1>2, <1>4, <1>5, FreeListSize, SMTT(30)
<1>8. list' = IF n = 0 THEN Cache!MoveTo(ls, s, "full")
              ELSE IF n = N - 1 THEN Cache!MoveTo(ls, s, "partial") ELSE ls
  BY <1>4, <1>6 DEF Cache!ListAfterAlloc
<1>9. \E l \in Lists : Belongs(l, n) /\ Relisted(list', ls, s, l)
  <2>1. CASE n = 0
    BY <1>8, <2>1 DEF Belongs, Lists, Relisted
  <2>2. CASE n # 0 /\ n = N - 1
    <3>1. Belongs("partial", n)
      BY <1>4, <1>7, <2>2, SMTT(30) DEF Belongs
    <3> QED  BY <1>8, <2>2, <3>1 DEF Lists, Relisted
  <2>3. CASE n # 0 /\ n # N - 1
    <3>1. s \in ls["partial"] /\ n \in 1 .. N - 1
      BY <1>2, <1>3, <1>4, <1>7, <2>3, SMTT(30)
    <3>2. Belongs("partial", n)
      BY <3>1 DEF Belongs
    <3> QED  BY <1>8, <2>3, <3>1, <3>2 DEF Lists, Relisted
  <2> QED  BY <2>1, <2>2, <2>3
<1>10. ListsOK(list', free_list', free_count') /\ Listed(list') = Listed(ls)
  <2> HIDE DEF F, n
  <2>1. free_list' = [fl EXCEPT ![s] = F] /\ free_count' = [fc EXCEPT ![s] = n]
    BY <1>6 DEF F, n
  <2>2. PICK l \in Lists : Belongs(l, n) /\ Relisted(list', ls, s, l)
    BY <1>9
  <2>3. /\ ListsOK(list', [fl EXCEPT ![s] = F], [fc EXCEPT ![s] = n])
        /\ Listed(list') = Listed(ls)
    BY <1>1, <1>7, <2>2, RelistKeepsLists, SMTT(30)
  <2> QED  BY <2>1, <2>3
<1> QED  BY <1>6, <1>10

\* slab_free, of an object that is not free.
LEMMA SlabFreeFrees ==
  ASSUME ListsOK(list, free_list, free_count), NEW s \in Slabs, NEW o \in Objects,
         s \in Listed(list), o \notin free_list[s], Cache!slab_free(s, o)
  PROVE  /\ ListsOK(list', free_list', free_count')
         /\ Listed(list') = Listed(list)
<1>1. /\ free_list[s] \in SUBSET Objects /\ free_count[s] = Cardinality(free_list[s])
  BY DEF ListsOK
<1>2. N \in Nat /\ N >= 2 /\ Cache!OBJECTS_PER_SLAB = N
  BY ObjectsPerSlab
<1> DEFINE F == free_list[s] \cup {o}
           n == free_count[s] + 1
<1>3. F \in SUBSET Objects /\ n = Cardinality(F) /\ free_count[s] \in Nat
  BY <1>1, FreeListSize, SMTT(30)
<1>4. n \in 1 .. N
  BY <1>2, <1>3, FreeListSize, SMTT(30)
<1>5. /\ free_list' = [free_list EXCEPT ![s] = F] /\ free_count' = [free_count EXCEPT ![s] = n]
      /\ list' = IF n = 1 THEN Cache!MoveTo(list, s, "partial")
                 ELSE IF n = N THEN Cache!MoveTo(list, s, "empty") ELSE list
  BY <1>2 DEF Cache!slab_free, Cache!ListAfterFree
<1>6. \E l \in Lists : Belongs(l, n) /\ Relisted(list', list, s, l)
  <2>1. CASE n = 1
    <3>1. Belongs("partial", n)
      BY <1>2, <2>1, SMTT(30) DEF Belongs
    <3> QED  BY <1>5, <2>1, <3>1 DEF Lists, Relisted
  <2>2. CASE n # 1 /\ n = N
    <3>1. Belongs("empty", n)
      BY <2>2 DEF Belongs
    <3> QED  BY <1>5, <2>2, <3>1 DEF Lists, Relisted
  <2>3. CASE n # 1 /\ n # N
    <3>1. s \in list["partial"]
      <4>1. s \in list["full"] => free_count[s] = 0
        BY DEF ListsOK, Lists, Belongs
      <4>2. s \in list["empty"] => free_count[s] = N
        BY DEF ListsOK, Lists, Belongs
      <4> QED  BY <1>2, <1>3, <1>4, <2>3, <4>1, <4>2, SMTT(30) DEF Listed
    <3>2. Belongs("partial", n)
      BY <1>2, <1>4, <2>3, SMTT(30) DEF Belongs
    <3> QED  BY <1>5, <2>3, <3>1, <3>2 DEF Lists, Relisted
  <2> QED  BY <2>1, <2>2, <2>3
<1> HIDE DEF F, n
<1>7. n \in Nat
  BY <1>4, SMTT(30)
<1>8. PICK l \in Lists : Belongs(l, n) /\ Relisted(list', list, s, l)
  BY <1>6
<1>9. /\ ListsOK(list', [free_list EXCEPT ![s] = F], [free_count EXCEPT ![s] = n])
      /\ Listed(list') = Listed(list)
  BY <1>3, <1>7, <1>8, RelistKeepsLists, SMTT(30)
<1> QED  BY <1>5, <1>9

-----------------------------------------------------------------------------
(* The slab cache: the inductive invariant. *)

\* A freed object somebody still points to is poisoned and free as long as its
\* slab exists; so a second kfree does nothing.
CacheInv ==
  /\ ListsOK(list, free_list, free_count)
  /\ objects \subseteq Slabs \X Objects
  /\ old_objects \subseteq Slabs \X Objects
  /\ refused \subseteq Slabs \X Objects
  /\ objects \cap refused = {}
  /\ \A s \in Slabs, o \in Objects :
       /\ s \in Listed(list) => (o \in free_list[s] <=> <<s, o>> \notin objects \cup refused)
       /\ s \notin Listed(list) => <<s, o>> \notin objects \cup refused
       /\ <<s, o>> \in old_objects =>
            s \in Listed(list) /\ o \in free_list[s] /\ <<s, o>> \in poisoned
  /\ total_slabs = Cardinality(Listed(list))
  /\ total_objects = total_slabs * N
  /\ allocated_objects = Cardinality(objects \cup refused)

LEMMA FiniteObjects ==
  ASSUME NEW T, T \subseteq Slabs \X Objects
  PROVE  IsFiniteSet(T) /\ Cardinality(T) \in Nat
<1>1. IsFiniteSet(Slabs \X Objects)
  BY FiniteSlabs, FS_Product, PmmAssumption
<1>2. IsFiniteSet(T)
  BY <1>1, FS_Subset
<1> QED  BY <1>2, FS_CardinalityType

LEMMA FiniteListed ==
  ASSUME NEW T, T \subseteq Slabs
  PROVE  IsFiniteSet(T) /\ Cardinality(T) \in Nat
<1>1. IsFiniteSet(T)
  BY FiniteSlabs, FS_Subset
<1> QED  BY <1>1, FS_CardinalityType

\* The invariant says what the run checks.
LEMMA CacheInvImplies == CacheInv => CacheConsistent
<1> SUFFICES ASSUME CacheInv PROVE CacheConsistent
  OBVIOUS
<1>1. Cache!InUse = Listed(list)
  BY DEF Cache!InUse, Listed
<1>2. Cache!ListsMatchCounts
  <2>1. \A s \in Slabs : free_count[s] = Cache!Cardinality(free_list[s])
    BY SameCardinality DEF CacheInv, ListsOK
  <2>2. ASSUME NEW s \in Listed(list)
        PROVE  /\ s \in list["full"] <=> free_count[s] = 0
               /\ s \in list["partial"] <=> free_count[s] \in 1 .. N - 1
               /\ s \in list["empty"] <=> free_count[s] = N
    <3>1. /\ s \in list["full"] => free_count[s] = 0
          /\ s \in list["partial"] => free_count[s] \in 1 .. N - 1
          /\ s \in list["empty"] => free_count[s] = N
      BY DEF CacheInv, ListsOK, Lists, Belongs
    <3> QED  BY <3>1, ObjectsPerSlab, SMTT(30) DEF Listed
  <2> QED  BY <1>1, <2>1, <2>2, ObjectsPerSlab DEF Cache!ListsMatchCounts
<1>3. Cache!ObjectsPartitioned
  BY <1>1 DEF Cache!ObjectsPartitioned, CacheInv
<1>4. Cache!StatisticsExact
  BY <1>1, SameCardinality, ObjectsPerSlab DEF Cache!StatisticsExact, CacheInv
<1> QED  BY <1>2, <1>3, <1>4 DEF CacheConsistent

LEMMA Distribute ==
  ASSUME NEW a \in Int, NEW b \in Int, NEW n \in Int
  PROVE  (a + b) * n = a * n + n * b
  BY SMTT(30)

LEMMA CacheInit == Cache!Init => CacheInv
<1> SUFFICES ASSUME Cache!Init PROVE CacheInv
  OBVIOUS
<1>1. list = [l \in Lists |-> {}]
  BY DEF Cache!Init, Cache!Lists, Lists
<1>2. Listed(list) = {}
  BY <1>1 DEF Listed, Lists
<1>3. ListsOK(list, free_list, free_count)
  BY <1>1, FS_EmptySet DEF ListsOK, Cache!Init
<1>4. objects = {} /\ old_objects = {} /\ refused = {}
      /\ total_slabs = 0 /\ total_objects = 0 /\ allocated_objects = 0
  BY DEF Cache!Init
<1>5. total_objects = total_slabs * N
  BY <1>4, ObjectsPerSlab, SMTT(30)
<1> QED  BY <1>2, <1>3, <1>4, <1>5, FS_EmptySet DEF CacheInv

\* An object that is taken from a slab joins the taken ones.
LEMMA OneMoreTaken ==
  ASSUME CacheInv, NEW p \in Slabs \X Objects, p \notin objects \cup refused,
         objects' = objects \cup {p}, UNCHANGED refused
  PROVE  Cardinality(objects' \cup refused') = Cardinality(objects \cup refused) + 1
<1>1. IsFiniteSet(objects \cup refused)
  BY FiniteObjects DEF CacheInv
<1>2. objects' \cup refused' = (objects \cup refused) \cup {p}
  OBVIOUS
<1> QED  BY <1>1, <1>2, FS_AddElement

LEMMA SlabAllocCache ==
  ASSUME CacheInv, Cache!slab_alloc
  PROVE  CacheInv' /\ Listed(list') = Listed(list)
<1>1. PICK s \in Cache!Usable : Cache!TakeObject(list, free_list, free_count, s)
  BY DEF Cache!slab_alloc
<1>2. s \in list["partial"] \/ s \in list["empty"]
  BY DEF Cache!Usable
<1>3. ListsOK(list, free_list, free_count)
  BY DEF CacheInv
<1>4. PICK o \in free_list[s] :
        /\ free_list' = [free_list EXCEPT ![s] = free_list[s] \ {o}]
        /\ allocated_objects' = allocated_objects + 1
        /\ objects' = objects \cup {<<s, o>>}
        /\ old_objects' = old_objects \ {<<s, o>>}
        /\ ListsOK(list', free_list', free_count')
        /\ Listed(list') = Listed(list)
  BY <1>1, <1>2, <1>3, TakeObjectTakes
<1>5. UNCHANGED <<total_objects, total_slabs, poisoned, refused>>
  BY DEF Cache!slab_alloc
<1>6. s \in Slabs /\ s \in Listed(list) /\ o \in Objects
      /\ free_list \in [Slabs -> SUBSET Objects]
  BY <1>2, <1>3 DEF ListsOK, Lists, Listed
<1>7. <<s, o>> \notin objects \cup refused /\ <<s, o>> \in Slabs \X Objects
  BY <1>6 DEF CacheInv
<1>8. allocated_objects' = Cardinality(objects' \cup refused')
  BY <1>4, <1>5, <1>7, OneMoreTaken DEF CacheInv
<1>9. \A t \in Slabs, x \in Objects :
        /\ t \in Listed(list) => (x \in free_list'[t] <=> <<t, x>> \notin objects' \cup refused')
        /\ t \notin Listed(list) => <<t, x>> \notin objects' \cup refused'
        /\ <<t, x>> \in old_objects' =>
             t \in Listed(list) /\ x \in free_list'[t] /\ <<t, x>> \in poisoned'
  <2> TAKE t \in Slabs, x \in Objects
  <2>1. /\ t \in Listed(list) => (x \in free_list[t] <=> <<t, x>> \notin objects \cup refused)
        /\ t \notin Listed(list) => <<t, x>> \notin objects \cup refused
        /\ <<t, x>> \in old_objects =>
             t \in Listed(list) /\ x \in free_list[t] /\ <<t, x>> \in poisoned
    BY DEF CacheInv
  <2>2. x \in free_list'[t] <=> x \in free_list[t] /\ <<t, x>> # <<s, o>>
    BY <1>4, <1>6
  <2> QED  BY <1>4, <1>5, <1>6, <2>1, <2>2
<1> QED
  BY <1>4, <1>5, <1>6, <1>7, <1>8, <1>9, SMTT(30) DEF CacheInv

LEMMA SlabCreateCache ==
  ASSUME CacheInv, NEW s \in Slabs, Cache!slab_create(s)
  PROVE  CacheInv' /\ Listed(list') = Listed(list) \cup {s} /\ s \notin Listed(list)
<1> DEFINE ls == [list EXCEPT !["empty"] = @ \cup {s}]
           fl == [free_list EXCEPT ![s] = Objects]
           fc == [free_count EXCEPT ![s] = N]
<1>0. N \in Nat /\ N >= 2 /\ Cache!OBJECTS_PER_SLAB = N
  BY ObjectsPerSlab
<1>1. /\ Cache!TakeObject(ls, fl, fc, s) /\ UNCHANGED refused
      /\ total_slabs' = total_slabs + 1 /\ total_objects' = total_objects + N
      /\ poisoned' \in {poisoned, poisoned \ Cache!ObjectsOf(s)}
  BY <1>0 DEF Cache!slab_create
<1>2. s \notin Listed(list)
  BY DEF Cache!slab_create, Cache!InUse, Listed
<1>3. ListsOK(list, free_list, free_count)
  BY DEF CacheInv
<1>4. /\ ls \in [Lists -> SUBSET Slabs]
      /\ \A l \in Lists : ls[l] = IF l = "empty" THEN list[l] \cup {s} ELSE list[l]
  BY <1>3 DEF ListsOK, Lists
<1>5. /\ fl \in [Slabs -> SUBSET Objects] /\ fc \in [Slabs -> Nat]
      /\ \A t \in Slabs : /\ fl[t] = IF t = s THEN Objects ELSE free_list[t]
                          /\ fc[t] = IF t = s THEN N ELSE free_count[t]
  BY <1>0, <1>3 DEF ListsOK
<1> HIDE DEF ls, fl, fc
<1>6. \A t \in Slabs : fc[t] = Cardinality(fl[t])
  BY <1>3, <1>5 DEF ListsOK, N
<1>7. \A l \in Lists : \A t \in ls[l] : Belongs(l, fc[t])
  <2> TAKE l \in Lists
  <2> TAKE t \in ls[l]
  <2>1. CASE t = s
    <3>1. l = "empty"
      BY <1>2, <1>4, <2>1 DEF Listed, Lists
    <3> QED  BY <1>5, <2>1, <3>1 DEF Belongs
  <2>2. CASE t # s
    <3>1. t \in list[l] /\ t \in Slabs
      BY <1>4, <2>2
    <3>2. Belongs(l, free_count[t])
      BY <1>3, <3>1 DEF ListsOK
    <3> QED  BY <1>5, <2>2, <3>1, <3>2
  <2> QED  BY <2>1, <2>2
<1>8. ListsOK(ls, fl, fc) /\ s \in ls["empty"] /\ Listed(ls) = Listed(list) \cup {s}
  BY <1>4, <1>5, <1>6, <1>7 DEF ListsOK, Listed, Lists
<1>9. PICK o \in fl[s] :
        /\ free_list' = [fl EXCEPT ![s] = fl[s] \ {o}]
        /\ allocated_objects' = allocated_objects + 1
        /\ objects' = objects \cup {<<s, o>>}
        /\ old_objects' = old_objects \ {<<s, o>>}
        /\ ListsOK(list', free_list', free_count')
        /\ Listed(list') = Listed(ls)
  BY <1>1, <1>8, TakeObjectTakes
<1>10. o \in Objects /\ <<s, o>> \in Slabs \X Objects /\ <<s, o>> \notin objects \cup refused
  BY <1>2, <1>5 DEF CacheInv
<1>11. allocated_objects' = Cardinality(objects' \cup refused')
  BY <1>1, <1>9, <1>10, OneMoreTaken DEF CacheInv
<1>12. \A t \in Slabs, x \in Objects :
        /\ t \in Listed(list') => (x \in free_list'[t] <=> <<t, x>> \notin objects' \cup refused')
        /\ t \notin Listed(list') => <<t, x>> \notin objects' \cup refused'
        /\ <<t, x>> \in old_objects' =>
             t \in Listed(list') /\ x \in free_list'[t] /\ <<t, x>> \in poisoned'
  <2> TAKE t \in Slabs, x \in Objects
  <2>1. /\ t \in Listed(list) => (x \in free_list[t] <=> <<t, x>> \notin objects \cup refused)
        /\ t \notin Listed(list) => <<t, x>> \notin objects \cup refused
        /\ <<t, x>> \in old_objects =>
             t \in Listed(list) /\ x \in free_list[t] /\ <<t, x>> \in poisoned
    BY DEF CacheInv
  <2>2. t \in Listed(list') <=> t = s \/ t \in Listed(list)
    BY <1>8, <1>9
  <2>3. CASE t = s
    <3>1. x \in free_list'[t] <=> x # o
      BY <1>5, <1>9, <2>3
    <3>2. <<t, x>> \in objects' \cup refused' <=> x = o
      BY <1>1, <1>2, <1>9, <2>1, <2>3
    <3>3. <<t, x>> \notin old_objects'
      BY <1>2, <1>9, <2>1, <2>3
    <3> QED  BY <2>2, <2>3, <3>1, <3>2, <3>3
  <2>4. CASE t # s
    <3>1. free_list'[t] = free_list[t]
      BY <1>5, <1>9, <2>4
    <3>2. <<t, x>> \in objects' \cup refused' <=> <<t, x>> \in objects \cup refused
      BY <1>1, <1>9, <2>4
    <3>3. /\ <<t, x>> \in old_objects' <=> <<t, x>> \in old_objects
          /\ <<t, x>> \in poisoned => <<t, x>> \in poisoned'
      BY <1>1, <1>9, <2>4 DEF Cache!ObjectsOf
    <3> QED  BY <2>1, <2>2, <2>4, <3>1, <3>2, <3>3
  <2> QED  BY <2>3, <2>4
<1>13. total_slabs' = Cardinality(Listed(list')) /\ total_objects' = total_slabs' * N
  <2>1. Listed(list) \subseteq Slabs
    BY <1>3 DEF ListsOK, Lists, Listed
  <2>2. IsFiniteSet(Listed(list)) /\ Cardinality(Listed(list)) \in Nat
    BY <2>1, FiniteListed
  <2>3. Cardinality(Listed(list')) = Cardinality(Listed(list)) + 1
    <3>1. Listed(list') = Listed(list) \cup {s}
      BY <1>8, <1>9
    <3> QED  BY <1>2, <2>2, <3>1, FS_AddElement
  <2>4. total_slabs = Cardinality(Listed(list)) /\ total_objects = total_slabs * N
    BY DEF CacheInv
  <2>5. (total_slabs + 1) * N = total_slabs * N + N * 1
    <3>1. total_slabs \in Int /\ 1 \in Int /\ N \in Int
      BY <1>0, <2>2, <2>4, SMTT(30)
    <3> QED  BY <3>1, Distribute
  <2>6. total_objects' = (total_slabs + 1) * N
    BY <1>0, <1>1, <2>4, <2>5, SMTT(30)
  <2> QED  BY <1>1, <2>3, <2>4, <2>6
<1>14. CacheInv'
  BY <1>1, <1>9, <1>10, <1>11, <1>12, <1>13 DEF CacheInv
<1> QED  BY <1>2, <1>8, <1>9, <1>14

\* kfree of an object: refused, or put back on its slab's free list.
LEMMA KfreeCache ==
  ASSUME CacheInv, NEW s \in Slabs, NEW o \in Objects, Cache!kfree(s, o)
  PROVE  CacheInv' /\ Listed(list') = Listed(list)
<1> DEFINE p == <<s, o>>
<1>1. p \in objects /\ objects' = objects \ {p} /\ UNCHANGED <<total_objects, total_slabs>>
      /\ p \in Slabs \X Objects
  BY DEF Cache!kfree
<1>2. s \in Listed(list) /\ o \notin free_list[s] /\ p \notin refused
  BY <1>1 DEF CacheInv
<1>3. CASE p \in poisoned
  <2>1. /\ refused' = refused \cup {p}
        /\ UNCHANGED <<list, free_list, free_count, allocated_objects, poisoned, old_objects>>
    BY <1>3 DEF Cache!kfree
  <2>2. objects' \cup refused' = objects \cup refused
    BY <1>1, <2>1
  <2>3. /\ objects' \subseteq Slabs \X Objects /\ refused' \subseteq Slabs \X Objects
        /\ objects' \cap refused' = {}
    BY <1>1, <2>1 DEF CacheInv
  <2> QED  BY <1>1, <2>1, <2>2, <2>3 DEF CacheInv
<1>4. CASE p \notin poisoned
  <2>1. Cache!slab_free(s, o) /\ UNCHANGED refused
    BY <1>4 DEF Cache!kfree
  <2>2. ListsOK(list', free_list', free_count') /\ Listed(list') = Listed(list)
    BY <1>2, <2>1, SlabFreeFrees DEF CacheInv
  <2>3. /\ poisoned' = poisoned \cup {p} /\ old_objects' = old_objects \cup {p}
        /\ allocated_objects' = allocated_objects - 1
        /\ free_list \in [Slabs -> SUBSET Objects]
        /\ free_list' = [free_list EXCEPT ![s] = @ \cup {o}]
    BY <2>1 DEF Cache!slab_free, CacheInv, ListsOK
  <2>4. allocated_objects' = Cardinality(objects' \cup refused')
    <3>1. IsFiniteSet(objects \cup refused)
      BY FiniteObjects DEF CacheInv
    <3>2. objects' \cup refused' = (objects \cup refused) \ {p}
      BY <1>1, <1>2, <2>1
    <3>3. p \in objects \cup refused
      BY <1>1
    <3>4. Cardinality(objects' \cup refused') = Cardinality(objects \cup refused) - 1
      BY <3>1, <3>2, <3>3, FS_RemoveElement
    <3> QED  BY <2>3, <3>4 DEF CacheInv
  <2>5. \A t \in Slabs, x \in Objects :
          /\ t \in Listed(list) => (x \in free_list'[t] <=> <<t, x>> \notin objects' \cup refused')
          /\ t \notin Listed(list) => <<t, x>> \notin objects' \cup refused'
          /\ <<t, x>> \in old_objects' =>
               t \in Listed(list) /\ x \in free_list'[t] /\ <<t, x>> \in poisoned'
    <3> TAKE t \in Slabs, x \in Objects
    <3>1. /\ t \in Listed(list) => (x \in free_list[t] <=> <<t, x>> \notin objects \cup refused)
          /\ t \notin Listed(list) => <<t, x>> \notin objects \cup refused
          /\ <<t, x>> \in old_objects =>
               t \in Listed(list) /\ x \in free_list[t] /\ <<t, x>> \in poisoned
      BY DEF CacheInv
    <3>2. x \in free_list'[t] <=> x \in free_list[t] \/ <<t, x>> = p
      BY <2>3
    <3> QED  BY <1>1, <1>2, <2>1, <2>3, <3>1, <3>2
  <2> QED  BY <1>1, <2>1, <2>2, <2>3, <2>4, <2>5 DEF CacheInv
<1> QED  BY <1>3, <1>4

\* A second kfree finds the poison and changes nothing.
LEMMA KfreeAgainCache ==
  ASSUME CacheInv, NEW s \in Slabs, NEW o \in Objects, Cache!kfree_again(s, o)
  PROVE  CacheInv' /\ Listed(list') = Listed(list)
<1>1. <<s, o>> \in poisoned
  BY DEF Cache!kfree_again, CacheInv
<1>2. UNCHANGED <<list, free_list, free_count, total_objects, allocated_objects, total_slabs,
                  poisoned, objects, old_objects, refused>>
  BY <1>1 DEF Cache!kfree_again
<1> QED  BY <1>2 DEF CacheInv

\* A holder's write touches no freed object.
LEMMA WriteCache ==
  ASSUME CacheInv, NEW s \in Slabs, NEW o \in Objects, Cache!Write(s, o)
  PROVE  CacheInv' /\ Listed(list') = Listed(list)
<1>1. /\ poisoned' = poisoned \ {<<s, o>>} /\ <<s, o>> \in objects
      /\ UNCHANGED <<list, free_list, free_count, total_objects, allocated_objects, total_slabs,
                     objects, old_objects, refused>>
  BY DEF Cache!Write
<1>2. <<s, o>> \notin old_objects
  BY <1>1 DEF CacheInv
<1>3. \A t \in Slabs, x \in Objects : <<t, x>> \in old_objects => <<t, x>> \in poisoned'
  BY <1>1, <1>2 DEF CacheInv
<1> QED  BY <1>1, <1>3 DEF CacheInv

\* slab_cache_shrink destroys only slabs all of whose objects are free.
LEMMA ShrinkCache ==
  ASSUME CacheInv, NEW gone \in SUBSET Slabs, Cache!slab_cache_shrink(gone)
  PROVE  CacheInv' /\ Listed(list') = Listed(list) \ gone /\ gone \subseteq Listed(list)
<1>0. N \in Nat /\ N >= 2 /\ Cache!OBJECTS_PER_SLAB = N
  BY ObjectsPerSlab
<1>1. /\ gone \subseteq list["empty"] /\ list' = [l \in Lists |-> list[l] \ gone]
      /\ UNCHANGED <<allocated_objects, poisoned, objects, refused>>
  BY DEF Cache!slab_cache_shrink, Cache!Destroyable, Cache!Lists, Lists
<1>2. /\ free_list' = [s \in Slabs |-> IF s \in gone THEN {} ELSE free_list[s]]
      /\ free_count' = [s \in Slabs |-> IF s \in gone THEN 0 ELSE free_count[s]]
      /\ total_slabs' = total_slabs - Cardinality(gone)
      /\ total_objects' = total_objects - N * Cardinality(gone)
      /\ old_objects' = {p \in old_objects : p[1] \notin gone}
  BY <1>0, SameCardinality DEF Cache!slab_cache_shrink, Cache!DestroyAll
<1>3. ListsOK(list, free_list, free_count)
  BY DEF CacheInv
<1>4. gone \subseteq Listed(list) /\ Listed(list') = Listed(list) \ gone
  BY <1>1 DEF Listed, Lists
<1>5. \A s \in gone : free_count[s] = N /\ free_list[s] = Objects
  <2> TAKE s \in gone
  <2>1. free_count[s] = N
    BY <1>1, <1>3 DEF ListsOK, Lists, Belongs
  <2>2. free_list[s] \in SUBSET Objects /\ Cardinality(free_list[s]) = Cardinality(Objects)
    BY <1>3, <2>1 DEF ListsOK, N
  <2> QED  BY <2>1, <2>2, FS_Subset, PmmAssumption
<1>6. ListsOK(list', free_list', free_count')
  <2>1. list' \in [Lists -> SUBSET Slabs] /\ free_list' \in [Slabs -> SUBSET Objects]
        /\ free_count' \in [Slabs -> Nat]
    BY <1>1, <1>2, <1>3 DEF ListsOK
  <2>2. \A s \in Slabs : free_count'[s] = Cardinality(free_list'[s])
    BY <1>2, <1>3, FS_EmptySet DEF ListsOK
  <2>3. \A l \in Lists : \A s \in list'[l] :
          s \in list[l] /\ s \in Slabs /\ free_count'[s] = free_count[s]
    BY <1>1, <1>2, <1>3 DEF ListsOK
  <2>4. \A l \in Lists : \A s \in list'[l] : Belongs(l, free_count'[s])
    BY <1>3, <2>3 DEF ListsOK
  <2> QED  BY <2>1, <2>2, <2>4 DEF ListsOK
<1>7. \A t \in Slabs, x \in Objects :
        /\ t \in Listed(list') => (x \in free_list'[t] <=> <<t, x>> \notin objects' \cup refused')
        /\ t \notin Listed(list') => <<t, x>> \notin objects' \cup refused'
        /\ <<t, x>> \in old_objects' =>
             t \in Listed(list') /\ x \in free_list'[t] /\ <<t, x>> \in poisoned'
  <2> TAKE t \in Slabs, x \in Objects
  <2>1. /\ t \in Listed(list) => (x \in free_list[t] <=> <<t, x>> \notin objects \cup refused)
        /\ t \notin Listed(list) => <<t, x>> \notin objects \cup refused
        /\ <<t, x>> \in old_objects =>
             t \in Listed(list) /\ x \in free_list[t] /\ <<t, x>> \in poisoned
    BY DEF CacheInv
  <2>2. <<t, x>> \in old_objects' => <<t, x>> \in old_objects /\ t \notin gone
    BY <1>2
  <2> QED  BY <1>1, <1>2, <1>4, <1>5, <2>1, <2>2
<1>8. total_slabs' = Cardinality(Listed(list')) /\ total_objects' = total_slabs' * N
  <2>1. Listed(list) \subseteq Slabs
    BY <1>3 DEF ListsOK, Lists, Listed
  <2>2. /\ IsFiniteSet(Listed(list)) /\ Cardinality(Listed(list)) \in Nat
        /\ Cardinality(gone) \in Nat
    BY <2>1, FiniteListed
  <2>3. Listed(list) \cap gone = gone
    BY <1>4
  <2>4. Cardinality(Listed(list')) = Cardinality(Listed(list)) - Cardinality(gone)
    BY <1>4, <2>2, <2>3, FS_Difference
  <2>5. total_slabs = Cardinality(Listed(list)) /\ total_objects = total_slabs * N
    BY DEF CacheInv
  <2> DEFINE c == Cardinality(gone)
  <2>6. (total_slabs + (-c)) * N = total_slabs * N + N * (-c)
    BY <1>0, <2>2, <2>5, Distribute, SMTT(30)
  <2>7. c \in Nat /\ total_slabs \in Nat
    BY <2>2, <2>5
  <2>8. total_objects' = total_objects - N * c /\ total_slabs' = total_slabs - c
    BY <1>2
  <2> HIDE DEF c
  <2>9. total_objects' = total_slabs' * N
    <3>1. N * (-c) = -(N * c) /\ total_slabs + (-c) = total_slabs - c /\ N * c \in Nat
      BY <1>0, <2>7, SMTT(30)
    <3> QED  BY <1>0, <2>5, <2>6, <2>7, <2>8, <3>1
  <2> QED  BY <1>2, <2>4, <2>5, <2>9
<1>9. CacheInv'
  BY <1>1, <1>2, <1>6, <1>7, <1>8 DEF CacheInv
<1> QED  BY <1>4, <1>9

-----------------------------------------------------------------------------
(* Who owns which pages. *)

\* A page is in its own block, and blocks are what the pool calls pieces.
LEMMA BlockPagesFacts ==
  ASSUME NEW b \in Nat, NEW k \in Nat
  PROVE  /\ b \in BlockPages(b, k)
         /\ \A p \in BlockPages(b, k) : p \in Int /\ b <= p
         /\ Pool!Piece(Block(b, k)) = BlockPages(b, k)
         /\ Block(b, k).addr = b
<1> DEFINE z == 2^k
<1>1. z \in Nat \ {0}
  BY PowerOfTwo
<1>2. BlockPages(b, k) = b .. b + z - 1
  BY DEF BlockPages
<1>3. Block(b, k).addr = b /\ Block(b, k).size = z
  BY DEF Block
<1>4. Pool!Piece(Block(b, k)) = BlockPages(b, k)
  BY <1>3, <1>2 DEF Pool!Piece
<1> HIDE DEF z
<1> QED  BY <1>1, <1>2, <1>3, <1>4, SMTT(30)

\* O is the set of first pages of the blocks that are not available, ord their
\* orders, av the available pages and hd the pieces the pool has handed out.
Layout(O, ord, av, hd) ==
  /\ O \subseteq Pages
  /\ ord \in [O -> Nat]
  /\ \A b \in O : BlockPages(b, ord[b]) \subseteq Pages
  /\ \A b, c \in O : b # c => BlockPages(b, ord[b]) \cap BlockPages(c, ord[c]) = {}
  /\ av = Pages \ UNION {BlockPages(b, ord[b]) : b \in O}
  /\ hd = {Block(b, ord[b]) : b \in O}

LEMMA PagesAreNat == \A p \in Pages : p \in Nat
  BY PmmAssumption

LEMMA LayoutGrant ==
  ASSUME NEW O, NEW ord, NEW av, NEW hd, Layout(O, ord, av, hd),
         NEW n \in Pages, NEW k \in Nat, BlockPages(n, k) \subseteq av,
         NEW ord2, ord2 \in [O \cup {n} -> Nat], ord2[n] = k, \A b \in O : ord2[b] = ord[b]
  PROVE  /\ Layout(O \cup {n}, ord2, av \ BlockPages(n, k), hd \cup {Block(n, k)})
         /\ n \notin O
<1>1. n \in Nat /\ n \in BlockPages(n, k)
  BY PagesAreNat, BlockPagesFacts
<1>2. \A b \in O : BlockPages(b, ord[b]) \cap BlockPages(n, k) = {}
  BY DEF Layout
<1>3. n \notin O
  <2> SUFFICES ASSUME n \in O PROVE FALSE
    OBVIOUS
  <2>1. ord[n] \in Nat
    BY DEF Layout
  <2>2. n \in BlockPages(n, ord[n])
    BY <1>1, <2>1, BlockPagesFacts
  <2> QED  BY <1>1, <1>2, <2>2
<1>4. \A b \in O \cup {n} : BlockPages(b, ord2[b]) \subseteq Pages
  BY DEF Layout
<1>5. \A b, c \in O \cup {n} : b # c => BlockPages(b, ord2[b]) \cap BlockPages(c, ord2[c]) = {}
  BY <1>2 DEF Layout
<1>6. av \ BlockPages(n, k) = Pages \ UNION {BlockPages(b, ord2[b]) : b \in O \cup {n}}
  BY SMTT(30) DEF Layout
<1>7. hd \cup {Block(n, k)} = {Block(b, ord2[b]) : b \in O \cup {n}}
  BY SMTT(30) DEF Layout
<1>8. O \cup {n} \subseteq Pages
  BY DEF Layout
<1> QED  BY <1>3, <1>4, <1>5, <1>6, <1>7, <1>8 DEF Layout

LEMMA LayoutRelease ==
  ASSUME NEW O, NEW ord, NEW av, NEW hd, Layout(O, ord, av, hd),
         NEW R \in SUBSET O,
         NEW ord2, ord2 \in [O \ R -> Nat], \A b \in O \ R : ord2[b] = ord[b]
  PROVE  Layout(O \ R, ord2, av \cup UNION {BlockPages(b, ord[b]) : b \in R},
                hd \ {Block(b, ord[b]) : b \in R})
<1>1. \A b \in O \ R : BlockPages(b, ord2[b]) \subseteq Pages
  BY DEF Layout
<1>2. \A b, c \in O \ R : b # c => BlockPages(b, ord2[b]) \cap BlockPages(c, ord2[c]) = {}
  BY DEF Layout
<1>3. av \cup UNION {BlockPages(b, ord[b]) : b \in R} =
        Pages \ UNION {BlockPages(b, ord2[b]) : b \in O \ R}
  <2>1. UNION {BlockPages(b, ord2[b]) : b \in O \ R} =
          UNION {BlockPages(b, ord[b]) : b \in O \ R}
    OBVIOUS
  <2> QED  BY <2>1, SMTT(30) DEF Layout
<1>4. hd \ {Block(b, ord[b]) : b \in R} = {Block(b, ord2[b]) : b \in O \ R}
  <2>1. \A b, c \in O : b # c => Block(b, ord[b]) # Block(c, ord[c])
    <3> TAKE b, c \in O
    <3>1. Block(b, ord[b]).addr = b /\ Block(c, ord[c]).addr = c
      BY DEF Block
    <3> QED  BY <3>1
  <2> QED  BY <2>1, SMTT(30) DEF Layout
<1>5. O \ R \subseteq Pages
  BY DEF Layout
<1> QED  BY <1>1, <1>2, <1>3, <1>4, <1>5 DEF Layout

-----------------------------------------------------------------------------
(* The pool of pages: the inductive invariant. *)

Words == {"alloc", "freed", "link", "data", "slab"}

\* The first pages of the blocks that are not available, and their orders.
Owned == raw \cup live \cup lost \cup Listed(list)
OrderAt(b) == IF b \in raw THEN 0 ELSE IF b \in Listed(list) THEN 1 ELSE order_of(size[b])
OrdOf == [b \in Owned |-> OrderAt(b)]

\* A block that was freed, and not been handed out since, is available and does
\* not start with ALLOC_MAGIC; so a second kfree gives nothing back.
PoolInv ==
  /\ open = TRUE
  /\ word \in [Pages -> Words]
  /\ size \in [Pages -> Sizes \cup {0}]
  /\ raw \cap live = {} /\ raw \cap lost = {} /\ raw \cap Listed(list) = {}
  /\ live \cap lost = {} /\ live \cap Listed(list) = {} /\ lost \cap Listed(list) = {}
  /\ \A b \in live \cup lost : size[b] \in Sizes
  /\ Layout(Owned, OrdOf, avail, held)
  /\ ~misfreed
  /\ \A b \in dangling : b \in avail /\ word[b] # "alloc"

LEMMA OrderOfType ==
  ASSUME NEW sz \in Sizes \cup {0}
  PROVE  order_of(sz) \in 0 .. MAX_SUPPORTED_ORDER + 1 /\ order_of(sz) \in Nat
<1>1. HeaderSize + sz + MagicCounted \in Int
  BY PmmAssumption, SMTT(30)
<1>2. order_of(sz) \in 0 .. MAX_SUPPORTED_ORDER + 1
  BY <1>1, OrderExists DEF order_of
<1> QED  BY <1>2, PmmAssumption, SMTT(30)

LEMMA RelinkType ==
  ASSUME NEW w \in [Pages -> Words], NEW free
  PROVE  Relink(w, free) \in [Pages -> Words]
BY DEF Relink, Words

\* Relinking writes no word but the link.
LEMMA RelinkWords ==
  ASSUME NEW w, NEW free, NEW p \in Pages
  PROVE  Relink(w, free)[p] = w[p] \/ Relink(w, free)[p] = "link"
BY DEF Relink

LEMMA OwnedFacts ==
  ASSUME PoolInv
  PROVE  /\ avail \subseteq Pages
         /\ \A b \in Owned : /\ b \in Pages /\ b \in Nat /\ OrderAt(b) \in Nat
                             /\ OrdOf[b] = OrderAt(b)
                             /\ b \in BlockPages(b, OrderAt(b))
                             /\ BlockPages(b, OrderAt(b)) \cap avail = {}
                             /\ b \notin avail
<1>1. Layout(Owned, OrdOf, avail, held)
  BY DEF PoolInv
<1>2. avail \subseteq Pages /\ Owned \subseteq Pages /\ OrdOf \in [Owned -> Nat]
  BY <1>1 DEF Layout
<1>3. \A b \in Owned : OrdOf[b] = OrderAt(b)
  BY DEF OrdOf
<1> SUFFICES ASSUME NEW b \in Owned
             PROVE  b \in BlockPages(b, OrderAt(b)) /\ BlockPages(b, OrderAt(b)) \cap avail = {}
  BY <1>2, <1>3, PagesAreNat
<1>4. b \in Nat /\ OrdOf[b] \in Nat
  BY <1>2, PagesAreNat
<1>5. b \in BlockPages(b, OrdOf[b])
  BY <1>4, BlockPagesFacts
<1>6. BlockPages(b, OrdOf[b]) \cap avail = {}
  BY <1>1 DEF Layout
<1> QED  BY <1>3, <1>5, <1>6

\* buddy_alloc_pages takes the lower end of a free block that is large enough.
LEMMA GrantedBlock ==
  ASSUME avail \subseteq Pages, NEW k \in Nat, NEW n \in Grantable(k)
  PROVE  /\ n \in Pages /\ n \in Nat /\ BlockPages(n, k) \subseteq avail
         /\ \E j \in Orders : n \in FreeAt(avail, j) /\ 2^j >= 2^k
<1>1. PICK x \in FreeBlocks(avail) : x.size >= 2^k /\ x.addr = n
  BY DEF Grantable
<1>2. PICK j \in Orders : \E q \in FreeAt(avail, j) : x = Block(q, j)
  BY DEF FreeBlocks
<1>3. n \in FreeAt(avail, j) /\ x.size = 2^j
  BY <1>1, <1>2, SMTT(30) DEF Block
<1>4. j \in Nat
  BY PmmAssumption, SMTT(30) DEF Orders
<1> DEFINE y == 2^j
           z == 2^k
<1>5. y \in Nat /\ z \in Nat /\ y >= z
  BY <1>1, <1>3, <1>4, PowerOfTwo
<1>6. n \in avail /\ BlockPages(n, j) \subseteq avail /\ n \in Pages /\ n \in Nat
  BY <1>3, PagesAreNat DEF FreeAt
<1>7. BlockPages(n, j) = n .. n + y - 1 /\ BlockPages(n, k) = n .. n + z - 1
  BY DEF BlockPages
<1>8. BlockPages(n, k) \subseteq BlockPages(n, j)
  <2> HIDE DEF y, z
  <2> QED  BY <1>5, <1>6, <1>7, SMTT(30)
<1> QED  BY <1>1, <1>3, <1>6, <1>8

LEMMA MultipleOfEven ==
  ASSUME NEW a \in Nat, NEW h \in Nat \ {0}, a % (2 * h) = 0
  PROVE  a % 2 = 0
<1> DEFINE q == a \div (2 * h)
<1>1. 2 * h \in Nat \ {0}
  BY SMTT(30)
<1>2. q \in Nat /\ a = (2 * h) * q
  BY <1>1, SMTT(30)
<1> HIDE DEF q
<1>3. a = 2 * (h * q) /\ h * q \in Nat
  BY <1>2, SMTT(30)
<1> QED  BY <1>3, SMTT(30)

\* The first page of a free block of more than one page is even.
LEMMA FreeAtEven ==
  ASSUME NEW j \in Orders, NEW n \in FreeAt(avail, j), n \in Nat, 2^j # 1
  PROVE  n % 2 = 0
<1>1. j \in Nat
  BY PmmAssumption, SMTT(30) DEF Orders
<1>2. PICK h \in Nat \ {0} : 2^j = 2 * h
  BY <1>1, PowerEven
<1>3. n % 2^j = 0
  BY DEF FreeAt
<1> QED  BY <1>2, <1>3, MultipleOfEven

LEMMA GrantedSlab ==
  ASSUME avail \subseteq Pages, NEW n \in Grantable(1)
  PROVE  n \in Slabs /\ BlockPages(n, 1) = {n, n + 1}
<1>1. n \in Pages /\ n \in Nat /\ BlockPages(n, 1) \subseteq avail
  BY GrantedBlock
<1>2. PICK j \in Orders : n \in FreeAt(avail, j) /\ 2^j >= 2^1
  BY GrantedBlock
<1>3. 2^j # 1
  BY <1>2, PowerOfOne, SMTT(30)
<1>4. n % 2 = 0
  BY <1>1, <1>2, <1>3, FreeAtEven
<1>5. BlockPages(n, 1) = {n, n + 1}
  <2>1. BlockPages(n, 1) = n .. n + 2 - 1
    BY PowerOfOne DEF BlockPages
  <2> QED  BY <1>1, <2>1, SMTT(30)
<1> QED  BY <1>1, <1>4, <1>5 DEF Slabs

LEMMA GrantKeepsLayout ==
  ASSUME PoolInv, NEW n \in Pages, NEW k \in Nat, Pool!Grant(Block(n, k)),
         Owned' = Owned \cup {n}, OrderAt(n)' = k,
         \A b \in Owned : OrderAt(b)' = OrderAt(b)
  PROVE  /\ Layout(Owned', OrdOf', avail', held')
         /\ open' = TRUE
<1>1. Pool!Piece(Block(n, k)) = BlockPages(n, k)
  BY PagesAreNat, BlockPagesFacts
<1>2. /\ open' = open /\ BlockPages(n, k) \subseteq avail
      /\ avail' = avail \ BlockPages(n, k) /\ held' = held \cup {Block(n, k)}
  BY <1>1 DEF Pool!Grant
<1>3. Layout(Owned, OrdOf, avail, held) /\ open = TRUE
  BY DEF PoolInv
<1>4. OrdOf' = [b \in Owned \cup {n} |-> OrderAt(b)']
  BY DEF OrdOf
<1>5. /\ OrdOf' \in [Owned \cup {n} -> Nat] /\ OrdOf'[n] = k
      /\ \A b \in Owned : OrdOf'[b] = OrdOf[b]
  BY <1>4, OwnedFacts
<1> HIDE DEF Owned, OrdOf, OrderAt
<1>6. Layout(Owned \cup {n}, OrdOf', avail \ BlockPages(n, k), held \cup {Block(n, k)})
  BY <1>2, <1>3, <1>5, LayoutGrant, SMTT(30)
<1> QED  BY <1>2, <1>3, <1>6

LEMMA ReleaseKeepsLayout ==
  ASSUME PoolInv, NEW R \in SUBSET Owned,
         avail' = avail \cup UNION {BlockPages(b, OrderAt(b)) : b \in R},
         held' = held \ {Block(b, OrderAt(b)) : b \in R},
         Owned' = Owned \ R,
         \A b \in Owned \ R : OrderAt(b)' = OrderAt(b)
  PROVE  Layout(Owned', OrdOf', avail', held')
<1>1. Layout(Owned, OrdOf, avail, held)
  BY DEF PoolInv
<1>2. OrdOf' = [b \in Owned \ R |-> OrderAt(b)']
  BY DEF OrdOf
<1>3. /\ OrdOf' \in [Owned \ R -> Nat]
      /\ \A b \in Owned \ R : OrdOf'[b] = OrdOf[b]
  BY <1>2, OwnedFacts
<1>4. \A b \in R : OrdOf[b] = OrderAt(b)
  BY OwnedFacts
<1> HIDE DEF Owned, OrdOf, OrderAt
<1>5. Layout(Owned \ R, OrdOf', avail \cup UNION {BlockPages(b, OrdOf[b]) : b \in R},
             held \ {Block(b, OrdOf[b]) : b \in R})
  BY <1>1, <1>3, LayoutRelease, SMTT(30)
<1>6. /\ UNION {BlockPages(b, OrdOf[b]) : b \in R} = UNION {BlockPages(b, OrderAt(b)) : b \in R}
      /\ {Block(b, OrdOf[b]) : b \in R} = {Block(b, OrderAt(b)) : b \in R}
  BY <1>4
<1> QED  BY <1>5, <1>6

\* The pool and the cache are left alone, and so are the owners.
LEMMA SameLayout ==
  ASSUME PoolInv, UNCHANGED <<avail, held>>, Owned' = Owned,
         \A b \in Owned : OrderAt(b)' = OrderAt(b)
  PROVE  Layout(Owned', OrdOf', avail', held')
<1>1. OrdOf' = OrdOf
  BY DEF OrdOf
<1> QED  BY <1>1 DEF PoolInv

Inv == CacheInv /\ PoolInv

LEMMA CacheUnchanged ==
  ASSUME CacheInv, UNCHANGED cache
  PROVE  CacheInv' /\ Listed(list') = Listed(list)
<1>1. UNCHANGED <<list, free_list, free_count, total_objects, allocated_objects, total_slabs,
                  poisoned, objects, old_objects, refused>>
  BY DEF cache
<1> QED  BY <1>1 DEF CacheInv

\* A step of the cache that takes and gives no pages.
LEMMA CacheStepInv ==
  ASSUME Inv, CacheInv', Listed(list') = Listed(list), UNCHANGED <<pool, word, dangling, blocks>>
  PROVE  Inv'
<1>1. UNCHANGED <<open, avail, held, word, dangling, size, end_intact, live, raw, lost,
                  overrun, misfreed>>
  BY DEF pool, blocks
<1>2. Owned' = Owned /\ \A b \in Owned : OrderAt(b)' = OrderAt(b)
  BY <1>1 DEF Owned, OrderAt
<1>3. Layout(Owned', OrdOf', avail', held')
  BY <1>1, <1>2, SameLayout DEF Inv
<1> QED  BY <1>1, <1>3 DEF Inv, PoolInv

LEMMA KmallocObjectInv ==
  ASSUME Inv, NEW sz \in Sizes, kmalloc_object(sz)
  PROVE  Inv'
<1>0. CacheInv /\ PoolInv /\ avail \subseteq Pages
  BY OwnedFacts DEF Inv
<1>1. CASE Cache!slab_alloc /\ UNCHANGED <<pool, word, dangling>>
  <2>1. CacheInv' /\ Listed(list') = Listed(list)
    BY <1>0, <1>1, SlabAllocCache
  <2> QED  BY <1>1, <2>1, CacheStepInv DEF kmalloc_object
<1>2. ASSUME NEW s \in Grantable(1), Cache!slab_create(s), Pool!Grant(Block(s, 1)),
             word' = [Relink(word, avail') EXCEPT ![s] = "slab", ![s + 1] = "data"],
             dangling' = dangling \ BlockPages(s, 1)
      PROVE  Inv'
  <2>1. s \in Slabs /\ s \in Pages /\ s + 1 \in Pages /\ BlockPages(s, 1) = {s, s + 1}
        /\ s \in avail /\ s \in Nat
    <3>1. s \in Slabs /\ BlockPages(s, 1) = {s, s + 1}
      BY <1>0, GrantedSlab
    <3>2. BlockPages(s, 1) \subseteq avail
      BY <1>0, GrantedBlock
    <3> QED  BY <3>1, <3>2, PagesAreNat DEF Slabs
  <2>2. CacheInv' /\ Listed(list') = Listed(list) \cup {s}
    BY <1>0, <1>2, <2>1, SlabCreateCache
  <2>3. s \notin Owned
    BY <1>0, <2>1, OwnedFacts
  <2>4. UNCHANGED <<size, end_intact, live, raw, lost, overrun, misfreed>>
    BY DEF kmalloc_object, blocks
  <2>5. Owned' = Owned \cup {s} /\ OrderAt(s)' = 1 /\ \A b \in Owned : OrderAt(b)' = OrderAt(b)
    BY <2>2, <2>3, <2>4 DEF Owned, OrderAt
  <2>6. Layout(Owned', OrdOf', avail', held') /\ open' = TRUE
    BY <1>0, <1>2, <2>1, <2>5, GrantKeepsLayout
  <2>7. word' \in [Pages -> Words] /\ \A p \in Pages : p # s /\ p # s + 1 =>
          word'[p] = word[p] \/ word'[p] = "link"
    <3>1. Relink(word, avail') \in [Pages -> Words]
      BY <1>0, RelinkType DEF PoolInv
    <3> QED  BY <1>2, <2>1, <3>1, RelinkWords DEF Words
  <2>8. avail' = avail \ {s, s + 1}
    <3>1. Pool!Piece(Block(s, 1)) = {s, s + 1}
      BY <2>1, BlockPagesFacts
    <3> QED  BY <1>2, <3>1 DEF Pool!Grant
  <2>9. \A b \in dangling' : b \in avail' /\ word'[b] # "alloc"
    <3> TAKE b \in dangling'
    <3>1. b \in avail /\ word[b] # "alloc" /\ b # s /\ b # s + 1 /\ b \in Pages
      BY <1>0, <1>2, <2>1 DEF PoolInv
    <3> QED  BY <2>7, <2>8, <3>1
  <2>10. PoolInv'
    BY <1>0, <2>2, <2>3, <2>4, <2>6, <2>7, <2>9 DEF PoolInv, Owned
  <2> QED  BY <2>2, <2>10 DEF Inv
<1> QED  BY <1>1, <1>2 DEF kmalloc_object

LEMMA KmallocBlockInv ==
  ASSUME Inv, NEW sz \in Sizes, kmalloc_block(sz)
  PROVE  Inv'
<1> DEFINE k == order_of(sz)
           spill(b) == IF Spills(sz) THEN {b + 2^k} ELSE {}
<1>0. CacheInv /\ PoolInv /\ avail \subseteq Pages /\ k \in Nat
  BY OwnedFacts, OrderOfType DEF Inv
<1>1. PICK b \in Grantable(k) :
        /\ Pool!Grant(Block(b, k))
        /\ word' = [p \in Pages |-> IF p = b THEN "alloc"
                                    ELSE IF p \in spill(b) \/ p \in BlockPages(b, k) THEN "data"
                                    ELSE Relink(word, avail')[p]]
        /\ size' = [size EXCEPT ![b] = sz]
        /\ live' = live \cup {b}
        /\ dangling' = dangling \ BlockPages(b, k)
  BY DEF kmalloc_block
<1>2. b \in Pages /\ b \in Nat /\ BlockPages(b, k) \subseteq avail
  BY <1>0, GrantedBlock
<1>3. b \in BlockPages(b, k) /\ Pool!Piece(Block(b, k)) = BlockPages(b, k)
  BY <1>0, <1>2, BlockPagesFacts
<1>4. b \notin Owned
  BY <1>0, <1>2, <1>3, OwnedFacts
<1>5. UNCHANGED <<raw, lost, overrun, misfreed, cache>>
  BY DEF kmalloc_block
<1>6. CacheInv' /\ Listed(list') = Listed(list)
  BY <1>0, <1>5, CacheUnchanged
<1>7. /\ size' \in [Pages -> Sizes \cup {0}] /\ size'[b] = sz
      /\ \A c \in Pages : c # b => size'[c] = size[c]
  BY <1>0, <1>1, <1>2 DEF PoolInv
<1>8. Owned' = Owned \cup {b} /\ OrderAt(b)' = k /\ \A c \in Owned : OrderAt(c)' = OrderAt(c)
  <2>1. Owned' = Owned \cup {b}
    BY <1>1, <1>5, <1>6 DEF Owned
  <2>2. OrderAt(b)' = k
    BY <1>4, <1>5, <1>6, <1>7 DEF Owned, OrderAt
  <2>3. \A c \in Owned : OrderAt(c)' = OrderAt(c)
    <3> TAKE c \in Owned
    <3>1. c \in Pages /\ c # b
      BY <1>0, <1>4, OwnedFacts
    <3> QED  BY <1>5, <1>6, <1>7, <3>1 DEF OrderAt
  <2> QED  BY <2>1, <2>2, <2>3
<1>9. Layout(Owned', OrdOf', avail', held') /\ open' = TRUE
  BY <1>0, <1>1, <1>2, <1>8, GrantKeepsLayout
<1>10. /\ word' \in [Pages -> Words]
       /\ \A p \in Pages : p # b => word'[p] \in {"data", "link", word[p]}
  <2>1. Relink(word, avail') \in [Pages -> Words]
    BY <1>0, RelinkType DEF PoolInv
  <2> QED  BY <1>1, <2>1, RelinkWords DEF Words
<1>11. \A c \in dangling' : c \in avail' /\ word'[c] # "alloc"
  <2> TAKE c \in dangling'
  <2>1. c \in avail /\ word[c] # "alloc" /\ c # b /\ c \notin BlockPages(b, k) /\ c \in Pages
    BY <1>0, <1>1, <1>3 DEF PoolInv
  <2>2. avail' = avail \ BlockPages(b, k)
    BY <1>1, <1>3 DEF Pool!Grant
  <2> QED  BY <1>10, <2>1, <2>2
<1>12. \A c \in live' \cup lost' : size'[c] \in Sizes
  <2> TAKE c \in live' \cup lost'
  <2>1. CASE c = b
    BY <1>7, <2>1
  <2>2. CASE c # b
    <3>1. c \in live \cup lost /\ c \in Pages
      BY <1>0, <1>1, <1>5, <2>2, OwnedFacts DEF Owned
    <3> QED  BY <1>0, <1>7, <2>2, <3>1 DEF PoolInv
  <2> QED  BY <2>1, <2>2
<1>13. /\ raw' \cap live' = {} /\ raw' \cap lost' = {} /\ raw' \cap Listed(list') = {}
       /\ live' \cap lost' = {} /\ live' \cap Listed(list') = {} /\ lost' \cap Listed(list') = {}
  <2>1. /\ raw' = raw /\ lost' = lost /\ live' = live \cup {b} /\ Listed(list') = Listed(list)
        /\ b \notin raw /\ b \notin lost /\ b \notin Listed(list)
    BY <1>1, <1>4, <1>5, <1>6 DEF Owned
  <2> QED  BY <1>0, <2>1 DEF PoolInv
<1>14. ~misfreed'
  BY <1>0, <1>5 DEF PoolInv
<1>15. PoolInv'
  BY <1>7, <1>9, <1>10, <1>11, <1>12, <1>13, <1>14 DEF PoolInv
<1> QED  BY <1>6, <1>15 DEF Inv

LEMMA AllocPageInv ==
  ASSUME Inv, pmm_alloc_page
  PROVE  Inv'
<1>0. CacheInv /\ PoolInv /\ avail \subseteq Pages
  BY OwnedFacts DEF Inv
<1>1. PICK b \in Grantable(0) :
        /\ Pool!Grant(Block(b, 0))
        /\ word' \in {Relink(word, avail'), [Relink(word, avail') EXCEPT ![b] = "data"]}
        /\ raw' = raw \cup {b}
        /\ dangling' = dangling \ {b}
  BY DEF pmm_alloc_page
<1>2. b \in Pages /\ b \in Nat /\ BlockPages(b, 0) \subseteq avail /\ BlockPages(b, 0) = {b}
  <2>1. b \in Pages /\ b \in Nat /\ BlockPages(b, 0) \subseteq avail
    BY <1>0, GrantedBlock
  <2>2. BlockPages(b, 0) = b .. b + 1 - 1
    BY PowerOfZero DEF BlockPages
  <2> QED  BY <2>1, <2>2, SMTT(30)
<1>3. Pool!Piece(Block(b, 0)) = {b}
  BY <1>2, BlockPagesFacts
<1>4. b \notin Owned
  BY <1>0, <1>2, OwnedFacts
<1>5. UNCHANGED <<size, live, lost, misfreed, cache>>
  BY DEF pmm_alloc_page
<1>6. CacheInv' /\ Listed(list') = Listed(list)
  BY <1>0, <1>5, CacheUnchanged
<1>7. Owned' = Owned \cup {b} /\ OrderAt(b)' = 0 /\ \A c \in Owned : OrderAt(c)' = OrderAt(c)
  BY <1>1, <1>4, <1>5, <1>6 DEF Owned, OrderAt
<1>8. Layout(Owned', OrdOf', avail', held') /\ open' = TRUE
  <2>1. 0 \in Nat /\ b \in Pages /\ Pool!Grant(Block(b, 0))
    BY <1>1, <1>2
  <2> QED  BY <1>0, <1>7, <2>1, GrantKeepsLayout
<1>9. /\ word' \in [Pages -> Words]
      /\ \A p \in Pages : p # b => word'[p] \in {"link", word[p]}
  <2>1. Relink(word, avail') \in [Pages -> Words]
    BY <1>0, RelinkType DEF PoolInv
  <2> QED  BY <1>1, <2>1, RelinkWords, SMTT(30) DEF Words
<1>10. \A c \in dangling' : c \in avail' /\ word'[c] # "alloc"
  <2> TAKE c \in dangling'
  <2>1. c \in avail /\ word[c] # "alloc" /\ c # b /\ c \in Pages
    BY <1>0, <1>1 DEF PoolInv
  <2>2. avail' = avail \ {b}
    BY <1>1, <1>3 DEF Pool!Grant
  <2> QED  BY <1>9, <2>1, <2>2
<1>11. PoolInv'
  BY <1>0, <1>1, <1>4, <1>5, <1>6, <1>8, <1>9, <1>10 DEF PoolInv, Owned
<1> QED  BY <1>6, <1>11 DEF Inv

\* The release of one block is the release of a set of one.
LEMMA ReleaseOne ==
  ASSUME PoolInv, NEW b \in Owned, Pool!Release(Block(b, OrderAt(b))),
         Owned' = Owned \ {b}, \A c \in Owned \ {b} : OrderAt(c)' = OrderAt(c)
  PROVE  /\ Layout(Owned', OrdOf', avail', held')
         /\ open' = TRUE /\ avail \subseteq avail' /\ b \in avail'
<1>1. b \in Nat /\ OrderAt(b) \in Nat /\ b \in BlockPages(b, OrderAt(b))
  BY OwnedFacts
<1>2. Pool!Piece(Block(b, OrderAt(b))) = BlockPages(b, OrderAt(b))
  BY <1>1, BlockPagesFacts
<1>3. /\ avail' = avail \cup BlockPages(b, OrderAt(b)) /\ open' = open
      /\ held' = held \ {Block(b, OrderAt(b))}
  BY <1>2 DEF Pool!Release
<1>4. /\ avail' = avail \cup UNION {BlockPages(c, OrderAt(c)) : c \in {b}}
      /\ held' = held \ {Block(c, OrderAt(c)) : c \in {b}}
  BY <1>3
<1>5. Layout(Owned', OrdOf', avail', held')
  BY <1>4, ReleaseKeepsLayout
<1> QED  BY <1>1, <1>3, <1>5 DEF PoolInv

LEMMA FreePageInv ==
  ASSUME Inv, NEW b \in Pages, pmm_free_page(b)
  PROVE  Inv'
<1>0. CacheInv /\ PoolInv /\ avail \subseteq Pages
  BY OwnedFacts DEF Inv
<1>1. /\ b \in raw /\ Pool!Release(Block(b, 0)) /\ word' = Relink(word, avail')
      /\ raw' = raw \ {b} /\ UNCHANGED <<size, live, dangling, lost, misfreed, cache>>
  BY DEF pmm_free_page
<1>2. CacheInv' /\ Listed(list') = Listed(list)
  BY <1>0, <1>1, CacheUnchanged
<1>3. /\ b \in Owned /\ OrderAt(b) = 0 /\ Owned' = Owned \ {b}
      /\ \A c \in Owned \ {b} : OrderAt(c)' = OrderAt(c)
  BY <1>0, <1>1, <1>2 DEF Owned, OrderAt, PoolInv
<1>4. Layout(Owned', OrdOf', avail', held') /\ open' = TRUE /\ avail \subseteq avail'
  BY <1>0, <1>1, <1>3, ReleaseOne
<1>5. word' \in [Pages -> Words] /\ \A p \in Pages : word'[p] \in {"link", word[p]}
  BY <1>0, <1>1, RelinkType, RelinkWords DEF PoolInv
<1>6. \A c \in dangling' : c \in avail' /\ word'[c] # "alloc"
  BY <1>0, <1>1, <1>4, <1>5 DEF PoolInv
<1>7. PoolInv'
  BY <1>0, <1>1, <1>2, <1>4, <1>5, <1>6 DEF PoolInv
<1> QED  BY <1>2, <1>7 DEF Inv

LEMMA KfreeBlockInv ==
  ASSUME Inv, NEW b \in Pages, kfree_block(b)
  PROVE  Inv'
<1>0. CacheInv /\ PoolInv /\ avail \subseteq Pages
  BY OwnedFacts DEF Inv
<1>1. b \in live /\ live' = live \ {b} /\ UNCHANGED <<raw, cache>>
  BY DEF kfree_block
<1>2. CacheInv' /\ Listed(list') = Listed(list)
  BY <1>0, <1>1, CacheUnchanged
<1>3. b \in Owned /\ OrderAt(b) = order_of(size[b])
  BY <1>0, <1>1 DEF Owned, OrderAt, PoolInv
<1>4. CASE Release(b) /\ UNCHANGED lost
  <2>1. /\ Pool!Release(Block(b, OrderAt(b)))
        /\ word' = Relink([word EXCEPT ![b] = "freed"], avail')
        /\ size' = [size EXCEPT ![b] = 0] /\ dangling' = dangling \cup {b}
        /\ misfreed' = (misfreed \/ Block(b, OrderAt(b)) \notin held)
    BY <1>3, <1>4 DEF Release, FreedBlock
  <2>2. ~misfreed'
    <3>1. Block(b, OrdOf[b]) \in held
      BY <1>0, <1>3 DEF PoolInv, Layout
    <3>2. OrdOf[b] = OrderAt(b)
      BY <1>0, <1>3, OwnedFacts
    <3> QED  BY <1>0, <2>1, <3>1, <3>2 DEF PoolInv
  <2>3. /\ size' \in [Pages -> Sizes \cup {0}]
        /\ \A c \in Pages : c # b => size'[c] = size[c]
    BY <1>0, <2>1 DEF PoolInv
  <2>4. Owned' = Owned \ {b} /\ \A c \in Owned \ {b} : OrderAt(c)' = OrderAt(c)
    <3>1. Owned' = Owned \ {b}
      BY <1>0, <1>1, <1>2, <1>4 DEF Owned, PoolInv
    <3>2. ASSUME NEW c \in Owned \ {b} PROVE OrderAt(c)' = OrderAt(c)
      <4>1. c \in Pages
        BY <1>0, OwnedFacts
      <4> QED  BY <1>1, <1>2, <2>3, <4>1 DEF OrderAt
    <3> QED  BY <3>1, <3>2
  <2>5. Layout(Owned', OrdOf', avail', held') /\ open' = TRUE /\ avail \subseteq avail'
        /\ b \in avail'
    BY <1>0, <1>3, <2>1, <2>4, ReleaseOne
  <2>6. /\ word' \in [Pages -> Words]
        /\ \A p \in Pages : p # b => word'[p] \in {"link", word[p]}
        /\ word'[b] # "alloc"
    <3> DEFINE w == [word EXCEPT ![b] = "freed"]
    <3>1. /\ w \in [Pages -> Words] /\ w[b] = "freed"
          /\ \A p \in Pages : p # b => w[p] = word[p]
      BY <1>0 DEF PoolInv, Words
    <3>2. word' = Relink(w, avail')
      BY <2>1
    <3> HIDE DEF w
    <3>3. word' \in [Pages -> Words]
      BY <3>1, <3>2, RelinkType
    <3>4. \A p \in Pages : word'[p] = w[p] \/ word'[p] = "link"
      BY <3>2, RelinkWords
    <3> QED  BY <3>1, <3>3, <3>4
  <2>7. \A c \in dangling' : c \in avail' /\ word'[c] # "alloc"
    BY <1>0, <2>1, <2>5, <2>6 DEF PoolInv
  <2>8. \A c \in live' \cup lost' : size'[c] \in Sizes
    <3> TAKE c \in live' \cup lost'
    <3>1. c \in live \cup lost /\ c # b /\ c \in Pages
      BY <1>0, <1>1, <1>4, OwnedFacts DEF PoolInv, Owned
    <3> QED  BY <1>0, <2>3, <3>1 DEF PoolInv
  <2>9. PoolInv'
    BY <1>0, <1>1, <1>2, <1>4, <2>2, <2>3, <2>5, <2>6, <2>7, <2>8 DEF PoolInv
  <2> QED  BY <1>2, <2>9 DEF Inv
<1>5. CASE lost' = lost \cup {b} /\ UNCHANGED <<pool, word, size, end_intact, dangling, misfreed>>
  <2>1. UNCHANGED <<open, avail, held, word, size, dangling, misfreed>>
    BY <1>5 DEF pool
  <2>2. Owned' = Owned /\ \A c \in Owned : OrderAt(c)' = OrderAt(c)
    BY <1>1, <1>2, <1>5, <2>1 DEF Owned, OrderAt
  <2>3. Layout(Owned', OrdOf', avail', held')
    BY <1>0, <2>1, <2>2, SameLayout
  <2>4. PoolInv'
    BY <1>0, <1>1, <1>2, <1>5, <2>1, <2>3, SMTT(30) DEF PoolInv
  <2> QED  BY <1>2, <2>4 DEF Inv
<1> QED  BY <1>4, <1>5 DEF kfree_block

\* A second kfree is not accepted.
LEMMA KfreeBlockAgainInv ==
  ASSUME Inv, NEW b \in Pages, kfree_block_again(b)
  PROVE  UNCHANGED vars
<1>1. ~Accepted(b)
  BY DEF Inv, PoolInv, kfree_block_again, Accepted
<1>2. UNCHANGED <<pool, word, size, end_intact, dangling, misfreed>>
      /\ UNCHANGED <<live, raw, lost, overrun, cache>>
  BY <1>1 DEF kfree_block_again
<1> QED  BY <1>2 DEF vars, blocks

LEMMA ShrinkInv ==
  ASSUME Inv, NEW gone \in SUBSET Slabs, slab_cache_shrink(gone)
  PROVE  Inv'
<1>0. CacheInv /\ PoolInv /\ avail \subseteq Pages
  BY OwnedFacts DEF Inv
<1>1. /\ Cache!slab_cache_shrink(gone)
      /\ avail' = avail \cup UNION {BlockPages(s, 1) : s \in gone}
      /\ held' = held \ {Block(s, 1) : s \in gone}
      /\ word' = Relink(word, avail')
      /\ UNCHANGED <<open, dangling, size, end_intact, live, raw, lost, overrun, misfreed>>
  BY DEF slab_cache_shrink, blocks
<1>2. CacheInv' /\ Listed(list') = Listed(list) \ gone /\ gone \subseteq Listed(list)
  BY <1>0, <1>1, ShrinkCache
<1>3. gone \subseteq Owned /\ \A s \in gone : OrderAt(s) = 1
  BY <1>0, <1>2 DEF Owned, OrderAt, PoolInv
<1>4. /\ UNION {BlockPages(s, 1) : s \in gone} = UNION {BlockPages(s, OrderAt(s)) : s \in gone}
      /\ {Block(s, 1) : s \in gone} = {Block(s, OrderAt(s)) : s \in gone}
  BY <1>3
<1>5. Owned' = Owned \ gone /\ \A c \in Owned \ gone : OrderAt(c)' = OrderAt(c)
  BY <1>0, <1>1, <1>2 DEF Owned, OrderAt, PoolInv
<1>6. Layout(Owned', OrdOf', avail', held')
  BY <1>0, <1>1, <1>3, <1>4, <1>5, ReleaseKeepsLayout
<1>7. word' \in [Pages -> Words] /\ \A p \in Pages : word'[p] \in {"link", word[p]}
  BY <1>0, <1>1, RelinkType, RelinkWords DEF PoolInv
<1>8. \A c \in dangling' : c \in avail' /\ word'[c] # "alloc"
  BY <1>0, <1>1, <1>7 DEF PoolInv
<1>9. PoolInv'
  BY <1>0, <1>1, <1>2, <1>6, <1>7, <1>8 DEF PoolInv
<1> QED  BY <1>2, <1>9 DEF Inv

LEMMA OverrunInv ==
  ASSUME Inv, NEW b \in Pages, Overrun(b)
  PROVE  Inv'
<1>0. CacheInv /\ PoolInv
  BY DEF Inv
<1>1. UNCHANGED <<open, avail, held, word, size, live, raw, dangling, lost, misfreed, cache>>
  BY DEF Overrun, pool
<1>2. CacheInv' /\ Listed(list') = Listed(list)
  BY <1>0, <1>1, CacheUnchanged
<1>3. Owned' = Owned /\ \A c \in Owned : OrderAt(c)' = OrderAt(c)
  BY <1>1, <1>2 DEF Owned, OrderAt
<1>4. Layout(Owned', OrdOf', avail', held')
  BY <1>0, <1>1, <1>3, SameLayout
<1>5. PoolInv'
  BY <1>0, <1>1, <1>2, <1>4 DEF PoolInv
<1> QED  BY <1>2, <1>5 DEF Inv

LEMMA StutterInv ==
  ASSUME Inv, UNCHANGED vars
  PROVE  Inv'
<1>1. UNCHANGED <<pool, word, dangling, blocks>> /\ UNCHANGED cache
  BY DEF vars
<1>2. CacheInv' /\ Listed(list') = Listed(list)
  BY <1>1, CacheUnchanged DEF Inv
<1> QED  BY <1>1, <1>2, CacheStepInv

LEMMA InitInv == Init => Inv
<1> SUFFICES ASSUME Init PROVE Inv
  OBVIOUS
<1>1. CacheInv
  BY CacheInit DEF Init
<1>2. Listed(list) = {}
  <2>1. list = [l \in Lists |-> {}]
    BY DEF Init, Cache!Init, Cache!Lists, Lists
  <2> QED  BY <2>1 DEF Listed, Lists
<1>3. /\ open = TRUE /\ avail = Pages /\ held = {} /\ raw = {} /\ live = {} /\ lost = {}
      /\ dangling = {} /\ ~misfreed /\ size = [p \in Pages |-> 0]
      /\ word = Relink([p \in Pages |-> "data"], Pages)
  BY DEF Init
<1>4. word \in [Pages -> Words]
  <2>1. [p \in Pages |-> "data"] \in [Pages -> Words]
    BY DEF Words
  <2> QED  BY <1>3, <2>1, RelinkType
<1>5. Layout(Owned, OrdOf, avail, held)
  <2>1. Owned = {} /\ OrdOf \in [Owned -> Nat]
    BY <1>2, <1>3 DEF Owned, OrdOf
  <2> QED  BY <1>3, <2>1 DEF Layout
<1> QED  BY <1>1, <1>2, <1>3, <1>4, <1>5 DEF Inv, PoolInv

LEMMA InvInductive == Inv /\ [Next]_vars => Inv'
<1> SUFFICES ASSUME Inv, [Next]_vars PROVE Inv'
  OBVIOUS
<1>1. CASE UNCHANGED vars
  BY <1>1, StutterInv
<1>2. ASSUME NEW sz \in Sizes, kmalloc_object(sz) \/ kmalloc_block(sz) \/ kmalloc_fails(sz)
      PROVE  Inv'
  BY <1>2, KmallocObjectInv, KmallocBlockInv, StutterInv DEF kmalloc_fails
<1>3. CASE pmm_alloc_page
  BY <1>3, AllocPageInv
<1>4. ASSUME NEW b \in Pages,
             pmm_free_page(b) \/ kfree_block(b) \/ kfree_block_again(b) \/ Overrun(b)
      PROVE  Inv'
  BY <1>4, FreePageInv, KfreeBlockInv, KfreeBlockAgainInv, StutterInv, OverrunInv
<1>5. ASSUME NEW s \in Slabs, NEW o \in Objects, kfree_object(s, o) \/ Write(s, o)
      PROVE  Inv'
  <2>1. CacheInv' /\ Listed(list') = Listed(list)
    BY <1>5, KfreeCache, KfreeAgainCache, WriteCache DEF kfree_object, Write, Inv
  <2>2. UNCHANGED <<pool, word, dangling, blocks>>
    BY <1>5 DEF kfree_object, Write
  <2> QED  BY <2>1, <2>2, CacheStepInv
<1>6. ASSUME NEW gone \in SUBSET Slabs, slab_cache_shrink(gone) PROVE Inv'
  BY <1>6, ShrinkInv
<1> QED  BY <1>1, <1>2, <1>3, <1>4, <1>5, <1>6 DEF Next

\* The inductive invariant: the cache's sums, and one owner for each page.
THEOREM Invariance == Spec => []Inv
  BY InitInv, InvInductive, PTL DEF Spec

\* The lists, the free lists and the totals of the slab cache agree, whatever is
\* allocated, freed (also twice) and shrunk, and however the pages are shared.
THEOREM CacheStaysConsistent == Spec => []CacheConsistent
<1>1. Inv => CacheConsistent
  BY CacheInvImplies DEF Inv
<1> QED  BY <1>1, Invariance, PTL

\* Each page is available or in exactly one block or slab, and what kfree,
\* pmm_free_page and slab_destroy give back is what was granted.
THEOREM PagesAreAccounted == Spec => []EveryPageAccounted
<1>1. Inv => EveryPageAccounted
  <2> SUFFICES ASSUME Inv PROVE EveryPageAccounted
    OBVIOUS
  <2>0. PoolInv /\ Layout(Owned, OrdOf, avail, held)
    BY DEF Inv, PoolInv
  <2>1. Cache!InUse = Listed(list)
    BY DEF Cache!InUse, Listed
  <2>2. held = {Block(b, OrderAt(b)) : b \in Owned}
    BY <2>0 DEF Layout, OrdOf
  <2>3. /\ \A b \in raw : OrderAt(b) = 0
        /\ \A b \in live \cup lost : OrderAt(b) = order_of(size[b])
        /\ \A b \in Listed(list) : OrderAt(b) = 1
    BY <2>0 DEF OrderAt, PoolInv
  <2>4. held = {Block(b, 0) : b \in raw} \cup {Block(b, order_of(size[b])) : b \in live \cup lost}
                 \cup {Block(s, 1) : s \in Listed(list)}
    BY <2>2, <2>3 DEF Owned
  <2>5. \A b \in Owned : Pool!Piece(Block(b, OrderAt(b))) = BlockPages(b, OrderAt(b))
    BY <2>0, OwnedFacts, BlockPagesFacts
  <2>6. avail = Pages \ UNION {BlockPages(b, OrderAt(b)) : b \in Owned}
    BY <2>0 DEF Layout, OrdOf
  <2>7. UNION {Pool!Piece(x) : x \in held} = UNION {BlockPages(b, OrderAt(b)) : b \in Owned}
    BY <2>2, <2>5
  <2>8. \A x, y \in held : x # y => Pool!Piece(x) \cap Pool!Piece(y) = {}
    <3> TAKE x, y \in held
    <3> HAVE x # y
    <3>1. PICK b \in Owned, c \in Owned : x = Block(b, OrderAt(b)) /\ y = Block(c, OrderAt(c))
      BY <2>2
    <3>2. b # c
      BY <3>1
    <3>3. BlockPages(b, OrderAt(b)) \cap BlockPages(c, OrderAt(c)) = {}
      BY <2>0, <3>2 DEF Layout, OrdOf
    <3> QED  BY <2>5, <3>1, <3>3
  <2> QED  BY <2>0, <2>1, <2>4, <2>6, <2>7, <2>8 DEF EveryPageAccounted, PoolInv
<1> QED  BY <1>1, Invariance, PTL

-----------------------------------------------------------------------------
(* What kfree finds in memory. *)

\* No request the buddy allocator serves is one whose end magic reaches past its block.
NoSpill == \A sz \in Sizes : order_of(sz) < MAX_SUPPORTED_ORDER => ~Spills(sz)

FreeStart(free, p) == \E k \in Orders : p \in FreeAt(free, k)

\* The first page of a free block holds the link.
Linked == \A p \in Pages : FreeStart(avail, p) => word[p] = "link"

\* SLAB_MAGIC stays behind in a destroyed slab only as long as both pages of the
\* pair are free: the allocator takes the first of them, or both, but never the
\* second alone.
Paired(p) == p % 2 = 0 /\ p \in avail /\ p + 1 \in avail
SlabWords == \A p \in Pages : word[p] = "slab" => p \in Listed(list) \/ Paired(p)

OwnerWords ==
  /\ \A s \in Listed(list) : word[s] = "slab"
  /\ \A b \in live : word[b] = "alloc" /\ order_of(size[b]) < MAX_SUPPORTED_ORDER

Magics ==
  /\ live \ overrun \subseteq end_intact
  /\ overrun \cap end_intact = {}
  /\ overrun \subseteq live \cup lost
  /\ lost \subseteq overrun

WordInv == Linked /\ SlabWords /\ OwnerWords /\ Magics

LEMMA RelinkAt ==
  ASSUME NEW w, NEW free, NEW p \in Pages
  PROVE  /\ FreeStart(free, p) => p \in free /\ Relink(w, free)[p] = "link"
         /\ ~FreeStart(free, p) => Relink(w, free)[p] = w[p]
<1>1. FreeStart(free, p) <=> \E x \in FreeBlocks(free) : x.addr = p
  <2>1. ASSUME NEW k \in Orders, p \in FreeAt(free, k)
        PROVE  Block(p, k) \in FreeBlocks(free) /\ Block(p, k).addr = p
    BY <2>1, SMTT(30) DEF FreeBlocks, Block
  <2>2. ASSUME NEW x \in FreeBlocks(free), x.addr = p
        PROVE  FreeStart(free, p)
    <3>1. PICK k \in Orders : \E q \in FreeAt(free, k) : x = Block(q, k)
      BY DEF FreeBlocks
    <3>2. p \in FreeAt(free, k)
      BY <2>2, <3>1, SMTT(30) DEF Block
    <3> QED  BY <3>2 DEF FreeStart
  <2> QED  BY <2>1, <2>2 DEF FreeStart
<1>2. FreeStart(free, p) => p \in free
  BY DEF FreeStart, FreeAt
<1> QED  BY <1>1, <1>2 DEF Relink

\* After buddy_alloc_pages and buddy_free_pages the free blocks are linked.
LEMMA LinkedAfter ==
  ASSUME NEW w, \A p \in Pages : p \in avail' => word'[p] = Relink(w, avail')[p]
  PROVE  Linked'
<1> SUFFICES ASSUME NEW p \in Pages, FreeStart(avail', p) PROVE word'[p] = "link"
  BY DEF Linked
<1> QED  BY RelinkAt, SMTT(30)

\* The allocator never takes the second page of a free pair alone.
LEMMA PairsTakenFromBelow ==
  ASSUME avail \subseteq Pages, NEW k \in Nat, NEW n \in Grantable(k),
         NEW p \in Pages, Paired(p), p + 1 \in BlockPages(n, k)
  PROVE  p \in BlockPages(n, k)
<1> DEFINE z == 2^k
<1>0. p \in Nat /\ n \in Nat /\ z \in Nat
  BY GrantedBlock, PagesAreNat, PowerOfTwo
<1>1. BlockPages(n, k) = n .. n + z - 1
  BY DEF BlockPages
<1>2. n # p + 1
  <2> SUFFICES ASSUME n = p + 1 PROVE FALSE
    OBVIOUS
  <2>1. n % 2 = 1
    BY <1>0, SMTT(30) DEF Paired
  <2>2. PICK j \in Orders : n \in FreeAt(avail, j)
    BY GrantedBlock
  <2>3. j \in Nat
    BY PmmAssumption, SMTT(30) DEF Orders
  <2>4. 2^j = 1
    BY <1>0, <2>1, <2>2, FreeAtEven, SMTT(30)
  <2>5. j = 0
    <3> SUFFICES ASSUME j # 0 PROVE FALSE
      OBVIOUS
    <3>1. j - 1 \in Nat /\ (j - 1) + 1 = j
      BY <2>3, SMTT(30)
    <3>2. 2^((j - 1) + 1) = 2 * 2^(j - 1) /\ 2^(j - 1) \in Nat
      BY <3>1, PowerDoubles, PowerOfTwo
    <3>3. 2^j = 2 * 2^(j - 1)
      BY <3>1, <3>2
    <3> DEFINE h == 2^(j - 1)
    <3>4. h \in Nat /\ 2 * h = 1
      BY <2>4, <3>2, <3>3
    <3> HIDE DEF h
    <3> QED  BY <3>4, SMTT(30)
  <2>6. ~ BlockPages(n - (n % 2^(0 + 1)), 0 + 1) \subseteq avail
    BY <2>2, <2>5, PmmAssumption, SMTT(30) DEF FreeAt
  <2>7. n - (n % 2^(0 + 1)) = p
    <3>1. 2^(0 + 1) = 2
      BY PowerOfOne, SMTT(30)
    <3> QED  BY <1>0, <2>1, <3>1, SMTT(30)
  <2>8. BlockPages(p, 0 + 1) = p .. p + 2 - 1
    BY PowerOfOne, SMTT(30) DEF BlockPages
  <2>9. BlockPages(p, 0 + 1) \subseteq avail
    BY <1>0, <2>8, SMTT(30) DEF Paired
  <2> QED  BY <2>6, <2>7, <2>9
<1> HIDE DEF z
<1> QED  BY <1>0, <1>1, <1>2, SMTT(30)

LEMMA SlabWordsGrant ==
  ASSUME avail \subseteq Pages, NEW k \in Nat, NEW n \in Grantable(k), SlabWords,
         avail' = avail \ BlockPages(n, k), Listed(list) \subseteq Listed(list'),
         \A p \in Pages : word'[p] = "slab" =>
           p \in Listed(list') \/ (word[p] = "slab" /\ p \notin BlockPages(n, k))
  PROVE  SlabWords'
<1> SUFFICES ASSUME NEW p \in Pages, word'[p] = "slab", p \notin Listed(list')
             PROVE  Paired(p)'
  BY DEF SlabWords
<1>1. p \notin BlockPages(n, k) /\ Paired(p)
  BY DEF SlabWords
<1>2. p + 1 \notin BlockPages(n, k)
  BY <1>1, PairsTakenFromBelow
<1> QED  BY <1>1, <1>2 DEF Paired

LEMMA SlabWordsRelease ==
  ASSUME SlabWords, avail \subseteq avail',
         \A p \in Pages : word'[p] = "slab" => word[p] = "slab",
         \A s \in Listed(list) \ Listed(list') : Paired(s)'
  PROVE  SlabWords'
BY DEF SlabWords, Paired

\* Steps that leave the pool, the words and the owners alone.
LEMMA SameWords ==
  ASSUME WordInv, Listed(list') = Listed(list),
         UNCHANGED <<avail, word, size, end_intact, live, lost, overrun>>
  PROVE  WordInv'
<1>1. Linked' /\ SlabWords'
  BY DEF WordInv, Linked, SlabWords, Paired
<1>2. OwnerWords' /\ Magics'
  BY DEF WordInv, OwnerWords, Magics
<1> QED  BY <1>1, <1>2 DEF WordInv

LEMMA KmallocObjectWords ==
  ASSUME Inv, Inv', WordInv, NEW sz \in Sizes, kmalloc_object(sz)
  PROVE  WordInv'
<1>0. CacheInv /\ PoolInv /\ avail \subseteq Pages
  BY OwnedFacts DEF Inv
<1>1. UNCHANGED <<size, end_intact, live, raw, lost, overrun>>
  BY DEF kmalloc_object, blocks
<1>2. CASE Cache!slab_alloc /\ UNCHANGED <<pool, word, dangling>>
  <2>1. Listed(list') = Listed(list)
    BY <1>0, <1>2, SlabAllocCache
  <2> QED  BY <1>1, <1>2, <2>1, SameWords DEF pool
<1>3. ASSUME NEW s \in Grantable(1), Cache!slab_create(s), Pool!Grant(Block(s, 1)),
             word' = [Relink(word, avail') EXCEPT ![s] = "slab", ![s + 1] = "data"]
      PROVE  WordInv'
  <2>1. s \in Slabs /\ s \in Pages /\ s + 1 \in Pages /\ BlockPages(s, 1) = {s, s + 1}
        /\ s \in avail /\ s + 1 \in avail /\ s \in Nat
    <3>1. s \in Slabs /\ BlockPages(s, 1) = {s, s + 1}
      BY <1>0, GrantedSlab
    <3>2. BlockPages(s, 1) \subseteq avail
      BY <1>0, GrantedBlock
    <3> QED  BY <3>1, <3>2, PagesAreNat DEF Slabs
  <2>2. Listed(list') = Listed(list) \cup {s}
    BY <1>0, <1>3, <2>1, SlabCreateCache
  <2>3. avail' = avail \ BlockPages(s, 1)
    <3>1. Pool!Piece(Block(s, 1)) = BlockPages(s, 1)
      BY <2>1, BlockPagesFacts
    <3> QED  BY <1>3, <3>1 DEF Pool!Grant
  <2>4. /\ word'[s] = "slab" /\ word'[s + 1] = "data"
        /\ \A p \in Pages : p # s /\ p # s + 1 => word'[p] = Relink(word, avail')[p]
    <3>1. Relink(word, avail') \in [Pages -> Words]
      BY <1>0, RelinkType DEF PoolInv
    <3> QED  BY <1>3, <2>1, <3>1, SMTT(30)
  <2>5. Linked'
    BY <2>1, <2>3, <2>4, LinkedAfter
  <2>6. SlabWords'
    <3>1. ASSUME NEW p \in Pages, word'[p] = "slab", p \notin Listed(list')
          PROVE  word[p] = "slab" /\ p \notin BlockPages(s, 1)
      BY <2>1, <2>2, <2>4, <3>1, RelinkWords, SMTT(30)
    <3> QED  BY <1>0, <2>2, <2>3, <3>1, SlabWordsGrant DEF WordInv
  <2>7. \A c \in Owned : word'[c] = word[c]
    <3> TAKE c \in Owned
    <3>1. c \in Pages /\ c \notin avail
      BY <1>0, OwnedFacts
    <3>2. c # s /\ c # s + 1 /\ c \notin avail'
      BY <2>1, <2>3, <3>1
    <3> QED  BY <2>4, <3>1, <3>2, RelinkAt
  <2>8. OwnerWords'
    BY <1>1, <2>2, <2>4, <2>7 DEF WordInv, OwnerWords, Owned
  <2>9. Magics'
    BY <1>1 DEF WordInv, Magics
  <2> QED  BY <2>5, <2>6, <2>8, <2>9 DEF WordInv
<1> QED  BY <1>2, <1>3 DEF kmalloc_object

LEMMA KmallocBlockWords ==
  ASSUME NoSpill, Inv, Inv', WordInv, NEW sz \in Sizes, kmalloc_block(sz)
  PROVE  WordInv'
<1> DEFINE k == order_of(sz)
           spill(b) == IF Spills(sz) THEN {b + 2^k} ELSE {}
           before(b) == {c \in end_intact : Spills(size[c]) /\ c + 2^order_of(size[c]) = b}
<1>0. CacheInv /\ PoolInv /\ avail \subseteq Pages /\ k \in Nat
  BY OwnedFacts, OrderOfType DEF Inv
<1>1. k < MAX_SUPPORTED_ORDER /\ ~Spills(sz)
  BY DEF kmalloc_block, NoSpill
<1>2. PICK b \in Grantable(k) :
        /\ Pool!Grant(Block(b, k))
        /\ word' = [p \in Pages |-> IF p = b THEN "alloc"
                                    ELSE IF p \in spill(b) \/ p \in BlockPages(b, k) THEN "data"
                                    ELSE Relink(word, avail')[p]]
        /\ size' = [size EXCEPT ![b] = sz]
        /\ end_intact' = (end_intact \ (before(b) \cup BlockPages(b, k))) \cup {b}
        /\ live' = live \cup {b}
  BY DEF kmalloc_block
<1>3. b \in Pages /\ b \in Nat /\ BlockPages(b, k) \subseteq avail
  BY <1>0, GrantedBlock
<1>4. b \in BlockPages(b, k) /\ Pool!Piece(Block(b, k)) = BlockPages(b, k)
  BY <1>0, <1>3, BlockPagesFacts
<1>5. avail' = avail \ BlockPages(b, k)
  BY <1>2, <1>4 DEF Pool!Grant
<1>6. UNCHANGED <<raw, lost, overrun, cache>> /\ Listed(list') = Listed(list)
  BY <1>0, CacheUnchanged DEF kmalloc_block
<1>7. /\ word'[b] = "alloc"
      /\ \A p \in BlockPages(b, k) : word'[p] # "slab"
      /\ \A p \in Pages : p \notin BlockPages(b, k) => word'[p] = Relink(word, avail')[p]
  <2>1. spill(b) = {}
    BY <1>1
  <2> HIDE DEF spill
  <2> QED  BY <1>0, <1>2, <1>3, <1>4, <2>1
<1>8. Linked'
  BY <1>5, <1>7, LinkedAfter
<1>9. SlabWords'
  <2>1. \A p \in Pages : word'[p] = "slab" => word[p] = "slab" /\ p \notin BlockPages(b, k)
    BY <1>7, RelinkWords
  <2> QED  BY <1>0, <1>5, <1>6, <2>1, SlabWordsGrant DEF WordInv
<1>10. \A c \in Owned : c \in Pages /\ c \notin BlockPages(b, k) /\ word'[c] = word[c]
  <2> TAKE c \in Owned
  <2>1. c \in Pages /\ c \notin avail
    BY <1>0, OwnedFacts
  <2>2. c \notin BlockPages(b, k) /\ c \notin avail'
    BY <1>3, <1>5, <2>1
  <2> QED  BY <1>7, <2>1, <2>2, RelinkAt
<1>11. size'[b] = sz /\ \A c \in Owned : size'[c] = size[c]
  BY <1>0, <1>2, <1>3, <1>4, <1>10 DEF PoolInv
<1>12. OwnerWords'
  BY <1>1, <1>2, <1>6, <1>7, <1>10, <1>11 DEF WordInv, OwnerWords, Owned
<1>13. \A c \in live : c \notin before(b) /\ c \notin BlockPages(b, k)
  <2> TAKE c \in live
  <2>1. c \in Owned /\ size[c] \in Sizes /\ order_of(size[c]) < MAX_SUPPORTED_ORDER
    BY <1>0 DEF Owned, PoolInv, WordInv, OwnerWords
  <2>2. ~Spills(size[c])
    BY <2>1 DEF NoSpill
  <2> QED  BY <1>10, <2>1, <2>2
<1>14. b \notin overrun
  <2>1. overrun \subseteq Owned
    BY DEF WordInv, Magics, Owned
  <2> QED  BY <1>4, <1>10, <2>1
<1>15. Magics'
  <2> HIDE DEF before, k
  <2> QED  BY <1>2, <1>6, <1>13, <1>14 DEF WordInv, Magics
<1> QED  BY <1>8, <1>9, <1>12, <1>15 DEF WordInv

LEMMA AllocPageWords ==
  ASSUME Inv, Inv', WordInv, pmm_alloc_page
  PROVE  WordInv'
<1>0. CacheInv /\ PoolInv /\ avail \subseteq Pages
  BY OwnedFacts DEF Inv
<1>1. PICK b \in Grantable(0) :
        /\ Pool!Grant(Block(b, 0))
        /\ word' \in {Relink(word, avail'), [Relink(word, avail') EXCEPT ![b] = "data"]}
  BY DEF pmm_alloc_page
<1>2. b \in Pages /\ b \in Nat /\ BlockPages(b, 0) \subseteq avail /\ BlockPages(b, 0) = {b}
  <2>1. b \in Pages /\ b \in Nat /\ BlockPages(b, 0) \subseteq avail
    BY <1>0, GrantedBlock
  <2>2. BlockPages(b, 0) = b .. b + 1 - 1
    BY PowerOfZero DEF BlockPages
  <2> QED  BY <2>1, <2>2, SMTT(30)
<1>3. avail' = avail \ BlockPages(b, 0)
  <2>1. Pool!Piece(Block(b, 0)) = BlockPages(b, 0)
    BY <1>2, BlockPagesFacts
  <2> QED  BY <1>1, <2>1 DEF Pool!Grant
<1>4. UNCHANGED <<size, end_intact, live, lost, overrun, cache>> /\ Listed(list') = Listed(list)
  BY <1>0, CacheUnchanged DEF pmm_alloc_page
<1>5. word[b] = "link"
  <2>1. FreeStart(avail, b)
    BY <1>0, GrantedBlock DEF FreeStart
  <2> QED  BY <1>2, <2>1 DEF WordInv, Linked
<1>6. /\ word'[b] # "slab"
      /\ \A p \in Pages : p # b => word'[p] = Relink(word, avail')[p]
  <2>1. Relink(word, avail') \in [Pages -> Words]
    BY <1>0, RelinkType DEF PoolInv
  <2>2. Relink(word, avail')[b] = "link"
    BY <1>2, <1>5, RelinkWords
  <2> QED  BY <1>1, <1>2, <2>1, <2>2
<1>7. Linked'
  BY <1>2, <1>3, <1>6, LinkedAfter
<1>8. SlabWords'
  <2>1. \A p \in Pages : word'[p] = "slab" => word[p] = "slab" /\ p \notin BlockPages(b, 0)
    BY <1>2, <1>6, RelinkWords
  <2>2. 0 \in Nat /\ SlabWords /\ Listed(list) \subseteq Listed(list')
    BY <1>4 DEF WordInv
  <2> QED  BY <1>0, <1>3, <2>1, <2>2, SlabWordsGrant
<1>9. \A c \in Owned : word'[c] = word[c]
  <2> TAKE c \in Owned
  <2>1. c \in Pages /\ c \notin avail
    BY <1>0, OwnedFacts
  <2>2. c # b /\ c \notin avail'
    BY <1>2, <1>3, <2>1
  <2> QED  BY <1>6, <2>1, <2>2, RelinkAt
<1>10. OwnerWords'
  BY <1>4, <1>9 DEF WordInv, OwnerWords, Owned
<1>11. Magics'
  BY <1>4 DEF WordInv, Magics
<1> QED  BY <1>7, <1>8, <1>10, <1>11 DEF WordInv

\* The owners keep their words when the pool is relinked: their pages are not free.
LEMMA OwnersKeepWords ==
  ASSUME Inv', NEW w, word' = Relink(w, avail')
  PROVE  \A c \in Owned' : word'[c] = w[c]
<1> TAKE c \in Owned'
<1>1. PoolInv'
  BY DEF Inv
<1>2. Layout(Owned', OrdOf', avail', held') /\ c \in Pages
  BY <1>1 DEF PoolInv, Layout
<1>3. c \in Nat /\ OrdOf'[c] \in Nat /\ BlockPages(c, OrdOf'[c]) \cap avail' = {}
  BY <1>2, PagesAreNat DEF Layout
<1>4. c \notin avail'
  BY <1>3, BlockPagesFacts
<1> QED  BY <1>2, <1>4, RelinkAt

LEMMA FreePageWords ==
  ASSUME Inv, Inv', WordInv, NEW b \in Pages, pmm_free_page(b)
  PROVE  WordInv'
<1>0. CacheInv /\ PoolInv
  BY DEF Inv
<1>1. /\ Pool!Release(Block(b, 0)) /\ word' = Relink(word, avail')
      /\ UNCHANGED <<size, end_intact, live, lost, overrun>> /\ Listed(list') = Listed(list)
  BY <1>0, CacheUnchanged DEF pmm_free_page
<1>2. avail \subseteq avail'
  BY <1>1 DEF Pool!Release
<1>3. Linked'
  BY <1>1, LinkedAfter
<1>4. SlabWords'
  <2>1. \A p \in Pages : word'[p] = "slab" => word[p] = "slab"
    BY <1>1, RelinkWords
  <2> QED  BY <1>1, <1>2, <2>1, SlabWordsRelease DEF WordInv
<1>5. \A c \in Owned' : word'[c] = word[c]
  BY <1>1, OwnersKeepWords
<1>6. OwnerWords'
  BY <1>1, <1>5 DEF WordInv, OwnerWords, Owned
<1>7. Magics'
  BY <1>1 DEF WordInv, Magics
<1> QED  BY <1>3, <1>4, <1>6, <1>7 DEF WordInv

\* No pair of pages around the header of a block starts with SLAB_MAGIC.
LEMMA NoSlabAroundBlock ==
  ASSUME Inv, WordInv, NEW b \in live
  PROVE  ~FindsSlab(b)
<1> SUFFICES ASSUME FindsSlab(b) PROVE FALSE
  OBVIOUS
<1>0. PoolInv /\ b \in Owned
  BY DEF Inv, Owned
<1>1. b \in Nat /\ b \notin avail /\ b \in BlockPages(b, OrderAt(b)) /\ OrdOf[b] = OrderAt(b)
  BY <1>0, OwnedFacts
<1>2. b - 1 \in Pages /\ word[b - 1] = "slab" /\ b - 1 \in Nat
  BY PagesAreNat DEF FindsSlab
<1>3. ~Paired(b - 1)
  BY <1>1, SMTT(30) DEF Paired
<1>4. b - 1 \in Listed(list)
  BY <1>2, <1>3 DEF WordInv, SlabWords
<1>5. b - 1 \in Owned /\ OrdOf[b - 1] = 1
  <2>1. b - 1 \in Owned /\ OrderAt(b - 1) = 1
    BY <1>0, <1>4 DEF Owned, OrderAt, PoolInv
  <2> QED  BY <1>0, <2>1, OwnedFacts
<1>6. b \in BlockPages(b - 1, 1)
  <2>1. BlockPages(b - 1, 1) = (b - 1) .. (b - 1) + 2 - 1
    BY PowerOfOne DEF BlockPages
  <2> QED  BY <1>1, <2>1, SMTT(30)
<1>7. b - 1 # b
  BY <1>1, SMTT(30)
<1>8. BlockPages(b - 1, OrdOf[b - 1]) \cap BlockPages(b, OrdOf[b]) = {}
  BY <1>0, <1>5, <1>7 DEF PoolInv, Layout
<1> QED  BY <1>1, <1>5, <1>6, <1>8

LEMMA KfreeBlockWords ==
  ASSUME Inv, Inv', WordInv, NEW b \in Pages, kfree_block(b)
  PROVE  WordInv'
<1>0. CacheInv /\ PoolInv
  BY DEF Inv
<1>1. b \in live /\ live' = live \ {b} /\ UNCHANGED overrun /\ Listed(list') = Listed(list)
  BY <1>0, CacheUnchanged DEF kfree_block
<1>2. ~FindsSlab(b) /\ word[b] = "alloc" /\ b \notin lost /\ b \notin Listed(list)
  BY <1>0, <1>1, NoSlabAroundBlock DEF WordInv, OwnerWords, PoolInv
<1>3. CASE b \in end_intact
  <2>1. Release(b) /\ UNCHANGED lost
    BY <1>2, <1>3 DEF kfree_block, Uncorrupted
  <2> DEFINE w == [word EXCEPT ![b] = "freed"]
  <2>2. /\ Pool!Release(FreedBlock(b)) /\ word' = Relink(w, avail')
        /\ size' = [size EXCEPT ![b] = 0] /\ end_intact' = end_intact \ {b}
    BY <2>1 DEF Release
  <2>3. avail \subseteq avail'
    BY <2>2 DEF Pool!Release
  <2>4. w[b] = "freed" /\ \A p \in Pages : p # b => w[p] = word[p]
    BY <1>0 DEF PoolInv
  <2> HIDE DEF w
  <2>5. Linked'
    BY <2>2, LinkedAfter
  <2>6. SlabWords'
    <3>1. \A p \in Pages : word'[p] = "slab" => word[p] = "slab"
      BY <2>2, <2>4, RelinkWords
    <3> QED  BY <1>1, <2>3, <3>1, SlabWordsRelease DEF WordInv
  <2>7. \A c \in live' \cup Listed(list') : c \in Pages /\ c # b /\ word'[c] = word[c]
    <3> TAKE c \in live' \cup Listed(list')
    <3>1. c \in Owned /\ c \in Owned' /\ c # b
      BY <1>1, <1>2 DEF Owned
    <3>2. c \in Pages
      BY <1>0, <3>1, OwnedFacts
    <3>3. word'[c] = w[c]
      BY <2>2, <3>1, OwnersKeepWords
    <3> QED  BY <2>4, <3>1, <3>2, <3>3
  <2>8. \A c \in live' : size'[c] = size[c]
    BY <1>0, <2>2, <2>7 DEF PoolInv
  <2>9. OwnerWords'
    BY <1>1, <2>7, <2>8 DEF WordInv, OwnerWords
  <2>10. Magics'
    BY <1>1, <1>3, <2>1, <2>2 DEF WordInv, Magics
  <2> QED  BY <2>5, <2>6, <2>9, <2>10 DEF WordInv
<1>4. CASE b \notin end_intact
  <2>1. lost' = lost \cup {b} /\ UNCHANGED <<avail, word, size, end_intact>>
    BY <1>4 DEF kfree_block, Uncorrupted, pool
  <2>2. b \in overrun
    BY <1>1, <1>4 DEF WordInv, Magics
  <2>3. Linked' /\ SlabWords'
    BY <1>1, <2>1 DEF WordInv, Linked, SlabWords, Paired
  <2>4. OwnerWords'
    BY <1>1, <2>1 DEF WordInv, OwnerWords
  <2>5. Magics'
    BY <1>1, <2>1, <2>2 DEF WordInv, Magics
  <2> QED  BY <2>3, <2>4, <2>5 DEF WordInv
<1> QED  BY <1>3, <1>4

LEMMA ShrinkWords ==
  ASSUME Inv, Inv', WordInv, NEW gone \in SUBSET Slabs, slab_cache_shrink(gone)
  PROVE  WordInv'
<1>0. CacheInv /\ PoolInv
  BY DEF Inv
<1>1. /\ Cache!slab_cache_shrink(gone) /\ word' = Relink(word, avail')
      /\ avail' = avail \cup UNION {BlockPages(s, 1) : s \in gone}
      /\ UNCHANGED <<size, end_intact, live, raw, lost, overrun>>
  BY DEF slab_cache_shrink, blocks
<1>2. Listed(list') = Listed(list) \ gone /\ gone \subseteq Listed(list)
  BY <1>0, <1>1, ShrinkCache
<1>3. Linked'
  BY <1>1, LinkedAfter
<1>4. \A s \in Listed(list) \ Listed(list') : Paired(s)'
  <2> TAKE s \in Listed(list) \ Listed(list')
  <2>1. s \in gone /\ s % 2 = 0 /\ s \in Nat
    BY <1>2, PagesAreNat DEF Slabs
  <2>2. BlockPages(s, 1) = s .. s + 2 - 1
    BY PowerOfOne DEF BlockPages
  <2>3. s \in BlockPages(s, 1) /\ s + 1 \in BlockPages(s, 1)
    BY <2>1, <2>2, SMTT(30)
  <2> QED  BY <1>1, <2>1, <2>3 DEF Paired
<1>5. SlabWords'
  <2>1. \A p \in Pages : word'[p] = "slab" => word[p] = "slab"
    BY <1>1, RelinkWords
  <2>2. avail \subseteq avail'
    BY <1>1
  <2> QED  BY <1>4, <2>1, <2>2, SlabWordsRelease DEF WordInv
<1>6. \A c \in Owned' : word'[c] = word[c]
  BY <1>1, OwnersKeepWords
<1>7. OwnerWords'
  BY <1>1, <1>2, <1>6 DEF WordInv, OwnerWords, Owned
<1>8. Magics'
  BY <1>1 DEF WordInv, Magics
<1> QED  BY <1>3, <1>5, <1>7, <1>8 DEF WordInv

LEMMA OverrunWords ==
  ASSUME Inv, WordInv, NEW b \in Pages, Overrun(b)
  PROVE  WordInv'
<1>1. /\ b \in live /\ end_intact' = end_intact \ {b} /\ overrun' = overrun \cup {b}
      /\ UNCHANGED <<avail, word, size, live, lost, list>>
  BY DEF Overrun, pool, cache
<1>2. Linked' /\ SlabWords'
  BY <1>1 DEF WordInv, Linked, SlabWords, Paired
<1>3. OwnerWords'
  BY <1>1 DEF WordInv, OwnerWords
<1>4. Magics'
  BY <1>1 DEF WordInv, Magics
<1> QED  BY <1>2, <1>3, <1>4 DEF WordInv

LEMMA StutterWords ==
  ASSUME WordInv, UNCHANGED vars
  PROVE  WordInv'
<1>1. UNCHANGED <<avail, word, size, end_intact, live, lost, overrun, list>>
  BY DEF vars, pool, blocks, cache
<1> QED  BY <1>1, SameWords

LEMMA WordsInit == Init => WordInv
<1> SUFFICES ASSUME Init PROVE WordInv
  OBVIOUS
<1>1. /\ avail = Pages /\ live = {} /\ lost = {} /\ overrun = {}
      /\ word = Relink([p \in Pages |-> "data"], Pages)
  BY DEF Init
<1>2. Listed(list) = {}
  <2>1. list = [l \in Lists |-> {}]
    BY DEF Init, Cache!Init, Cache!Lists, Lists
  <2> QED  BY <2>1 DEF Listed, Lists
<1>3. \A p \in Pages : FreeStart(avail, p) => word[p] = "link"
  BY <1>1, RelinkAt
<1>4. \A p \in Pages : word[p] # "slab"
  BY <1>1, RelinkWords, SMTT(30)
<1> QED  BY <1>1, <1>2, <1>3, <1>4 DEF WordInv, Linked, SlabWords, OwnerWords, Magics

LEMMA WordsInductive ==
  ASSUME NoSpill
  PROVE  WordInv /\ Inv /\ Inv' /\ [Next]_vars => WordInv'
<1> SUFFICES ASSUME WordInv, Inv, Inv', [Next]_vars PROVE WordInv'
  OBVIOUS
<1>1. CASE UNCHANGED vars
  BY <1>1, StutterWords
<1>2. ASSUME NEW sz \in Sizes, kmalloc_object(sz) \/ kmalloc_block(sz) \/ kmalloc_fails(sz)
      PROVE  WordInv'
  BY <1>2, KmallocObjectWords, KmallocBlockWords, StutterWords DEF kmalloc_fails
<1>3. CASE pmm_alloc_page
  BY <1>3, AllocPageWords
<1>4. ASSUME NEW b \in Pages,
             pmm_free_page(b) \/ kfree_block(b) \/ kfree_block_again(b) \/ Overrun(b)
      PROVE  WordInv'
  BY <1>4, FreePageWords, KfreeBlockWords, KfreeBlockAgainInv, StutterWords, OverrunWords
<1>5. ASSUME NEW s \in Slabs, NEW o \in Objects, kfree_object(s, o) \/ Write(s, o)
      PROVE  WordInv'
  <2>1. Listed(list') = Listed(list)
    BY <1>5, KfreeCache, KfreeAgainCache, WriteCache DEF kfree_object, Write, Inv
  <2>2. UNCHANGED <<avail, word, size, end_intact, live, lost, overrun>>
    BY <1>5 DEF kfree_object, Write, pool, blocks
  <2> QED  BY <2>1, <2>2, SameWords
<1>6. ASSUME NEW gone \in SUBSET Slabs, slab_cache_shrink(gone) PROVE WordInv'
  BY <1>6, ShrinkWords
<1> QED  BY <1>1, <1>2, <1>3, <1>4, <1>5, <1>6 DEF Next

LEMMA WordInvariance ==
  ASSUME NoSpill
  PROVE  Spec => []WordInv
  BY WordsInit, WordsInductive, Invariance, PTL DEF Spec

\* When no end magic reaches past its block, slab_find_containing tells objects and
\* blocks apart by what is in memory, although slab_destroy leaves SLAB_MAGIC behind.
THEOREM KfreeFindsTheRightOwner ==
  ASSUME NoSpill
  PROVE  Spec => []KfreeFindsTheOwner
<1>1. WordInv /\ Inv => KfreeFindsTheOwner
  <2> SUFFICES ASSUME WordInv, Inv PROVE KfreeFindsTheOwner
    OBVIOUS
  <2>1. \A b \in live : ~FindsSlab(b)
    BY NoSlabAroundBlock
  <2>2. ASSUME NEW p \in objects PROVE FindsOwnSlab(p[1])
    <3>0. CacheInv
      BY DEF Inv
    <3>1. p \in Slabs \X Objects
      BY <3>0 DEF CacheInv
    <3>2. PICK s \in Slabs, o \in Objects : p = <<s, o>>
      BY <3>1, SMTT(30)
    <3>3. s \in Listed(list)
      BY <3>0, <3>2 DEF CacheInv
    <3> QED  BY <3>2, <3>3 DEF WordInv, OwnerWords, FindsOwnSlab
  <2> QED  BY <2>1, <2>2 DEF KfreeFindsTheOwner
<1> QED  BY <1>1, WordInvariance, Invariance, PTL

\* When no end magic reaches past its block, kfree refuses exactly the blocks whose
\* holders wrote past their end, and none of these goes back to the pool.
THEOREM OnlyOverrunBlocksRefused ==
  ASSUME NoSpill
  PROVE  Spec => []RefusedIffOverrun
<1>1. WordInv /\ Inv => RefusedIffOverrun
  <2> SUFFICES ASSUME WordInv, Inv PROVE RefusedIffOverrun
    OBVIOUS
  <2>1. lost \subseteq overrun /\ overrun \subseteq Owned
    BY DEF WordInv, Magics, Owned
  <2>2. \A b \in Owned : b \notin avail
    BY OwnedFacts DEF Inv
  <2> QED  BY <2>1, <2>2 DEF RefusedIffOverrun
<1> QED  BY <1>1, WordInvariance, Invariance, PTL
====
