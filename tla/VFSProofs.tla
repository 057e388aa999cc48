------------------------------ MODULE VFSProofs ------------------------------
(***************************************************************************)
(* Proofs about VFS, for every tree of nodes, every set of paths and every *)
(* hash that keeps entries of one name and different parents apart: the    *)
(* cache holds what exists, walks find what paths name, and the counts of  *)
(* references are right.                                                   *)
(***************************************************************************)
EXTENDS VFS, FiniteSetTheorems, WellFoundedInduction, TLAPS

\* Leaves go to Zenon unless they name the SMT solver.
USE ZenonT(90)

\* dcache_lookup and dcache_remove compare names only: an entry with the name looked
\* for, in the bucket of that name and of a directory, is the directory's own.
BucketsApart ==
  \A p \in Nodes \cup {NULL}, n \in Nodes : Bucket(p, NodeName[n]) = BucketOf(n) => NodeParent[n] = p

-----------------------------------------------------------------------------
(* Recursion. *)

LEMMA Smallest ==
  ASSUME NEW S, S \subseteq Nat, S # {}
  PROVE  \E x \in S : \A y \in S : x <= y
<1>1. PICK x \in S : \A y \in S : ~(<<y, x>> \in OpToRel(<, Nat))
  BY NatLessThanWellFounded, WFMin
<1>2. ASSUME NEW y \in S, y < x PROVE FALSE
  <2>1. <<y, x>> \in OpToRel(<, Nat)
    BY <1>2, SMTT(30) DEF OpToRel
  <2> QED  BY <1>1, <2>1
<1>3. \A y \in S : x \in Nat /\ y \in Nat
  OBVIOUS
<1> QED  BY <1>2, <1>3, SMTT(30)

\* A set of numbers that has 0 and, with each number, the next one.
LEMMA UpTo ==
  ASSUME NEW N \in Nat, NEW S, 0 \in S, \A n \in 1 .. N : n - 1 \in S => n \in S
  PROVE  \A n \in 0 .. N : n \in S
<1> DEFINE Bad == {n \in 0 .. N : n \notin S}
<1> SUFFICES ASSUME Bad # {} PROVE FALSE
  OBVIOUS
<1>1. Bad \subseteq Nat
  BY SMTT(30)
<1>2. PICK x \in Bad : \A y \in Bad : x <= y
  BY <1>1, Smallest
<1>3. x \in 1 .. N /\ x - 1 \in 0 .. N /\ ~(x <= x - 1)
  BY <1>2, SMTT(30)
<1>4. x - 1 \in S
  BY <1>2, <1>3
<1> QED  BY <1>3, <1>4

After(c, x) == IF x = NULL THEN NULL ELSE c.next[x]

\* The entries of a bucket, as Entry defines them.
LEMMA EntryDef ==
  ASSUME NEW c, NEW b
  PROVE  /\ Entry(c, b)[0] = c.head[b]
         /\ \A k \in 1 .. MaxEntries : Entry(c, b)[k] = After(c, Entry(c, b)[k - 1])
<1> DEFINE Eq(f, n) == f = [k \in 0 .. n |-> IF k = 0 THEN c.head[b] ELSE After(c, f[k - 1])]
           S == {n \in Nat : \E f : Eq(f, n)}
<1>1. MaxEntries \in Nat
  BY FS_CardinalityType, TreeAssumption DEF MaxEntries
<1>2. 0 \in S
  <2>1. Eq([k \in 0 .. 0 |-> c.head[b]], 0)
    BY SMTT(30)
  <2> QED  BY <2>1
<1>3. ASSUME NEW n \in 1 .. MaxEntries, n - 1 \in S PROVE n \in S
  <2>1. PICK f : Eq(f, n - 1)
    BY <1>3
  <2> DEFINE g == [k \in 0 .. n |-> IF k = n THEN After(c, f[n - 1]) ELSE f[k]]
  <2>2. Eq(g, n)
    BY <2>1, SMTT(30)
  <2>3. n \in Nat
    BY SMTT(30)
  <2> HIDE DEF g
  <2> QED  BY <2>2, <2>3
<1>4. \E f : Eq(f, MaxEntries)
  <2>1. \A n \in 0 .. MaxEntries : n \in S
    <3> HIDE DEF S
    <3> QED  BY <1>1, <1>2, <1>3, UpTo
  <2>2. MaxEntries \in 0 .. MaxEntries
    BY <1>1, SMTT(30)
  <2> QED  BY <2>1, <2>2
<1>5. Entry(c, b) = CHOOSE f : Eq(f, MaxEntries)
  BY DEF Entry, After
<1>6. PICK e : e = Entry(c, b) /\ Eq(e, MaxEntries)
  BY <1>4, <1>5
<1>7. e[0] = c.head[b] /\ \A k \in 1 .. MaxEntries : e[k] = After(c, e[k - 1])
  <2> DEFINE F == [k \in 0 .. MaxEntries |-> IF k = 0 THEN c.head[b] ELSE After(c, e[k - 1])]
  <2>1. 0 \in 0 .. MaxEntries /\ \A k \in 1 .. MaxEntries : k \in 0 .. MaxEntries /\ k # 0
    BY <1>1, SMTT(30)
  <2>2. F[0] = c.head[b] /\ \A k \in 1 .. MaxEntries : F[k] = After(c, e[k - 1])
    BY <2>1
  <2>3. e = F
    BY <1>6
  <2> HIDE DEF F
  <2> QED  BY <2>2, <2>3
<1> QED  BY <1>6, <1>7

-----------------------------------------------------------------------------
(* The buckets. *)

CacheRecs == [head : [Buckets -> Nodes \cup {NULL}], next : [Nodes -> Nodes \cup {NULL}]]

\* The entries q[0], ..., q[n - 1] of bucket b are the dentries of A that belong there.
Chain(c, A, b, q, n) ==
  /\ n \in Nat /\ q \in [0 .. n -> Nodes \cup {NULL}]
  /\ q[n] = NULL /\ c.head[b] = q[0]
  /\ \A i \in 0 .. n - 1 : q[i] \in A /\ BucketOf(q[i]) = b /\ c.next[q[i]] = q[i + 1]
  /\ \A i, j \in 0 .. n - 1 : q[i] = q[j] => i = j
  /\ \A d \in A : BucketOf(d) = b => \E i \in 0 .. n - 1 : q[i] = d

Caches(c, A) ==
  /\ c \in CacheRecs /\ A \subseteq Nodes
  /\ \A b \in Buckets : \E q, n : Chain(c, A, b, q, n)

LEMMA BucketFacts ==
  /\ \A d \in Nodes : BucketOf(d) \in Buckets
  /\ \A p \in Nodes, m \in Names : Bucket(p, m) \in Buckets
<1>1. \A p \in Nodes \cup {NULL}, m \in Names : Bucket(p, m) \in Buckets
  BY SMTT(30) DEF Buckets
<1>2. \A d \in Nodes : NodeParent[d] \in Nodes \cup {NULL} /\ NodeName[d] \in Names
  BY TreeAssumption DEF Names
<1> QED  BY <1>1, <1>2 DEF BucketOf

\* A bucket has no more entries than there are nodes.
LEMMA ChainLength ==
  ASSUME NEW c, NEW A, A \subseteq Nodes, NEW b, NEW q, NEW n, Chain(c, A, b, q, n)
  PROVE  n \in Nat /\ MaxEntries \in Nat /\ n <= MaxEntries
<1> DEFINE f == [i \in 0 .. n - 1 |-> q[i]]
<1>1. n \in Nat /\ MaxEntries \in Nat
  BY FS_CardinalityType, TreeAssumption DEF Chain, MaxEntries
<1>2. f \in Injection(0 .. n - 1, Nodes)
  <2>1. f \in [0 .. n - 1 -> Nodes]
    BY DEF Chain
  <2>2. \A i, j \in 0 .. n - 1 : f[i] = f[j] => i = j
    BY DEF Chain
  <2> HIDE DEF f
  <2> QED  BY <2>1, <2>2 DEF Injection, IsInjective
<1>3. Cardinality(0 .. n - 1) <= MaxEntries
  <2> HIDE DEF f
  <2> QED  BY <1>2, FS_Injection, TreeAssumption DEF MaxEntries
<1>4. Cardinality(0 .. n - 1) = IF 0 > n - 1 THEN 0 ELSE (n - 1) - 0 + 1
  <2>1. 0 \in Int /\ n - 1 \in Int
    BY <1>1, SMTT(30)
  <2> QED  BY <2>1, FS_Interval
<1> QED  BY <1>1, <1>3, <1>4, SMTT(30)

LEMMA EntryOfChain ==
  ASSUME NEW c, NEW A, A \subseteq Nodes, NEW b, NEW q, NEW n, Chain(c, A, b, q, n)
  PROVE  \A k \in 0 .. MaxEntries : Entry(c, b)[k] = IF k < n THEN q[k] ELSE NULL
<1> DEFINE S == {k \in Nat : k <= MaxEntries => Entry(c, b)[k] = IF k < n THEN q[k] ELSE NULL}
<1>1. n \in Nat /\ MaxEntries \in Nat
  BY ChainLength
<1>2. 0 \in S
  <2>2. Entry(c, b)[0] = c.head[b]
    BY EntryDef
  <2>3. c.head[b] = IF 0 < n THEN q[0] ELSE NULL
    <3>1. n = 0 \/ 0 < n
      BY <1>1, SMTT(30)
    <3> QED  BY <3>1 DEF Chain
  <2> QED  BY <2>2, <2>3
<1>3. ASSUME NEW k \in 1 .. MaxEntries, k - 1 \in S PROVE k \in S
  <2>1. k \in Nat /\ k \in 0 .. MaxEntries /\ k # 0 /\ k - 1 <= MaxEntries
    BY <1>1, SMTT(30)
  <2>2. Entry(c, b)[k] = IF Entry(c, b)[k - 1] = NULL THEN NULL ELSE c.next[Entry(c, b)[k - 1]]
    <3>1. Entry(c, b)[k] = After(c, Entry(c, b)[k - 1])
      BY EntryDef, SMTT(30)
    <3> QED  BY <3>1 DEF After
  <2>3. Entry(c, b)[k - 1] = IF k - 1 < n THEN q[k - 1] ELSE NULL
    BY <1>3, <2>1
  <2>4. CASE k - 1 < n
    <3>1. k - 1 \in 0 .. n - 1 /\ (k - 1) + 1 = k
      BY <1>1, <2>4, SMTT(30)
    <3>2. q[k - 1] \in A /\ c.next[q[k - 1]] = q[k]
      BY <3>1 DEF Chain
    <3>3. q[k - 1] # NULL
      BY <3>2, TreeAssumption
    <3>4. k < n \/ k = n
      BY <1>1, <2>4, SMTT(30)
    <3> QED  BY <2>1, <2>2, <2>3, <2>4, <3>2, <3>3, <3>4, <1>1, SMTT(30) DEF Chain
  <2>5. CASE ~(k - 1 < n)
    <3>1. ~(k < n)
      BY <1>1, <2>5, SMTT(30)
    <3> QED  BY <2>1, <2>2, <2>3, <2>5, <3>1
  <2> QED  BY <2>4, <2>5
<1>4. \A k \in 0 .. MaxEntries : k \in S
  <2> HIDE DEF S
  <2> QED  BY <1>1, <1>2, <1>3, UpTo
<1>5. \A k \in 0 .. MaxEntries : k <= MaxEntries
  BY <1>1, SMTT(30)
<1> QED  BY <1>4, <1>5

\* What a search of a bucket meets: the entries of the chain, and then the end.
LEMMA SearchOfChain ==
  ASSUME NEW c, NEW A, A \subseteq Nodes, NEW b, NEW q, NEW n, Chain(c, A, b, q, n)
  PROVE  /\ Ends(c, b)
         /\ \A m : Named(c, b, m) = {k \in 0 .. n - 1 : NodeName[q[k]] = m}
         /\ \A k \in 0 .. n - 1 : Entry(c, b)[k] = q[k]
<1>1. n \in Nat /\ MaxEntries \in Nat /\ n <= MaxEntries
  BY ChainLength
<1>2. \A k \in 0 .. MaxEntries : Entry(c, b)[k] = IF k < n THEN q[k] ELSE NULL
  BY EntryOfChain
<1>3. MaxEntries \in 0 .. MaxEntries /\ ~(MaxEntries < n)
  BY <1>1, SMTT(30)
<1>4. \A k : k \in 0 .. n - 1 <=> k \in 0 .. MaxEntries /\ k < n
  BY <1>1, SMTT(30)
<1>5. \A k \in 0 .. n - 1 : q[k] # NULL
  BY TreeAssumption DEF Chain
<1>6. ASSUME NEW m PROVE Named(c, b, m) = {k \in 0 .. n - 1 : NodeName[q[k]] = m}
  BY <1>2, <1>4, <1>5 DEF Named
<1> QED  BY <1>2, <1>3, <1>4, <1>6 DEF Ends

LEMMA FirstOf ==
  ASSUME NEW S, S \subseteq Nat, S # {}
  PROVE  Min(S) \in S
  BY Smallest DEF Min

\* Under BucketsApart, two entries of one bucket with the same name are one.
LEMMA OneOfAName ==
  ASSUME BucketsApart, NEW d \in Nodes, NEW e \in Nodes, BucketOf(d) = BucketOf(e),
         NodeName[d] = NodeName[e]
  PROVE  d = e
<1>1. NodeParent[d] \in Nodes \cup {NULL}
  BY TreeAssumption
<1>2. Bucket(NodeParent[d], NodeName[e]) = BucketOf(e)
  BY DEF BucketOf
<1>3. NodeParent[e] = NodeParent[d]
  BY <1>1, <1>2 DEF BucketsApart
<1> QED  BY <1>3, TreeAssumption

LEMMA FsLookupFacts ==
  ASSUME NEW dir, NEW m
  PROVE  /\ FsLookup(dir, m) \in Nodes \cup {NULL}
         /\ FsLookup(dir, m) \in Nodes =>
              NodeParent[FsLookup(dir, m)] = dir /\ NodeName[FsLookup(dir, m)] = m
         /\ \A n \in Nodes : NodeParent[n] = dir /\ NodeName[n] = m => FsLookup(dir, m) = n
<1> DEFINE found == {n \in Nodes : NodeParent[n] = dir /\ NodeName[n] = m}
<1>1. FsLookup(dir, m) = IF found = {} THEN NULL ELSE CHOOSE n \in found : TRUE
  BY DEF FsLookup
<1>2. CASE found = {}
  BY <1>1, <1>2, TreeAssumption
<1>3. CASE found # {}
  <2>1. (CHOOSE n \in found : TRUE) \in found
    BY <1>3
  <2>2. FsLookup(dir, m) \in found
    BY <1>1, <1>3, <2>1
  <2> QED  BY <2>2, TreeAssumption
<1> QED  BY <1>2, <1>3

\* A search finds the directory's own entry if it exists, and ends.
LEMMA LookupFinds ==
  ASSUME BucketsApart, NEW c, NEW A, Caches(c, A), NEW p \in Nodes, NEW m \in Names
  PROVE  /\ ~Spins(c, Bucket(p, m), m)
         /\ dcache_lookup(c, p, m) = IF FsLookup(p, m) \in A THEN FsLookup(p, m) ELSE NULL
<1> DEFINE b == Bucket(p, m)
           ks == Named(c, b, m)
<1>1. b \in Buckets /\ A \subseteq Nodes /\ NULL \notin A
  BY BucketFacts, TreeAssumption DEF Caches
<1>2. PICK q, n : Chain(c, A, b, q, n)
  BY <1>1 DEF Caches
<1>3. /\ Ends(c, b) /\ ks = {k \in 0 .. n - 1 : NodeName[q[k]] = m}
      /\ \A k \in 0 .. n - 1 : Entry(c, b)[k] = q[k]
  BY <1>1, <1>2, SearchOfChain, SMTT(30)
<1>4. dcache_lookup(c, p, m) = IF ks = {} THEN NULL ELSE Entry(c, b)[Min(ks)]
  BY DEF dcache_lookup
<1>5. CASE ks = {}
  <2>1. ASSUME FsLookup(p, m) \in A PROVE FALSE
    <3>1. NodeParent[FsLookup(p, m)] = p /\ NodeName[FsLookup(p, m)] = m
      BY <1>1, <2>1, FsLookupFacts
    <3>2. BucketOf(FsLookup(p, m)) = b
      BY <3>1 DEF BucketOf
    <3>3. PICK i \in 0 .. n - 1 : q[i] = FsLookup(p, m)
      BY <1>2, <2>1, <3>2 DEF Chain
    <3> QED  BY <1>3, <1>5, <3>1, <3>3
  <2> QED  BY <1>3, <1>4, <1>5, <2>1 DEF Spins
<1>6. CASE ks # {}
  <2>1. n \in Nat
    BY <1>2 DEF Chain
  <2>2. ks \subseteq Nat
    BY <1>3, <2>1, SMTT(30)
  <2>3. Min(ks) \in ks
    BY <1>6, <2>2, FirstOf
  <2>4. PICK k \in 0 .. n - 1 : k = Min(ks) /\ NodeName[q[k]] = m
    BY <1>3, <2>3
  <2>5. q[k] \in A /\ BucketOf(q[k]) = b
    BY <1>2, <2>4 DEF Chain
  <2>6. NodeParent[q[k]] = p
    BY <1>1, <2>4, <2>5 DEF BucketsApart
  <2>7. FsLookup(p, m) = q[k]
    BY <1>1, <2>4, <2>5, <2>6, FsLookupFacts, SMTT(30)
  <2> QED  BY <1>3, <1>4, <1>6, <2>4, <2>5, <2>7 DEF Spins
<1> QED  BY <1>5, <1>6

\* dcache_add links a new entry in front of its bucket.
LEMMA AddKeeps ==
  ASSUME NEW c, NEW A, Caches(c, A), NEW d \in Nodes, d \notin A
  PROVE  Caches(dcache_add(c, d), A \cup {d})
<1> DEFINE b0 == BucketOf(d)
           e == dcache_add(c, d)
<1>1. c \in CacheRecs /\ A \subseteq Nodes /\ b0 \in Buckets
  BY BucketFacts DEF Caches
<1>2. /\ e \in CacheRecs
      /\ e.next[d] = c.head[b0] /\ \A x \in Nodes \ {d} : e.next[x] = c.next[x]
      /\ e.head[b0] = d /\ \A b \in Buckets \ {b0} : e.head[b] = c.head[b]
  BY <1>1 DEF dcache_add, CacheRecs
<1> HIDE DEF e
<1>3. ASSUME NEW b \in Buckets PROVE \E q, n : Chain(e, A \cup {d}, b, q, n)
  <2>1. PICK q, n : Chain(c, A, b, q, n)
    BY DEF Caches
  <2>2. n \in Nat /\ \A i \in 0 .. n - 1 : q[i] \in Nodes /\ q[i] # d
    BY <1>1, <2>1, SMTT(30) DEF Chain
  <2>3. CASE b = b0
    <3> DEFINE r == [i \in 0 .. n + 1 |-> IF i = 0 THEN d ELSE q[i - 1]]
    <3>1. /\ n + 1 \in Nat /\ r \in [0 .. n + 1 -> Nodes \cup {NULL}]
          /\ r[0] = d /\ \A i \in 0 .. n : r[i + 1] = q[i]
      BY <2>1, <2>2, SMTT(30) DEF Chain
    <3>2. \A i \in 0 .. (n + 1) - 1 : i = 0 \/ (i - 1 \in 0 .. n - 1 /\ i = (i - 1) + 1 /\ i - 1 \in 0 .. n)
      <4>1. n \in Nat
        BY <2>2
      <4> QED  BY <4>1, SMTT(30)
    <3> HIDE DEF r
    <3>3. ASSUME NEW i \in 0 .. (n + 1) - 1
          PROVE  r[i] \in A \cup {d} /\ BucketOf(r[i]) = b /\ e.next[r[i]] = r[i + 1]
      <4>1. CASE i = 0
        <5>1. 0 \in 0 .. n
          BY <2>2, SMTT(30)
        <5>2. e.next[d] = q[0] /\ r[0 + 1] = q[0]
          BY <1>2, <2>1, <2>3, <3>1, <5>1 DEF Chain
        <5> QED  BY <2>3, <3>1, <4>1, <5>2
      <4>2. CASE i - 1 \in 0 .. n - 1 /\ i = (i - 1) + 1 /\ i - 1 \in 0 .. n
        <5>1. r[i] = q[i - 1] /\ r[i + 1] = q[i]
          BY <2>2, <3>1, <4>2, SMTT(30)
        <5>2. q[i - 1] \in A /\ BucketOf(q[i - 1]) = b /\ c.next[q[i - 1]] = q[i]
          BY <2>1, <4>2 DEF Chain
        <5> QED  BY <1>2, <2>2, <4>2, <5>1, <5>2
      <4> QED  BY <3>2, <4>1, <4>2
    <3>4. ASSUME NEW i \in 0 .. (n + 1) - 1, NEW j \in 0 .. (n + 1) - 1, r[i] = r[j] PROVE i = j
      <4>1. ASSUME NEW k \in 0 .. (n + 1) - 1, k # 0 PROVE r[k] = q[k - 1] /\ k - 1 \in 0 .. n - 1
        BY <3>1, <3>2, <4>1
      <4>2. CASE i = 0 \/ j = 0
        BY <2>2, <3>1, <3>4, <4>1, <4>2
      <4>3. CASE i # 0 /\ j # 0
        <5>1. i - 1 = j - 1
          BY <2>1, <3>4, <4>1, <4>3, SMTT(30) DEF Chain
        <5> QED  BY <2>2, <5>1, SMTT(30)
      <4> QED  BY <4>2, <4>3
    <3>5. ASSUME NEW x \in A \cup {d}, BucketOf(x) = b PROVE \E i \in 0 .. (n + 1) - 1 : r[i] = x
      <4>1. 0 \in 0 .. (n + 1) - 1 /\ \A i \in 0 .. n - 1 : i + 1 \in 0 .. (n + 1) - 1 /\ i \in 0 .. n
        BY <2>2, SMTT(30)
      <4>2. CASE x = d
        BY <3>1, <4>1, <4>2
      <4>3. CASE x \in A
        <5>1. PICK i \in 0 .. n - 1 : q[i] = x
          BY <2>1, <3>5, <4>3 DEF Chain
        <5> QED  BY <3>1, <4>1, <5>1
      <4> QED  BY <4>2, <4>3
    <3>6. r[n + 1] = NULL /\ e.head[b] = r[0]
      <4>1. n \in 0 .. n
        BY <2>2, SMTT(30)
      <4> QED  BY <1>2, <2>1, <2>3, <3>1, <4>1 DEF Chain
    <3>7. Chain(e, A \cup {d}, b, r, n + 1)
      BY <3>1, <3>3, <3>4, <3>5, <3>6 DEF Chain
    <3> QED  BY <3>7
  <2>4. CASE b # b0
    <3>1. \A i \in 0 .. n - 1 : e.next[q[i]] = c.next[q[i]]
      BY <1>2, <2>2
    <3>2. e.head[b] = c.head[b] /\ \A x \in A \cup {d} : BucketOf(x) = b => x \in A
      BY <1>2, <2>4
    <3>3. Chain(e, A \cup {d}, b, q, n)
      BY <2>1, <3>1, <3>2 DEF Chain
    <3> QED  BY <3>3
  <2> QED  BY <2>3, <2>4
<1>4. Caches(e, A \cup {d})
  <2>1. A \cup {d} \subseteq Nodes /\ e \in CacheRecs
    BY <1>1, <1>2
  <2> QED  BY <1>3, <2>1 DEF Caches
<1> QED  BY <1>4 DEF e

\* dcache_remove unlinks the entry itself.
LEMMA RemoveKeeps ==
  ASSUME BucketsApart, NEW c, NEW A, Caches(c, A), NEW d \in A
  PROVE  /\ ~Spins(c, BucketOf(d), NodeName[d])
         /\ Caches(dcache_remove(c, d), A \ {d})
<1> DEFINE b0 == BucketOf(d)
           e == dcache_remove(c, d)
           ks == Named(c, b0, NodeName[d])
<1>1. c \in CacheRecs /\ A \subseteq Nodes /\ b0 \in Buckets /\ d \in Nodes
  BY BucketFacts DEF Caches
<1>2. PICK q, n : Chain(c, A, b0, q, n)
  BY <1>1 DEF Caches
<1>3. PICK k \in 0 .. n - 1 : q[k] = d
  BY <1>2 DEF Chain
<1>4. /\ n \in Nat /\ k \in Nat /\ k < n /\ k + 1 \in 0 .. n /\ (k # 0 => k - 1 \in 0 .. n - 1)
      /\ \A i \in 0 .. n - 1 : q[i] \in A /\ q[i] \in Nodes /\ BucketOf(q[i]) = b0
      /\ \A i \in 0 .. n - 1 : c.next[q[i]] = q[i + 1]
      /\ \A i, j \in 0 .. n - 1 : q[i] = q[j] => i = j
  <2>1. n \in Nat
    BY <1>2 DEF Chain
  <2>2. k \in Nat /\ k < n /\ k + 1 \in 0 .. n /\ (k # 0 => k - 1 \in 0 .. n - 1)
    BY <1>3, <2>1, SMTT(30)
  <2> QED  BY <1>1, <1>2, <2>1, <2>2 DEF Chain
<1>5. /\ Ends(c, b0) /\ ks = {i \in 0 .. n - 1 : NodeName[q[i]] = NodeName[d]}
      /\ \A i \in 0 .. n - 1 : Entry(c, b0)[i] = q[i]
  BY <1>1, <1>2, SearchOfChain, SMTT(30)
<1>6. ks = {k}
  <2>1. ASSUME NEW i \in ks PROVE i = k
    <3>1. i \in 0 .. n - 1 /\ NodeName[q[i]] = NodeName[d]
      BY <1>5
    <3>2. q[i] = d
      BY <1>1, <1>4, <3>1, OneOfAName
    <3> QED  BY <1>3, <1>4, <3>1, <3>2
  <2>2. k \in ks
    BY <1>3, <1>5
  <2> QED  BY <2>1, <2>2
<1>7. Min(ks) = k
  <2>1. ks \subseteq Nat /\ ks # {}
    BY <1>4, <1>6
  <2> QED  BY <1>6, <2>1, FirstOf
<1>8. e = IF k = 0 THEN [c EXCEPT !.head[b0] = c.next[Entry(c, b0)[k]]]
          ELSE [c EXCEPT !.next[Entry(c, b0)[k - 1]] = c.next[Entry(c, b0)[k]]]
  BY <1>6, <1>7 DEF dcache_remove
<1>9. c.next[Entry(c, b0)[k]] = q[k + 1] /\ q[k + 1] \in Nodes \cup {NULL}
  BY <1>2, <1>3, <1>4, <1>5 DEF Chain
<1>10. /\ e \in CacheRecs
       /\ \A b \in Buckets \ {b0} : e.head[b] = c.head[b]
       /\ k = 0 => e.head[b0] = q[k + 1] /\ \A x \in Nodes : e.next[x] = c.next[x]
       /\ k # 0 => /\ e.head[b0] = c.head[b0] /\ e.next[q[k - 1]] = q[k + 1]
                   /\ \A x \in Nodes \ {q[k - 1]} : e.next[x] = c.next[x]
  <2>1. CASE k = 0
    <3>1. e = [c EXCEPT !.head[b0] = q[k + 1]]
      BY <1>8, <1>9, <2>1
    <3> HIDE DEF e
    <3> QED  BY <1>1, <1>9, <2>1, <3>1, SMTT(30) DEF CacheRecs
  <2>2. CASE k # 0
    <3>1. e = [c EXCEPT !.next[q[k - 1]] = q[k + 1]] /\ q[k - 1] \in Nodes
      BY <1>4, <1>5, <1>8, <1>9, <2>2
    <3> HIDE DEF e
    <3> QED  BY <1>1, <1>9, <2>2, <3>1, SMTT(30) DEF CacheRecs
  <2> QED  BY <2>1, <2>2
<1> HIDE DEF e
<1>11. ASSUME NEW b \in Buckets, b # b0 PROVE \E r, l : Chain(e, A \ {d}, b, r, l)
  <2>1. PICK r, l : Chain(c, A, b, r, l)
    BY DEF Caches
  <2>2. \A i \in 0 .. l - 1 : r[i] \in A \ {d} /\ r[i] \in Nodes /\ (k # 0 => r[i] # q[k - 1])
    <3> SUFFICES ASSUME NEW i \in 0 .. l - 1
                 PROVE  r[i] \in A \ {d} /\ r[i] \in Nodes /\ (k # 0 => r[i] # q[k - 1])
      OBVIOUS
    <3>1. r[i] \in A /\ BucketOf(r[i]) = b
      BY <2>1 DEF Chain
    <3>2. k # 0 => BucketOf(q[k - 1]) = b0
      BY <1>4
    <3> QED  BY <1>1, <1>11, <3>1, <3>2
  <2>3. \A i \in 0 .. l - 1 : e.next[r[i]] = c.next[r[i]]
    BY <1>10, <2>2
  <2>4. e.head[b] = c.head[b]
    BY <1>10, <1>11
  <2>5. Chain(e, A \ {d}, b, r, l)
    BY <2>1, <2>2, <2>3, <2>4 DEF Chain
  <2> QED  BY <2>5
<1>12. \E r, l : Chain(e, A \ {d}, b0, r, l)
  <2> DEFINE at(i) == IF i < k THEN i ELSE i + 1
             r == [i \in 0 .. n - 1 |-> q[at(i)]]
  <2>1. \A i \in 0 .. n - 1 : at(i) \in 0 .. n
    BY <1>4, SMTT(30)
  <2>2. /\ \A i \in 0 .. (n - 1) - 1 : at(i) \in 0 .. n - 1 /\ at(i) # k
        /\ \A i, j \in 0 .. (n - 1) - 1 : at(i) = at(j) => i = j
        /\ \A i \in 0 .. n - 1 : i # k => \E j \in 0 .. (n - 1) - 1 : at(j) = i
        /\ at(n - 1) = n /\ n - 1 \in Nat /\ n - 1 \in 0 .. n - 1 /\ 0 \in 0 .. n - 1
        /\ at(0) = IF k = 0 THEN k + 1 ELSE 0
        /\ \A i \in 0 .. (n - 1) - 1 : i \in 0 .. n - 1 /\ i + 1 \in 0 .. n - 1
        /\ \A i \in 0 .. (n - 1) - 1 : at(i + 1) = IF k # 0 /\ at(i) = k - 1 THEN k + 1 ELSE at(i) + 1
    <3>1. \A i \in 0 .. n - 1 : i # k => \E j \in 0 .. (n - 1) - 1 : at(j) = i
      <4> SUFFICES ASSUME NEW i \in 0 .. n - 1, i # k PROVE \E j \in 0 .. (n - 1) - 1 : at(j) = i
        OBVIOUS
      <4>1. CASE i < k
        <5>1. i \in 0 .. (n - 1) - 1 /\ at(i) = i
          BY <1>4, <4>1, SMTT(30)
        <5> QED  BY <5>1
      <4>2. CASE ~(i < k)
        <5>1. i - 1 \in 0 .. (n - 1) - 1 /\ at(i - 1) = i
          BY <1>4, <4>2, SMTT(30)
        <5> QED  BY <5>1
      <4> QED  BY <4>1, <4>2
    <3> QED  BY <1>4, <3>1, SMTT(30)
  <2>3. r \in [0 .. n - 1 -> Nodes \cup {NULL}]
    BY <1>2, <2>1 DEF Chain
  <2>4. \A i \in 0 .. n - 1 : r[i] = q[at(i)]
    OBVIOUS
  <2> HIDE DEF r, at
  <2>5. r[n - 1] = NULL
    BY <1>2, <2>2, <2>4 DEF Chain
  <2>6. e.head[b0] = r[0]
    <3>1. r[0] = q[IF k = 0 THEN k + 1 ELSE 0]
      BY <2>2, <2>4
    <3>2. c.head[b0] = q[0]
      BY <1>2 DEF Chain
    <3> QED  BY <1>10, <3>1, <3>2
  <2>7. ASSUME NEW i \in 0 .. (n - 1) - 1
        PROVE  r[i] \in A \ {d} /\ BucketOf(r[i]) = b0 /\ e.next[r[i]] = r[i + 1]
    <3>1. r[i] = q[at(i)] /\ r[i + 1] = q[at(i + 1)] /\ at(i) \in 0 .. n - 1 /\ at(i) # k
      BY <2>2, <2>4
    <3>2. r[i] \in A \ {d} /\ BucketOf(r[i]) = b0 /\ r[i] \in Nodes /\ c.next[r[i]] = q[at(i) + 1]
      BY <1>3, <1>4, <3>1
    <3>3. CASE k # 0 /\ at(i) = k - 1
      BY <1>10, <2>2, <3>1, <3>2, <3>3
    <3>4. CASE ~(k # 0 /\ at(i) = k - 1)
      <4>1. r[i + 1] = q[at(i) + 1]
        BY <2>2, <3>1, <3>4
      <4>2. e.next[r[i]] = c.next[r[i]]
        BY <1>4, <1>10, <3>1, <3>2, <3>4, SMTT(30)
      <4> QED  BY <3>2, <4>1, <4>2
    <3> QED  BY <3>2, <3>3, <3>4
  <2>8. \A i, j \in 0 .. (n - 1) - 1 : r[i] = r[j] => i = j
    <3> SUFFICES ASSUME NEW i \in 0 .. (n - 1) - 1, NEW j \in 0 .. (n - 1) - 1, r[i] = r[j] PROVE i = j
      OBVIOUS
    <3>1. /\ at(i) \in 0 .. n - 1 /\ at(j) \in 0 .. n - 1
          /\ r[i] = q[at(i)] /\ r[j] = q[at(j)]
      BY <2>2, <2>4
    <3>2. at(i) = at(j)
      BY <1>4, <3>1
    <3> QED  BY <2>2, <3>2
  <2>9. ASSUME NEW x \in A \ {d}, BucketOf(x) = b0 PROVE \E i \in 0 .. (n - 1) - 1 : r[i] = x
    <3>1. PICK i \in 0 .. n - 1 : q[i] = x
      BY <1>2, <2>9 DEF Chain
    <3>2. i # k
      BY <1>3, <3>1
    <3>3. PICK j \in 0 .. (n - 1) - 1 : at(j) = i
      BY <2>2, <3>2
    <3> QED  BY <2>2, <2>4, <3>1, <3>3
  <2>10. Chain(e, A \ {d}, b0, r, n - 1)
    BY <2>2, <2>3, <2>5, <2>6, <2>7, <2>8, <2>9 DEF Chain
  <2> QED  BY <2>10
<1>13. Caches(e, A \ {d})
  BY <1>1, <1>10, <1>11, <1>12 DEF Caches
<1>14. ~Spins(c, b0, NodeName[d])
  BY <1>5 DEF Spins
<1> QED  BY <1>13, <1>14 DEF e

-----------------------------------------------------------------------------
(* Walks. *)

ParentsIn(A) == \A d \in A : NodeParent[d] \in A \cup {NULL}

WalkRecs ==
  [at : Nodes \cup {NULL}, ref : [Nodes -> Int], iref : [Nodes -> Int], cache : CacheRecs,
   alive : SUBSET Nodes, found : Nodes \cup {NULL}, spins : BOOLEAN, done : BOOLEAN]

\* What the counts are, that were cr and ci while A existed, when B exists and a walk is
\* at d: one for the existence of a new dentry, and one for the walk.
Counts(A, cr, ci, B, r, ir, at) ==
  /\ \A d \in B : r[d] = (IF d \in A THEN cr[d] ELSE 1) + (IF d = at THEN 1 ELSE 0)
  /\ \A d \in Nodes : ir[d] = ci[d] + (IF d \in B \ A THEN 1 ELSE 0)

\* A walk that began in a state with the dentries A and the counts cr and ci.
Walking(w, A, cr, ci) ==
  /\ w \in WalkRecs /\ cr \in [Nodes -> Int] /\ ci \in [Nodes -> Int]
  /\ A \subseteq w.alive /\ ParentsIn(w.alive) /\ Caches(w.cache, w.alive)
  /\ ~w.spins
  /\ w.at \in w.alive \cup {NULL} /\ (w.at = NULL => w.done)
  /\ Counts(A, cr, ci, w.alive, w.ref, w.iref, w.at)

LEMMA RefFields ==
  ASSUME NEW w \in WalkRecs, NEW d \in Nodes, NEW v, v \in {Ref(w, d), Unref(w, d)}
  PROVE  /\ v \in WalkRecs
         /\ v.at = w.at /\ v.iref = w.iref /\ v.cache = w.cache /\ v.alive = w.alive
         /\ v.found = w.found /\ v.spins = w.spins /\ v.done = w.done
         /\ \A x \in Nodes \ {d} : v.ref[x] = w.ref[x]
         /\ v = Ref(w, d) => v.ref[d] = w.ref[d] + 1
         /\ v = Unref(w, d) => v.ref[d] = w.ref[d] - 1
  BY SMTT(30) DEF WalkRecs, Ref, Unref

MoveTo(w, d) == [w EXCEPT !.at = d]

\* Where the walk stands afterwards, and nothing else.
LEMMA AtFields ==
  ASSUME NEW w \in WalkRecs, NEW d \in Nodes \cup {NULL}, NEW v,
         v \in {Return(w, d), MoveTo(w, d)}
  PROVE  /\ v \in WalkRecs
         /\ v.at = d /\ v.ref = w.ref /\ v.iref = w.iref /\ v.cache = w.cache /\ v.alive = w.alive
         /\ v.found = w.found /\ v.spins = w.spins
         /\ v = Return(w, d) => v.done
         /\ v = MoveTo(w, d) => v.done = w.done
  BY DEF WalkRecs, Return, MoveTo

\* The walk's reference goes with it.
LEMMA Moves ==
  ASSUME NEW A, NEW cr, NEW ci, NEW w, Walking(w, A, cr, ci), w.at # NULL,
         NEW v \in WalkRecs, v.alive = w.alive, v.cache = w.cache, v.iref = w.iref, v.spins = w.spins,
         v.at \in w.alive \cup {NULL}, v.at = NULL => v.done,
         \A x \in Nodes : v.ref[x] = (w.ref[x] - (IF x = w.at THEN 1 ELSE 0)) + (IF x = v.at THEN 1 ELSE 0)
  PROVE  Walking(v, A, cr, ci)
<1>1. w \in WalkRecs /\ w.alive \subseteq Nodes /\ w.ref \in [Nodes -> Int]
  BY SMTT(30) DEF Walking, WalkRecs
<1>2. ASSUME NEW d \in v.alive
      PROVE  v.ref[d] = (IF d \in A THEN cr[d] ELSE 1) + (IF d = v.at THEN 1 ELSE 0)
  <2>1. /\ d \in Nodes /\ w.ref[d] \in Int /\ cr[d] \in Int
        /\ w.ref[d] = (IF d \in A THEN cr[d] ELSE 1) + (IF d = w.at THEN 1 ELSE 0)
    BY <1>1, <1>2 DEF Walking, Counts
  <2>2. v.ref[d] = (w.ref[d] - (IF d = w.at THEN 1 ELSE 0)) + (IF d = v.at THEN 1 ELSE 0)
    BY <2>1
  <2> QED  BY <2>1, <2>2, SMTT(30)
<1>3. Counts(A, cr, ci, v.alive, v.ref, v.iref, v.at)
  BY <1>2 DEF Walking, Counts
<1> QED  BY <1>3 DEF Walking

LEMMA Returns ==
  ASSUME NEW A, NEW cr, NEW ci, NEW w, Walking(w, A, cr, ci), w.at # NULL
  PROVE  /\ Walking(Return(Unref(w, w.at), NULL), A, cr, ci)
         /\ Return(Unref(w, w.at), NULL).at = NULL
<1> DEFINE u == Unref(w, w.at)
           v == Return(u, NULL)
<1>1. w \in WalkRecs /\ w.at \in Nodes /\ w.ref \in [Nodes -> Int]
  BY SMTT(30) DEF Walking, WalkRecs
<1>2. /\ u \in WalkRecs
      /\ u.at = w.at /\ u.iref = w.iref /\ u.cache = w.cache /\ u.alive = w.alive /\ u.spins = w.spins
      /\ \A x \in Nodes \ {w.at} : u.ref[x] = w.ref[x]
      /\ u.ref[w.at] = w.ref[w.at] - 1
  BY <1>1, RefFields
<1> HIDE DEF u
<1>3. /\ v \in WalkRecs
      /\ v.at = NULL /\ v.ref = u.ref /\ v.iref = u.iref /\ v.cache = u.cache /\ v.alive = u.alive
      /\ v.spins = u.spins /\ v.done
  <2>1. u \in WalkRecs /\ NULL \in Nodes \cup {NULL}
    BY <1>2
  <2> QED  BY <2>1, AtFields
<1> HIDE DEF v
<1>4. ASSUME NEW x \in Nodes
      PROVE  v.ref[x] = (w.ref[x] - (IF x = w.at THEN 1 ELSE 0)) + (IF x = v.at THEN 1 ELSE 0)
  <2>1. x # NULL /\ w.ref[x] \in Int
    BY <1>1, TreeAssumption
  <2> QED  BY <1>2, <1>3, <2>1, SMTT(30)
<1>5. Walking(v, A, cr, ci)
  BY <1>2, <1>3, <1>4, Moves, SMTT(30)
<1> QED  BY <1>3, <1>5 DEF u, v

LEMMA GoesOn ==
  ASSUME NEW A, NEW cr, NEW ci, NEW w, Walking(w, A, cr, ci), w.at # NULL, NEW d \in w.alive,
         NEW u, u = Ref(Unref(w, w.at), d) \/ u = Unref(Ref(w, d), w.at),
         NEW v, v = Return(u, d) \/ v = MoveTo(u, d)
  PROVE  /\ Walking(v, A, cr, ci) /\ v.at = d
         /\ v = MoveTo(u, d) => v.done = w.done
<1>1. w \in WalkRecs /\ w.at \in Nodes /\ d \in Nodes /\ w.ref \in [Nodes -> Int]
  BY SMTT(30) DEF Walking, WalkRecs
<1>2. /\ u \in WalkRecs
      /\ u.iref = w.iref /\ u.cache = w.cache /\ u.alive = w.alive /\ u.spins = w.spins /\ u.done = w.done
      /\ \A x \in Nodes : u.ref[x] = (w.ref[x] - (IF x = w.at THEN 1 ELSE 0)) + (IF x = d THEN 1 ELSE 0)
  <2>1. CASE u = Ref(Unref(w, w.at), d)
    <3>1. PICK t : t = Unref(w, w.at)
      OBVIOUS
    <3>2. /\ t \in WalkRecs
          /\ t.iref = w.iref /\ t.cache = w.cache /\ t.alive = w.alive /\ t.spins = w.spins
          /\ t.done = w.done
          /\ (\A x \in Nodes \ {w.at} : t.ref[x] = w.ref[x]) /\ t.ref[w.at] = w.ref[w.at] - 1
      BY <1>1, <3>1, RefFields
    <3>3. u = Ref(t, d)
      BY <2>1, <3>1
    <3>4. /\ u \in WalkRecs
          /\ u.iref = t.iref /\ u.cache = t.cache /\ u.alive = t.alive /\ u.spins = t.spins
          /\ u.done = t.done
          /\ (\A x \in Nodes \ {d} : u.ref[x] = t.ref[x]) /\ u.ref[d] = t.ref[d] + 1
      BY <1>1, <3>2, <3>3, RefFields
    <3>5. ASSUME NEW x \in Nodes
          PROVE  u.ref[x] = (w.ref[x] - (IF x = w.at THEN 1 ELSE 0)) + (IF x = d THEN 1 ELSE 0)
      <4>1. w.ref[x] \in Int
        BY <1>1
      <4> QED  BY <1>1, <3>2, <3>4, <4>1, SMTT(30)
    <3> QED  BY <3>2, <3>4, <3>5
  <2>2. CASE u = Unref(Ref(w, d), w.at)
    <3>1. PICK t : t = Ref(w, d)
      OBVIOUS
    <3>2. /\ t \in WalkRecs
          /\ t.iref = w.iref /\ t.cache = w.cache /\ t.alive = w.alive /\ t.spins = w.spins
          /\ t.done = w.done
          /\ (\A x \in Nodes \ {d} : t.ref[x] = w.ref[x]) /\ t.ref[d] = w.ref[d] + 1
      BY <1>1, <3>1, RefFields
    <3>3. u = Unref(t, w.at)
      BY <2>2, <3>1
    <3>4. /\ u \in WalkRecs
          /\ u.iref = t.iref /\ u.cache = t.cache /\ u.alive = t.alive /\ u.spins = t.spins
          /\ u.done = t.done
          /\ (\A x \in Nodes \ {w.at} : u.ref[x] = t.ref[x]) /\ u.ref[w.at] = t.ref[w.at] - 1
      BY <1>1, <3>2, <3>3, RefFields
    <3>5. ASSUME NEW x \in Nodes
          PROVE  u.ref[x] = (w.ref[x] - (IF x = w.at THEN 1 ELSE 0)) + (IF x = d THEN 1 ELSE 0)
      <4>1. w.ref[x] \in Int
        BY <1>1
      <4> QED  BY <1>1, <3>2, <3>4, <4>1, SMTT(30)
    <3> QED  BY <3>2, <3>4, <3>5
  <2> QED  BY <2>1, <2>2
<1>3. /\ v \in WalkRecs
      /\ v.at = d /\ v.ref = u.ref /\ v.iref = u.iref /\ v.cache = u.cache /\ v.alive = u.alive
      /\ v.spins = u.spins
      /\ v = MoveTo(u, d) => v.done = u.done
  BY <1>1, <1>2, AtFields, SMTT(30)
<1>4. v.at # NULL
  BY <1>1, <1>3, TreeAssumption
<1>5. Walking(v, A, cr, ci)
  BY <1>2, <1>3, <1>4, Moves, SMTT(30)
<1> QED  BY <1>2, <1>3, <1>5

\* The lookup of a name, in the cache or by the file system, gives the node of that
\* name; a dentry that is made for it starts with a reference of its own.
LEMMA FoundFinds ==
  ASSUME BucketsApart, ~LOOKUP_ALLOCS,
         NEW A, NEW cr, NEW ci, NEW w, Walking(w, A, cr, ci), w.at # NULL, NEW m \in Names
  PROVE  /\ Walking(Found(w, m), A, cr, ci) /\ Found(w, m).found = FsLookup(w.at, m)
         /\ Found(w, m).at = w.at /\ Found(w, m).done = w.done
         /\ FsLookup(w.at, m) \in Found(w, m).alive \cup {NULL}
<1> DEFINE cached == dcache_lookup(w.cache, w.at, m)
           read == FsLookup(w.at, m)
           f == Found(w, m)
<1>1. /\ w \in WalkRecs /\ w.at \in Nodes /\ w.alive \subseteq Nodes /\ w.at \in w.alive
      /\ w.ref \in [Nodes -> Int] /\ w.iref \in [Nodes -> Int] /\ Caches(w.cache, w.alive)
  BY SMTT(30) DEF Walking, WalkRecs
<1>2. /\ ~Spins(w.cache, Bucket(w.at, m), m)
      /\ cached = IF read \in w.alive THEN read ELSE NULL
  BY <1>1, LookupFinds
<1>3. /\ read \in Nodes \cup {NULL} /\ NULL \notin Nodes
      /\ read \in Nodes => NodeParent[read] = w.at
  BY FsLookupFacts, TreeAssumption
<1>4. f = IF cached # NULL THEN [w EXCEPT !.found = cached]
          ELSE IF read = NULL THEN [w EXCEPT !.found = NULL]
          ELSE [Made(w, read) EXCEPT !.found = read, !.cache = dcache_add(@, read)]
  BY <1>2 DEF Found
<1> HIDE DEF f, cached, read
<1>5. CASE read \in w.alive \cup {NULL}
  <2>1. f = [w EXCEPT !.found = read]
    BY <1>1, <1>2, <1>3, <1>4, <1>5
  <2>2. /\ f \in WalkRecs /\ f.found = read
        /\ f.at = w.at /\ f.ref = w.ref /\ f.iref = w.iref /\ f.cache = w.cache /\ f.alive = w.alive
        /\ f.spins = w.spins /\ f.done = w.done
    BY <1>1, <1>3, <2>1, SMTT(30) DEF WalkRecs
  <2> QED  BY <1>5, <2>2 DEF Walking, f, read
<1>6. CASE read \notin w.alive \cup {NULL}
  <2>1. read \in Nodes /\ read # NULL /\ cached = NULL /\ read # w.at
    BY <1>1, <1>2, <1>3, <1>6
  <2>2. f = [Made(w, read) EXCEPT !.found = read, !.cache = dcache_add(@, read)]
    BY <1>4, <2>1
  <2>3. Made(w, read) = [w EXCEPT !.alive = @ \cup {read}, !.ref[read] = 1, !.iref[read] = @ + 1,
                                  !.cache = @]
    BY <1>6, SMTT(30) DEF Made
  <2>4. dcache_add(w.cache, read) \in CacheRecs /\ Caches(dcache_add(w.cache, read), w.alive \cup {read})
    BY <1>1, <1>6, <2>1, AddKeeps DEF Caches
  <2>5. PICK c : c = dcache_add(w.cache, read)
    OBVIOUS
  <2>6. PICK g : g = Made(w, read)
    OBVIOUS
  <2>7. /\ g \in WalkRecs /\ g.cache = w.cache /\ g.at = w.at /\ g.alive = w.alive \cup {read}
        /\ g.ref = [w.ref EXCEPT ![read] = 1] /\ g.iref = [w.iref EXCEPT ![read] = @ + 1]
        /\ g.spins = w.spins /\ g.done = w.done
    <3>1. PICK a, r, i : /\ a = w.alive \cup {read} /\ r = [w.ref EXCEPT ![read] = 1]
                         /\ i = [w.iref EXCEPT ![read] = w.iref[read] + 1]
      OBVIOUS
    <3>2. a \in SUBSET Nodes /\ r \in [Nodes -> Int] /\ i \in [Nodes -> Int] /\ w.cache \in CacheRecs
      <4>1. a \in SUBSET Nodes /\ w.cache \in CacheRecs
        BY <1>1, <2>1, <3>1 DEF Caches
      <4>2. r \in [Nodes -> Int] /\ i \in [Nodes -> Int]
        BY <1>1, <2>1, <3>1, SMTT(30)
      <4> QED  BY <4>1, <4>2
    <3>3. g = [w EXCEPT !.alive = a, !.ref = r, !.iref = i, !.cache = w.cache]
      BY <2>3, <2>6, <3>1
    <3>4. /\ g \in WalkRecs /\ g.alive = a /\ g.ref = r /\ g.iref = i /\ g.cache = w.cache /\ g.at = w.at
          /\ g.spins = w.spins /\ g.done = w.done
      BY <1>1, <3>2, <3>3 DEF WalkRecs
    <3> QED  BY <3>1, <3>4
  <2>8. f = [g EXCEPT !.found = read, !.cache = c]
    BY <2>2, <2>5, <2>6, <2>7
  <2>9. /\ f \in WalkRecs /\ f.found = read /\ f.cache = c /\ f.at = g.at /\ f.alive = g.alive
        /\ f.ref = g.ref /\ f.iref = g.iref /\ f.spins = g.spins /\ f.done = g.done
    BY <2>1, <2>4, <2>5, <2>7, <2>8 DEF WalkRecs
  <2>10. ParentsIn(f.alive)
    BY <1>1, <1>3, <2>1, <2>7, <2>9, SMTT(30) DEF ParentsIn, Walking
  <2>11. /\ A \subseteq w.alive /\ read \notin A
         /\ Counts(A, cr, ci, w.alive, w.ref, w.iref, w.at)
    BY <1>6 DEF Walking
  <2>12. ASSUME NEW d \in f.alive
         PROVE  f.ref[d] = (IF d \in A THEN cr[d] ELSE 1) + (IF d = f.at THEN 1 ELSE 0)
    <3>1. CASE d = read
      BY <1>1, <2>1, <2>7, <2>9, <2>11, <3>1, SMTT(30)
    <3>2. CASE d # read
      <4>1. d \in w.alive /\ f.ref[d] = w.ref[d]
        BY <1>1, <2>7, <2>9, <2>12, <3>2, SMTT(30)
      <4>2. w.ref[d] = (IF d \in A THEN cr[d] ELSE 1) + (IF d = w.at THEN 1 ELSE 0)
        BY <2>11, <4>1 DEF Counts
      <4>3. f.at = w.at
        BY <2>7, <2>9
      <4> QED  BY <4>1, <4>2, <4>3
    <3> QED  BY <3>1, <3>2
  <2>13. ASSUME NEW d \in Nodes
         PROVE  f.iref[d] = ci[d] + (IF d \in f.alive \ A THEN 1 ELSE 0)
    <3>1. w.iref[d] = ci[d] + (IF d \in w.alive \ A THEN 1 ELSE 0) /\ ci[d] \in Int
      BY <2>11 DEF Counts, Walking
    <3>2. CASE d = read
      BY <1>1, <1>6, <2>1, <2>7, <2>9, <2>11, <3>1, <3>2, SMTT(30)
    <3>3. CASE d # read
      <4>1. f.iref[d] = w.iref[d]
        <5>1. f.iref = [w.iref EXCEPT ![read] = @ + 1] /\ w.iref \in [Nodes -> Int]
          BY <1>1, <2>7, <2>9
        <5> QED  BY <3>3, <5>1
      <4>2. d \in f.alive <=> d \in w.alive
        BY <2>7, <2>9, <3>3
      <4> QED  BY <3>1, <4>1, <4>2
    <3> QED  BY <3>2, <3>3
  <2>14. Walking(f, A, cr, ci)
    BY <2>4, <2>5, <2>7, <2>9, <2>10, <2>11, <2>12, <2>13, <1>1, SMTT(30) DEF Walking, Counts
  <2> QED  BY <2>7, <2>9, <2>14 DEF f, read
<1> QED  BY <1>5, <1>6

LEMMA NameStep ==
  ASSUME BucketsApart, ~LOOKUP_ALLOCS,
         NEW A, NEW cr, NEW ci, NEW w, Walking(w, A, cr, ci), w.at # NULL, ~w.done,
         NEW m \in Names, NEW isLast \in BOOLEAN, NEW v, v = WalkName(w, m, isLast)
  PROVE  /\ Walking(v, A, cr, ci)
         /\ v.at = IF FsLookup(w.at, m) \notin Directories /\ ~isLast THEN NULL ELSE FsLookup(w.at, m)
         /\ v.done /\ v.at # NULL => isLast
<1>1. PICK f : f = Found(w, m)
  OBVIOUS
<1>2. /\ Walking(f, A, cr, ci) /\ f.found = FsLookup(w.at, m)
      /\ f.at = w.at /\ f.done = w.done /\ f.found \in f.alive \cup {NULL} /\ ~f.spins
  <2>1. /\ Walking(f, A, cr, ci) /\ f.found = FsLookup(w.at, m)
        /\ f.at = w.at /\ f.done = w.done /\ FsLookup(w.at, m) \in f.alive \cup {NULL}
    BY <1>1, FoundFinds, SMTT(30)
  <2> QED  BY <2>1 DEF Walking
<1>3. v = IF f.found = NULL THEN Return(Unref(f, f.at), NULL)
          ELSE IF isLast THEN Return(Ref(Unref(f, f.at), f.found), f.found)
          ELSE IF f.found \notin Directories THEN Return(Unref(f, f.at), NULL)
          ELSE [Ref(Unref(f, f.at), f.found) EXCEPT !.at = f.found]
  BY <1>1, <1>2 DEF WalkName
<1>4. NULL \notin Directories
  BY TreeAssumption
<1>5. CASE f.found = NULL \/ (~isLast /\ f.found \notin Directories)
  <2>1. v = Return(Unref(f, f.at), NULL)
    BY <1>3, <1>5
  <2>2. Walking(v, A, cr, ci) /\ v.at = NULL
    BY <1>2, <2>1, Returns
  <2> QED  BY <1>2, <1>4, <1>5, <2>2
<1>6. CASE f.found # NULL /\ isLast
  <2>1. v = Return(Ref(Unref(f, f.at), f.found), f.found) /\ f.found \in f.alive
    BY <1>2, <1>3, <1>6
  <2>2. PICK u : u = Ref(Unref(f, f.at), f.found)
    OBVIOUS
  <2>3. Walking(v, A, cr, ci) /\ v.at = f.found
    BY <1>2, <2>1, <2>2, GoesOn, SMTT(30)
  <2> QED  BY <1>2, <1>6, <2>3
<1>7. CASE f.found # NULL /\ ~isLast /\ f.found \in Directories
  <2>1. v = MoveTo(Ref(Unref(f, f.at), f.found), f.found) /\ f.found \in f.alive
    BY <1>2, <1>3, <1>7 DEF MoveTo
  <2>2. PICK u : u = Ref(Unref(f, f.at), f.found)
    OBVIOUS
  <2>3. Walking(v, A, cr, ci) /\ v.at = f.found /\ v.done = f.done
    BY <1>2, <2>1, <2>2, GoesOn, SMTT(30)
  <2> QED  BY <1>2, <1>7, <2>3
<1> QED  BY <1>5, <1>6, <1>7

\* Where a walk is after i tokens: where the path leads, and only at its end when it
\* has returned.
Follows(w, toks, i, at) == w.at = at /\ (w.done /\ w.at # NULL => AtEnd(toks, i))

\* One token of the loop of path_walk does what the token means.
LEMMA TokenStep ==
  ASSUME BucketsApart, ~LOOKUP_ALLOCS,
         NEW A, NEW cr, NEW ci, NEW w, Walking(w, A, cr, ci),
         NEW toks \in Seq(STRING), NEW i \in 1 .. Len(toks), toks[i] \in Names,
         NEW at, w.at = at, w.done /\ w.at # NULL => i > 1 /\ AtEnd(toks, i - 1),
         NEW v, v = WalkToken(w, toks, i)
  PROVE  Walking(v, A, cr, ci) /\ Follows(v, toks, i, Step(at, toks, i))
<1>1. Len(toks) \in Nat /\ i \in Nat /\ i <= Len(toks)
  BY SMTT(30)
<1>2. ASSUME i > 1, AtEnd(toks, i - 1) PROVE toks[i] = "" /\ AtEnd(toks, i)
  <2>1. PICK N : N = Len(toks)
    OBVIOUS
  <2>2. i - 1 >= N \/ (i - 1 = N - 1 /\ toks[N] = "")
    BY <1>2, <2>1 DEF AtEnd
  <2>3. i - 1 >= N \/ i - 1 = N - 1
    BY <2>2
  <2>4. ~(i - 1 >= N) /\ i = N /\ i >= N
    BY <1>1, <2>1, <2>3, SMTT(30)
  <2> QED  BY <2>1, <2>2, <2>4 DEF AtEnd
<1>3. CASE w.done \/ (i > 1 /\ AtEnd(toks, i - 1))
  <2>1. v = w
    BY <1>3 DEF WalkToken
  <2>2. Step(at, toks, i) = at
    BY <1>2, <1>3 DEF Step
  <2> QED  BY <1>2, <1>3, <2>1, <2>2 DEF Follows
<1>4. CASE ~(w.done \/ (i > 1 /\ AtEnd(toks, i - 1)))
  <2>1. w.at # NULL /\ ~w.done /\ w.at \in w.alive /\ w.at \in Nodes /\ ParentsIn(w.alive)
    BY <1>4, SMTT(30) DEF Walking, WalkRecs
  <2>2. CASE toks[i] \in {"", "."}
    <3>1. v = w
      BY <1>4, <2>2 DEF WalkToken
    <3>2. Step(at, toks, i) = at
      BY <2>2 DEF Step
    <3> QED  BY <1>4, <3>1, <3>2 DEF Follows
  <2>3. CASE toks[i] = ".."
    <3>1. toks[i] \notin {"", "."}
      BY <2>3, SMTT(30)
    <3>2. v = [Unref(Ref(w, Above(w.at)), w.at) EXCEPT !.at = Above(w.at)]
      BY <1>4, <2>3, <3>1 DEF WalkToken
    <3>3. Step(at, toks, i) = Above(at)
      BY <2>1, <2>3, <3>1 DEF Step
    <3>4. Above(w.at) \in w.alive
      BY <2>1 DEF Above, ParentsIn
    <3>5. PICK d, u : d = Above(w.at) /\ u = Unref(Ref(w, d), w.at)
      OBVIOUS
    <3>6. d \in w.alive /\ v = MoveTo(u, d)
      BY <3>2, <3>4, <3>5 DEF MoveTo
    <3>7. Walking(v, A, cr, ci) /\ v.at = d /\ v.done = w.done
      BY <2>1, <3>5, <3>6, GoesOn, SMTT(30)
    <3> QED  BY <2>1, <3>3, <3>5, <3>7 DEF Follows
  <2>4. CASE toks[i] \notin {"", "."} /\ toks[i] # ".."
    <3>1. v = WalkName(w, toks[i], AtEnd(toks, i))
      BY <1>4, <2>4 DEF WalkToken
    <3>2. AtEnd(toks, i) \in BOOLEAN
      BY DEF AtEnd
    <3>3. PICK m \in Names, isLast \in BOOLEAN : m = toks[i] /\ isLast = AtEnd(toks, i)
      BY <3>2
    <3>4. /\ Walking(v, A, cr, ci)
          /\ v.at = IF FsLookup(w.at, m) \notin Directories /\ ~isLast THEN NULL ELSE FsLookup(w.at, m)
          /\ v.done /\ v.at # NULL => isLast
      BY <2>1, <3>1, <3>3, NameStep, SMTT(30)
    <3>5. Step(at, toks, i) = IF FsLookup(at, m) \notin Directories /\ ~isLast THEN NULL ELSE FsLookup(at, m)
      BY <2>1, <2>4, <3>3 DEF Step
    <3> QED  BY <3>3, <3>4, <3>5 DEF Follows
  <2> QED  BY <2>2, <2>3, <2>4
<1> QED  BY <1>3, <1>4

LEMMA WalksDef ==
  ASSUME NEW w, NEW toks, Len(toks) \in Nat
  PROVE  /\ Walks(w, toks)[0] = w
         /\ \A i \in 1 .. Len(toks) : Walks(w, toks)[i] = WalkToken(Walks(w, toks)[i - 1], toks, i)
<1>1. PICK N \in Nat : N = Len(toks)
  OBVIOUS
<1> DEFINE Eq(f, n) == f = [i \in 0 .. n |-> IF i = 0 THEN w ELSE WalkToken(f[i - 1], toks, i)]
           S == {n \in Nat : \E f : Eq(f, n)}
<1>2. 0 \in S
  <2>1. Eq([i \in 0 .. 0 |-> w], 0)
    BY SMTT(30)
  <2> QED  BY <2>1
<1>3. ASSUME NEW n \in 1 .. N, n - 1 \in S PROVE n \in S
  <2>1. PICK f : Eq(f, n - 1)
    BY <1>3
  <2> DEFINE g == [i \in 0 .. n |-> IF i = n THEN WalkToken(f[n - 1], toks, n) ELSE f[i]]
  <2>2. Eq(g, n)
    BY <2>1, SMTT(30)
  <2>3. n \in Nat
    BY SMTT(30)
  <2> HIDE DEF g
  <2> QED  BY <2>2, <2>3
<1>4. \E f : Eq(f, N)
  <2>1. \A n \in 0 .. N : n \in S
    <3> HIDE DEF S
    <3> QED  BY <1>2, <1>3, UpTo
  <2>2. N \in 0 .. N
    BY SMTT(30)
  <2> QED  BY <2>1, <2>2
<1>5. Walks(w, toks) = CHOOSE f : Eq(f, N)
  BY <1>1 DEF Walks
<1>6. PICK f : f = Walks(w, toks) /\ Eq(f, N)
  BY <1>4, <1>5
<1>7. f[0] = w /\ \A i \in 1 .. N : f[i] = WalkToken(f[i - 1], toks, i)
  <2> DEFINE F == [i \in 0 .. N |-> IF i = 0 THEN w ELSE WalkToken(f[i - 1], toks, i)]
  <2>1. 0 \in 0 .. N /\ \A i \in 1 .. N : i \in 0 .. N /\ i # 0
    BY SMTT(30)
  <2>2. F[0] = w /\ \A i \in 1 .. N : F[i] = WalkToken(f[i - 1], toks, i)
    BY <2>1
  <2>3. f = F
    BY <1>6
  <2> HIDE DEF F
  <2> QED  BY <2>2, <2>3
<1> QED  BY <1>1, <1>6, <1>7

LEMMA StepsDef ==
  ASSUME NEW start, NEW toks, Len(toks) \in Nat
  PROVE  /\ Steps(start, toks)[0] = start
         /\ \A i \in 1 .. Len(toks) : Steps(start, toks)[i] = Step(Steps(start, toks)[i - 1], toks, i)
<1>1. PICK N \in Nat : N = Len(toks)
  OBVIOUS
<1> DEFINE Eq(f, n) == f = [i \in 0 .. n |-> IF i = 0 THEN start ELSE Step(f[i - 1], toks, i)]
           S == {n \in Nat : \E f : Eq(f, n)}
<1>2. 0 \in S
  <2>1. Eq([i \in 0 .. 0 |-> start], 0)
    BY SMTT(30)
  <2> QED  BY <2>1
<1>3. ASSUME NEW n \in 1 .. N, n - 1 \in S PROVE n \in S
  <2>1. PICK f : Eq(f, n - 1)
    BY <1>3
  <2> DEFINE g == [i \in 0 .. n |-> IF i = n THEN Step(f[n - 1], toks, n) ELSE f[i]]
  <2>2. Eq(g, n)
    BY <2>1, SMTT(30)
  <2>3. n \in Nat
    BY SMTT(30)
  <2> HIDE DEF g
  <2> QED  BY <2>2, <2>3
<1>4. \E f : Eq(f, N)
  <2>1. \A n \in 0 .. N : n \in S
    <3> HIDE DEF S
    <3> QED  BY <1>2, <1>3, UpTo
  <2>2. N \in 0 .. N
    BY SMTT(30)
  <2> QED  BY <2>1, <2>2
<1>5. Steps(start, toks) = CHOOSE f : Eq(f, N)
  BY <1>1 DEF Steps
<1>6. PICK f : f = Steps(start, toks) /\ Eq(f, N)
  BY <1>4, <1>5
<1>7. f[0] = start /\ \A i \in 1 .. N : f[i] = Step(f[i - 1], toks, i)
  <2> DEFINE F == [i \in 0 .. N |-> IF i = 0 THEN start ELSE Step(f[i - 1], toks, i)]
  <2>1. 0 \in 0 .. N /\ \A i \in 1 .. N : i \in 0 .. N /\ i # 0
    BY SMTT(30)
  <2>2. F[0] = start /\ \A i \in 1 .. N : F[i] = Step(f[i - 1], toks, i)
    BY <2>1
  <2>3. f = F
    BY <1>6
  <2> HIDE DEF F
  <2> QED  BY <2>2, <2>3
<1> QED  BY <1>1, <1>6, <1>7

\* The loop of path_walk, from a walk that stands at its start.
LEMMA WalksFollow ==
  ASSUME BucketsApart, ~LOOKUP_ALLOCS,
         NEW A, NEW cr, NEW ci, NEW w, Walking(w, A, cr, ci), ~w.done,
         NEW toks \in Seq(STRING), \A i \in DOMAIN toks : toks[i] \in Names
  PROVE  /\ Walking(Walks(w, toks)[Len(toks)], A, cr, ci)
         /\ Walks(w, toks)[Len(toks)].at = Steps(w.at, toks)[Len(toks)]
<1>1. PICK N \in Nat : N = Len(toks) /\ DOMAIN toks = 1 .. N
  BY SMTT(30)
<1> DEFINE W == Walks(w, toks)
           R == Steps(w.at, toks)
           Good(i) == Walking(W[i], A, cr, ci) /\ W[i].at = R[i]
                      /\ (W[i].done /\ W[i].at # NULL => i > 0 /\ AtEnd(toks, i))
           S == {i \in Nat : i <= N => Good(i)}
<1>2. /\ W[0] = w /\ R[0] = w.at
      /\ \A i \in 1 .. N : W[i] = WalkToken(W[i - 1], toks, i) /\ R[i] = Step(R[i - 1], toks, i)
  <2>1. Len(toks) \in Nat /\ N = Len(toks)
    BY <1>1
  <2>2. W[0] = w /\ \A i \in 1 .. Len(toks) : W[i] = WalkToken(W[i - 1], toks, i)
    BY <2>1, WalksDef, SMTT(30)
  <2>3. R[0] = w.at /\ \A i \in 1 .. Len(toks) : R[i] = Step(R[i - 1], toks, i)
    BY <2>1, StepsDef, SMTT(30)
  <2> QED  BY <2>1, <2>2, <2>3
<1>3. 0 \in S
  BY <1>2
<1>4. ASSUME NEW i \in 1 .. N, i - 1 \in S PROVE i \in S
  <2>1. i \in Nat /\ i - 1 <= N /\ (i - 1 > 0 => i > 1) /\ i > 0
    BY SMTT(30)
  <2>2. Good(i - 1)
    BY <1>4, <2>1
  <2>3. PICK x, y, at : x = W[i - 1] /\ y = W[i] /\ at = R[i - 1]
    OBVIOUS
  <2>4. y = WalkToken(x, toks, i) /\ R[i] = Step(at, toks, i)
    BY <1>2, <2>3
  <2>5. /\ Walking(x, A, cr, ci) /\ x.at = at
        /\ x.done /\ x.at # NULL => i > 1 /\ AtEnd(toks, i - 1)
    BY <2>1, <2>2, <2>3
  <2>6. i \in 1 .. Len(toks) /\ toks[i] \in Names
    BY <1>1
  <2>7. Walking(y, A, cr, ci) /\ Follows(y, toks, i, Step(at, toks, i))
    BY <2>4, <2>5, <2>6, TokenStep
  <2>8. Good(i)
    BY <2>1, <2>3, <2>4, <2>7 DEF Follows
  <2> QED  BY <2>1, <2>8
<1>5. \A i \in 0 .. N : i \in S
  <2> HIDE DEF S
  <2> QED  BY <1>3, <1>4, UpTo
<1>6. N \in 0 .. N /\ N <= N
  BY SMTT(30)
<1> QED  BY <1>1, <1>5, <1>6

-----------------------------------------------------------------------------
(* The invariant. *)

\* What is cached is what exists, with its parents; nobody holds or has open what does
\* not; and the counts.
Inv ==
  /\ alive \subseteq Nodes /\ Root \in alive /\ ParentsIn(alive) /\ Caches(cache, alive)
  /\ refcount \in [Nodes -> Int] /\ irefs \in [Nodes -> Int]
  /\ held \in alive \cup {NULL} /\ file \in alive \cup {NULL}
  /\ opens \in Nat /\ (opens = 0 => file = NULL) /\ ~hung
  /\ WalkReferences /\ InodeReferences

\* A walk that takes its first reference, with nothing else done.
LEMMA Begins ==
  ASSUME Inv, NEW start \in alive, NEW d \in alive,
         NEW w, w = [at |-> start, ref |-> refcount, iref |-> irefs, cache |-> cache,
                     alive |-> alive, found |-> NULL, spins |-> FALSE, done |-> FALSE],
         NEW v, v = Return(Ref(w, d), d) \/ (d = start /\ v = Ref(w, d))
  PROVE  /\ Walking(v, alive, refcount, irefs) /\ v.at = d
         /\ v = Ref(w, d) => ~v.done
<1>1. /\ alive \subseteq Nodes /\ d \in Nodes /\ start \in Nodes /\ NULL \notin Nodes /\ cache \in CacheRecs
      /\ refcount \in [Nodes -> Int] /\ irefs \in [Nodes -> Int]
  BY TreeAssumption DEF Inv, Caches
<1>2. /\ w \in WalkRecs /\ w.at = start /\ w.ref = refcount /\ w.iref = irefs /\ w.cache = cache
      /\ w.alive = alive /\ w.spins = FALSE /\ w.done = FALSE
  BY <1>1, SMTT(30) DEF WalkRecs
<1>3. PICK u : u = Ref(w, d)
  OBVIOUS
<1>4. /\ u \in WalkRecs
      /\ u.at = w.at /\ u.iref = w.iref /\ u.cache = w.cache /\ u.alive = w.alive /\ u.spins = w.spins
      /\ u.done = w.done
      /\ (\A x \in Nodes \ {d} : u.ref[x] = w.ref[x]) /\ u.ref[d] = w.ref[d] + 1
  <2>1. w \in WalkRecs /\ d \in Nodes
    BY <1>1, <1>2
  <2> QED  BY <1>3, <2>1, RefFields
<1>5. /\ v \in WalkRecs
      /\ v.at = d /\ v.ref = u.ref /\ v.iref = w.iref /\ v.cache = w.cache /\ v.alive = w.alive
      /\ v.spins = w.spins
  <2>1. CASE v = Return(u, d)
    <3>1. d \in Nodes \cup {NULL}
      BY <1>1
    <3> QED  BY <1>4, <2>1, <3>1, AtFields
  <2>2. CASE d = start /\ v = u
    BY <1>2, <1>4, <2>2
  <2> QED  BY <1>3, <2>1, <2>2
<1>6. ASSUME NEW x \in alive
      PROVE  v.ref[x] = (IF x \in alive THEN refcount[x] ELSE 1) + (IF x = d THEN 1 ELSE 0)
  <2>1. x \in Nodes /\ refcount[x] \in Int
    BY <1>1
  <2> QED  BY <1>2, <1>4, <1>5, <2>1, SMTT(30)
<1>7. ASSUME NEW x \in Nodes PROVE v.iref[x] = irefs[x] + (IF x \in alive \ alive THEN 1 ELSE 0)
  <2>1. irefs[x] \in Int /\ v.iref[x] = irefs[x]
    BY <1>1, <1>2, <1>5
  <2> QED  BY <2>1, SMTT(30)
<1>8. Counts(alive, refcount, irefs, v.alive, v.ref, v.iref, v.at)
  BY <1>2, <1>5, <1>6, <1>7 DEF Counts
<1>9. Walking(v, alive, refcount, irefs)
  BY <1>1, <1>2, <1>5, <1>8 DEF Walking, Inv
<1> QED  BY <1>2, <1>3, <1>4, <1>5, <1>9

LEMMA PathIs ==
  ASSUME NEW T, NEW path \in [abs : BOOLEAN, toks : T], NEW t
  PROVE  path = [abs |-> TRUE, toks |-> t] <=> path.abs /\ path.toks = t
  BY SMTT(30)

LEMMA Singleton == \A t : <<t>>[1] = t /\ Len(<<t>>) = 1
  BY SMTT(30)

LEMMA OneToken ==
  ASSUME NEW start, NEW t
  PROVE  Steps(start, <<t>>)[Len(<<t>>)] = Step(start, <<t>>, 1)
<1>1. Len(<<t>>) = 1 /\ 1 \in Nat /\ 1 \in 1 .. 1 /\ 1 - 1 = 0
  BY SMTT(30)
<1>2. PICK toks : toks = <<t>>
  OBVIOUS
<1>3. Len(toks) \in Nat /\ 1 \in 1 .. Len(toks)
  BY <1>1, <1>2
<1>4. Steps(start, toks)[1] = Step(Steps(start, toks)[1 - 1], toks, 1) /\ Steps(start, toks)[0] = start
  BY <1>3, StepsDef, SMTT(30)
<1> QED  BY <1>1, <1>2, <1>4

StartOf(path, wd) == IF path = [abs |-> TRUE, toks |-> <<"">>] \/ wd = NULL THEN Root ELSE wd

\* path_walk gives the node a path names, and a walk in progress everywhere else.
LEMMA PathWalks ==
  ASSUME BucketsApart, ~LOOKUP_ALLOCS, Inv,
         NEW path \in Paths \cup OpenPaths, NEW wd \in alive \cup {NULL}, NEW toks \in Tokens(path),
         NEW v, v = path_walk(path, wd, toks)
  PROVE  /\ Walking(v, alive, refcount, irefs)
         /\ toks = path.toks => v.at = Resolve(path, StartOf(path, wd))
<1>1. PICK start : start = IF wd # NULL THEN wd ELSE Root
  OBVIOUS
<1>2. PICK w : w = [at |-> start, ref |-> refcount, iref |-> irefs, cache |-> cache,
                    alive |-> alive, found |-> NULL, spins |-> FALSE, done |-> FALSE]
  OBVIOUS
<1>3. v = IF path.abs /\ path.toks = <<"">> THEN Return(Ref(w, Root), Root)
          ELSE IF ~path.abs /\ path.toks = <<"..">> THEN Return(Ref(w, Above(start)), Above(start))
          ELSE IF ~path.abs /\ path.toks = <<".">> THEN Return(Ref(w, start), start)
          ELSE Walks(Ref(w, start), toks)[Len(toks)]
  BY <1>1, <1>2 DEF path_walk
<1>4. start \in alive /\ Root \in alive /\ alive \subseteq Nodes /\ ParentsIn(alive) /\ NULL \notin alive
  BY <1>1, TreeAssumption DEF Inv
<1>5. Above(start) \in alive
  BY <1>4 DEF Above, ParentsIn
<1>6. /\ path \in [abs : BOOLEAN, toks : Seq(STRING)]
      /\ path = [abs |-> TRUE, toks |-> <<"">>] <=> path.abs /\ path.toks = <<"">>
  <2>1. path \in [abs : BOOLEAN, toks : Seq(STRING)]
    BY TreeAssumption
  <2> QED  BY <2>1, PathIs
<1>7. Resolve(path, StartOf(path, wd)) = Steps(StartOf(path, wd), path.toks)[Len(path.toks)]
  BY DEF Resolve
<1>8. CASE path.abs /\ path.toks = <<"">>
  <2>1. v = Return(Ref(w, Root), Root)
    BY <1>3, <1>8
  <2>2. Walking(v, alive, refcount, irefs) /\ v.at = Root
    BY <1>2, <1>4, <2>1, Begins, SMTT(30)
  <2>3. StartOf(path, wd) = Root
    BY <1>6, <1>8 DEF StartOf
  <2>4. <<"">>[1] = ""
    BY Singleton
  <2>5. Step(Root, <<"">>, 1) = Root
    BY <2>4 DEF Step
  <2>6. Steps(Root, <<"">>)[Len(<<"">>)] = Root
    BY <2>5, OneToken
  <2> QED  BY <1>7, <1>8, <2>2, <2>3, <2>6
<1>9. ASSUME ~(path.abs /\ path.toks = <<"">>) PROVE StartOf(path, wd) = start
  BY <1>1, <1>6, <1>9 DEF StartOf
<1>10. CASE ~path.abs /\ path.toks = <<"..">>
  <2>1. v = Return(Ref(w, Above(start)), Above(start))
    BY <1>3, <1>10
  <2>2. PICK d : d = Above(start)
    OBVIOUS
  <2>3. Walking(v, alive, refcount, irefs) /\ v.at = d
    BY <1>2, <1>4, <1>5, <2>1, <2>2, Begins, SMTT(30)
  <2>4. <<"..">>[1] = ".." /\ ".." \notin {"", "."}
    BY Singleton
  <2>5. Step(start, <<"..">>, 1) = Above(start)
    BY <1>4, <2>4 DEF Step
  <2>6. Steps(start, <<"..">>)[Len(<<"..">>)] = Above(start)
    BY <2>5, OneToken
  <2> QED  BY <1>7, <1>9, <1>10, <2>2, <2>3, <2>6
<1>11. CASE ~path.abs /\ path.toks = <<".">>
  <2>1. <<"..">> # <<".">> /\ <<".">>[1] = "."
    BY Singleton
  <2>2. v = Return(Ref(w, start), start)
    BY <1>3, <1>11, <2>1
  <2>3. Walking(v, alive, refcount, irefs) /\ v.at = start
    BY <1>2, <1>4, <2>2, Begins, SMTT(30)
  <2>4. Step(start, <<".">>, 1) = start
    BY <2>1 DEF Step
  <2>5. Steps(start, <<".">>)[Len(<<".">>)] = start
    BY <2>4, OneToken
  <2> QED  BY <1>7, <1>9, <1>11, <2>3, <2>5
<1>12. CASE /\ ~(path.abs /\ path.toks = <<"">>) /\ ~(~path.abs /\ path.toks = <<"..">>)
            /\ ~(~path.abs /\ path.toks = <<".">>)
  <2>1. v = Walks(Ref(w, start), toks)[Len(toks)]
    BY <1>3, <1>12
  <2>2. PICK u : u = Ref(w, start)
    OBVIOUS
  <2>3. Walking(u, alive, refcount, irefs) /\ u.at = start /\ ~u.done
    BY <1>2, <1>4, <2>2, Begins, SMTT(30)
  <2>4. toks \in Seq(STRING) /\ \A i \in DOMAIN toks : toks[i] \in Names
    <3>1. CASE toks = <<>>
      BY <3>1, SMTT(30)
    <3>2. CASE toks # <<>>
      <4>1. toks \in TokenLists
        BY <3>2 DEF Tokens, TokenLists
      <4>2. toks \in Seq(STRING)
        BY <1>6, <3>2, TreeAssumption DEF Tokens
      <4> QED  BY <4>1, <4>2, SMTT(30) DEF Names
    <3> QED  BY <3>1, <3>2
  <2>5. Walking(v, alive, refcount, irefs) /\ v.at = Steps(u.at, toks)[Len(toks)]
    BY <2>1, <2>2, <2>3, <2>4, WalksFollow, SMTT(30)
  <2> QED  BY <1>7, <1>9, <1>12, <2>3, <2>5
<1> QED  BY <1>8, <1>10, <1>11, <1>12

\* What a walk leaves behind, as the next state.
LEMMA WalkLeaves ==
  ASSUME Inv, NEW w, Walking(w, alive, refcount, irefs), Walked(w)
  PROVE  /\ alive' \subseteq Nodes /\ Root \in alive' /\ ParentsIn(alive') /\ Caches(cache', alive')
         /\ ~hung' /\ alive \subseteq alive' /\ w.at \in alive' \cup {NULL}
         /\ w.ref \in [Nodes -> Int] /\ w.iref \in [Nodes -> Int]
         /\ \A d \in alive' : w.ref[d] = (IF d \in alive THEN refcount[d] ELSE 1) + (IF d = w.at THEN 1 ELSE 0)
         /\ \A d \in Nodes : w.iref[d] = 1 + (IF d \in alive' THEN 1 ELSE 0) + (IF file = d THEN 1 ELSE 0)
<1>1. alive' = w.alive /\ cache' = w.cache /\ hung' = w.spins
  BY DEF Walked
<1>2. w \in WalkRecs /\ w.alive \subseteq Nodes /\ w.ref \in [Nodes -> Int] /\ w.iref \in [Nodes -> Int]
  BY SMTT(30) DEF Walking, WalkRecs
<1>3. /\ alive \subseteq w.alive /\ ParentsIn(w.alive) /\ Caches(w.cache, w.alive) /\ ~w.spins
      /\ w.at \in w.alive \cup {NULL} /\ Counts(alive, refcount, irefs, w.alive, w.ref, w.iref, w.at)
  BY DEF Walking
<1>4. ParentsIn(alive') /\ Caches(cache', alive')
  BY <1>1, <1>3
<1>5. ASSUME NEW d \in Nodes
      PROVE  w.iref[d] = 1 + (IF d \in alive' THEN 1 ELSE 0) + (IF file = d THEN 1 ELSE 0)
  <2>1. /\ w.iref[d] = irefs[d] + (IF d \in w.alive \ alive THEN 1 ELSE 0)
        /\ irefs[d] = 1 + (IF d \in alive THEN 1 ELSE 0) + (IF file = d THEN 1 ELSE 0)
    BY <1>3 DEF Counts, Inv, InodeReferences
  <2>2. d \in alive => d \in w.alive
    BY <1>3
  <2> QED  BY <1>1, <2>1, <2>2, SMTT(30)
<1>6. Root \in alive
  BY DEF Inv
<1> QED  BY <1>1, <1>2, <1>3, <1>4, <1>5, <1>6 DEF Counts

LEMMA WalkKeeps ==
  ASSUME BucketsApart, ~LOOKUP_ALLOCS, Inv, WalkFindsTheNode, NEW path \in Paths, NEW wd, Walk(path, wd)
  PROVE  Inv' /\ WalkFindsTheNode'
<1>1. PICK toks \in Tokens(path) :
        LET w == path_walk(path, wd, toks) IN
          /\ Walked(w) /\ refcount' = w.ref /\ irefs' = w.iref /\ held' = w.at
          /\ last' = [call |-> "walk", path |-> path, wd |-> wd, result |-> w.at,
                      copied |-> toks = path.toks]
  BY DEF Walk
<1>2. PICK w : w = path_walk(path, wd, toks)
  OBVIOUS
<1>3. /\ Walked(w) /\ refcount' = w.ref /\ irefs' = w.iref /\ held' = w.at
      /\ last' = [call |-> "walk", path |-> path, wd |-> wd, result |-> w.at, copied |-> toks = path.toks]
      /\ held = NULL /\ wd \in alive \cup {NULL} /\ file' = file /\ opens' = opens
  BY <1>1, <1>2 DEF Walk
<1>4. /\ Walking(w, alive, refcount, irefs)
      /\ toks = path.toks => w.at = Resolve(path, StartOf(path, wd))
  BY <1>2, <1>3, PathWalks
<1>5. /\ alive' \subseteq Nodes /\ Root \in alive' /\ ParentsIn(alive') /\ Caches(cache', alive')
      /\ ~hung' /\ alive \subseteq alive' /\ w.at \in alive' \cup {NULL}
      /\ w.ref \in [Nodes -> Int] /\ w.iref \in [Nodes -> Int]
      /\ \A d \in alive' : w.ref[d] = (IF d \in alive THEN refcount[d] ELSE 1) + (IF d = w.at THEN 1 ELSE 0)
      /\ \A d \in Nodes : w.iref[d] = 1 + (IF d \in alive' THEN 1 ELSE 0) + (IF file = d THEN 1 ELSE 0)
  BY <1>3, <1>4, WalkLeaves
<1>6. WalkReferences'
  <2>1. ASSUME opens' = 0, NEW d \in alive' PROVE refcount'[d] = 1 + (IF held' = d THEN 1 ELSE 0)
    <3>1. opens = 0 /\ d # NULL
      BY <1>3, <1>5, <2>1, TreeAssumption
    <3>2. d \in alive => refcount[d] = 1 + 0
      BY <1>3, <3>1 DEF Inv, WalkReferences
    <3>3. d \in alive => refcount[d] = 1
      BY <3>2, SMTT(30)
    <3>4. w.ref[d] = 1 + (IF d = w.at THEN 1 ELSE 0)
      BY <1>5, <3>3
    <3> QED  BY <1>3, <3>4
  <2> QED  BY <2>1 DEF WalkReferences
<1>7. InodeReferences'
  BY <1>3, <1>5 DEF InodeReferences
<1>8. Inv'
  BY <1>3, <1>5, <1>6, <1>7 DEF Inv, ParentsIn, Caches, Chain
<1>9. WalkFindsTheNode'
  <2>1. last'.path = path /\ last'.wd = wd /\ last'.result = w.at
    BY <1>3
  <2>2. last'.copied = (toks = path.toks)
    BY <1>3
  <2>3. ASSUME last'.copied PROVE last'.result = Resolve(last'.path, StartOf(last'.path, last'.wd))
    BY <1>4, <2>1, <2>2, <2>3
  <2> QED  BY <2>3 DEF WalkFindsTheNode, LastWalk, StartOf, Resolve, Steps
<1> QED  BY <1>8, <1>9

LEMMA OpenKeeps ==
  ASSUME BucketsApart, ~LOOKUP_ALLOCS, Inv, NEW path \in OpenPaths, NEW wd, vfs_open(path, wd)
  PROVE  Inv' /\ WalkFindsTheNode'
<1>1. PICK toks \in Tokens(path) :
        LET w == path_walk(path, wd, toks) IN
          Walked(w) /\ \E code \in OpenOutcomes(w.at) : Opened(w, w.at, code)
  BY DEF vfs_open
<1>2. PICK w : w = path_walk(path, wd, toks)
  OBVIOUS
<1>3. PICK code \in OpenOutcomes(w.at) : Opened(w, w.at, code)
  BY <1>1, <1>2
<1>4. /\ Walked(w) /\ file = NULL /\ wd \in alive \cup {NULL} /\ opens' = opens + 1 /\ held' = held
  BY <1>1, <1>2 DEF vfs_open
<1>5. Walking(w, alive, refcount, irefs)
  BY <1>2, <1>4, PathWalks
<1>6. /\ alive' \subseteq Nodes /\ Root \in alive' /\ ParentsIn(alive') /\ Caches(cache', alive')
      /\ ~hung' /\ alive \subseteq alive' /\ w.at \in alive' \cup {NULL}
      /\ w.ref \in [Nodes -> Int] /\ w.iref \in [Nodes -> Int]
      /\ \A d \in Nodes : w.iref[d] = 1 + (IF d \in alive' THEN 1 ELSE 0) + (IF file = d THEN 1 ELSE 0)
  BY <1>4, <1>5, WalkLeaves
<1>7. opens' \in Nat /\ opens' # 0
  <2>1. opens \in Nat
    BY DEF Inv
  <2> QED  BY <1>4, <2>1, SMTT(30)
<1>8. WalkReferences'
  BY <1>7 DEF WalkReferences
<1>9. /\ refcount' \in [Nodes -> Int] /\ irefs' \in [Nodes -> Int] /\ file' \in alive' \cup {NULL}
      /\ InodeReferences'
  <2>1. CASE code = "VFS_OK"
    <3>1. w.at # NULL
      BY <1>3, <2>1, SMTT(30) DEF OpenOutcomes
    <3>2. PICK d \in Nodes : d = w.at /\ d \in alive' /\ NULL # d
      BY <1>6, <3>1
    <3>3. refcount' = Ref(w, d).ref /\ irefs' = [w.iref EXCEPT ![d] = @ + 1] /\ file' = d
      BY <1>3, <2>1, <3>2 DEF Opened
    <3>4. w \in WalkRecs
      BY <1>5 DEF Walking
    <3>5. Ref(w, d).ref \in [Nodes -> Int]
      BY <3>4, SMTT(30) DEF Ref, WalkRecs
    <3>6. irefs' \in [Nodes -> Int]
      BY <1>6, <3>3, SMTT(30)
    <3>7. ASSUME NEW x \in Nodes
          PROVE  irefs'[x] = 1 + (IF x \in alive' THEN 1 ELSE 0) + (IF file' = x THEN 1 ELSE 0)
      <4>1. w.iref[x] = 1 + (IF x \in alive' THEN 1 ELSE 0) + 0
        <5>1. file # x
          BY <1>4, TreeAssumption
        <5> QED  BY <1>6, <5>1
      <4>2. irefs'[x] = IF x = d THEN w.iref[x] + 1 ELSE w.iref[x]
        BY <1>6, <3>3
      <4> QED  BY <3>3, <4>1, <4>2, SMTT(30)
    <3> QED  BY <3>2, <3>3, <3>5, <3>6, <3>7 DEF InodeReferences
  <2>2. CASE code # "VFS_OK"
    <3>1. refcount' = w.ref /\ irefs' = w.iref /\ file' = file
      BY <1>3, <2>2 DEF Opened
    <3> QED  BY <1>4, <1>6, <3>1 DEF InodeReferences
  <2> QED  BY <2>1, <2>2
<1>10. Inv'
  BY <1>4, <1>6, <1>7, <1>8, <1>9 DEF Inv, ParentsIn, Caches, Chain
<1>11. WalkFindsTheNode'
  <2>1. last' = [call |-> "open", code |-> code, result |-> w.at]
    BY <1>3 DEF Opened
  <2>2. last'.call # "walk"
    BY <2>1, SMTT(30)
  <2> QED  BY <2>2 DEF WalkFindsTheNode, LastWalk
<1> QED  BY <1>10, <1>11

LEMMA TreeStays ==
  ASSUME Inv, UNCHANGED <<alive, cache>>
  PROVE  /\ alive' \subseteq Nodes /\ Root \in alive'
         /\ ParentsIn(alive') /\ Caches(cache', alive')
<1>1. alive' = alive /\ cache' = cache
  OBVIOUS
<1>2. alive \subseteq Nodes /\ Root \in alive /\ ParentsIn(alive) /\ Caches(cache, alive)
  BY DEF Inv
<1> QED  BY <1>1, <1>2

LEMMA NoWalk ==
  ASSUME last' = NULL
  PROVE  WalkFindsTheNode'
  BY DEF WalkFindsTheNode, LastWalk

LEMMA ReleaseKeeps ==
  ASSUME Inv, Release
  PROVE  Inv' /\ WalkFindsTheNode'
<1>1. /\ held # NULL /\ refcount' = [refcount EXCEPT ![held] = @ - 1] /\ held' = NULL /\ last' = NULL
      /\ UNCHANGED <<alive, irefs, cache, file, opens, hung>>
  BY DEF Release
<1>2. held \in alive /\ alive \subseteq Nodes /\ held \in Nodes /\ refcount \in [Nodes -> Int]
  BY <1>1 DEF Inv
<1>3. refcount' \in [Nodes -> Int]
  BY <1>1, <1>2, SMTT(30)
<1>4. WalkReferences'
  <2>1. ASSUME opens' = 0, NEW d \in alive' PROVE refcount'[d] = 1 + (IF held' = d THEN 1 ELSE 0)
    <3>1. opens = 0 /\ d \in alive /\ d \in Nodes /\ held' # d
      BY <1>1, <1>2, <2>1, TreeAssumption
    <3>2. refcount[d] = 1 + (IF held = d THEN 1 ELSE 0)
      BY <3>1 DEF Inv, WalkReferences
    <3>3. refcount'[d] = IF d = held THEN refcount[d] - 1 ELSE refcount[d]
      BY <1>1, <1>2, <3>1
    <3> QED  BY <3>1, <3>2, <3>3, SMTT(30)
  <2> QED  BY <2>1 DEF WalkReferences
<1>5. InodeReferences'
  BY <1>1 DEF Inv, InodeReferences
<1>6. Inv'
  <2>1. alive' \subseteq Nodes /\ Root \in alive' /\ ParentsIn(alive') /\ Caches(cache', alive')
    BY <1>1, TreeStays
  <2>2. /\ held' \in alive' \cup {NULL} /\ file' \in alive' \cup {NULL} /\ irefs' \in [Nodes -> Int]
        /\ opens' \in Nat /\ (opens' = 0 => file' = NULL) /\ ~hung'
    BY <1>1, <1>3 DEF Inv
  <2> QED  BY <1>3, <1>4, <1>5, <2>1, <2>2 DEF Inv, ParentsIn, Caches, Chain
<1> QED  BY <1>1, <1>6, NoWalk

LEMMA CloseKeeps ==
  ASSUME Inv, vfs_close
  PROVE  Inv' /\ WalkFindsTheNode'
<1>1. /\ file # NULL /\ refcount' = [refcount EXCEPT ![file] = @ - 1] /\ irefs' = [irefs EXCEPT ![file] = @ - 1]
      /\ file' = NULL /\ last' = NULL
      /\ UNCHANGED <<alive, cache, held, opens, hung>>
  BY DEF vfs_close
<1>2. /\ file \in alive /\ alive \subseteq Nodes /\ file \in Nodes /\ refcount \in [Nodes -> Int]
      /\ irefs \in [Nodes -> Int] /\ opens # 0
  BY <1>1 DEF Inv
<1>3. refcount' \in [Nodes -> Int] /\ irefs' \in [Nodes -> Int]
  BY <1>1, <1>2, SMTT(30)
<1>4. WalkReferences'
  BY <1>1, <1>2 DEF WalkReferences
<1>5. InodeReferences'
  <2>1. ASSUME NEW d \in Nodes
        PROVE  irefs'[d] = 1 + (IF d \in alive' THEN 1 ELSE 0) + (IF file' = d THEN 1 ELSE 0)
    <3>1. irefs[d] = 1 + (IF d \in alive THEN 1 ELSE 0) + (IF file = d THEN 1 ELSE 0)
      BY DEF Inv, InodeReferences
    <3>2. irefs'[d] = IF d = file THEN irefs[d] - 1 ELSE irefs[d]
      BY <1>1, <1>2
    <3>3. file' # d /\ alive' = alive
      BY <1>1, TreeAssumption
    <3> QED  BY <3>1, <3>2, <3>3, SMTT(30)
  <2> QED  BY <2>1 DEF InodeReferences
<1>6. Inv'
  <2>1. alive' \subseteq Nodes /\ Root \in alive' /\ ParentsIn(alive') /\ Caches(cache', alive')
    BY <1>1, TreeStays
  <2>2. /\ held' \in alive' \cup {NULL} /\ file' \in alive' \cup {NULL} /\ irefs' \in [Nodes -> Int]
        /\ opens' \in Nat /\ (opens' = 0 => file' = NULL) /\ ~hung'
    BY <1>1, <1>3 DEF Inv
  <2> QED  BY <1>3, <1>4, <1>5, <2>1, <2>2 DEF Inv, ParentsIn, Caches, Chain
<1> QED  BY <1>1, <1>6, NoWalk

LEMMA TransferKeeps ==
  ASSUME Inv, Transfer
  PROVE  Inv' /\ WalkFindsTheNode'
<1>1. /\ last' = [call |-> "io", done |-> file \in WithOps, ret |-> IF file \in WithOps THEN 1 ELSE -VFS_EINVAL]
      /\ UNCHANGED <<alive, refcount, irefs, cache, held, file, opens, hung>>
  BY DEF Transfer
<1>2. last'.call # "walk"
  <2>1. last'.call = "io"
    BY <1>1
  <2> QED  BY <2>1, SMTT(30)
<1>3. WalkReferences' /\ InodeReferences'
  BY <1>1 DEF Inv, WalkReferences, InodeReferences
<1>4. Inv'
  <2>1. alive' \subseteq Nodes /\ Root \in alive' /\ ParentsIn(alive') /\ Caches(cache', alive')
    BY <1>1, TreeStays
  <2>2. /\ held' \in alive' \cup {NULL} /\ file' \in alive' \cup {NULL}
        /\ refcount' \in [Nodes -> Int] /\ irefs' \in [Nodes -> Int]
        /\ opens' \in Nat /\ (opens' = 0 => file' = NULL) /\ ~hung'
    BY <1>1 DEF Inv
  <2> QED  BY <1>3, <2>1, <2>2 DEF Inv, ParentsIn, Caches, Chain
<1> QED  BY <1>2, <1>4 DEF WalkFindsTheNode, LastWalk

LEMMA AllocKeeps ==
  ASSUME Inv, NEW d \in Nodes, alloc_dentry(d)
  PROVE  Inv' /\ WalkFindsTheNode'
<1>1. /\ d \notin alive /\ NodeParent[d] \in alive /\ alive' = alive \cup {d}
      /\ refcount' = [refcount EXCEPT ![d] = 1] /\ irefs' = [irefs EXCEPT ![d] = @ + 1]
      /\ cache' = dcache_add(cache, d) /\ last' = NULL
      /\ UNCHANGED <<held, file, opens, hung>>
  BY DEF alloc_dentry
<1>2. /\ alive \subseteq Nodes /\ refcount \in [Nodes -> Int] /\ irefs \in [Nodes -> Int]
      /\ held # d /\ file # d
  BY <1>1, TreeAssumption DEF Inv
<1>3. refcount' \in [Nodes -> Int] /\ irefs' \in [Nodes -> Int]
  BY <1>1, <1>2, SMTT(30)
<1>4. Caches(cache', alive')
  <2>1. Caches(dcache_add(cache, d), alive \cup {d})
    BY <1>1, AddKeeps DEF Inv
  <2> QED  BY <1>1, <2>1
<1>5. ParentsIn(alive')
  BY <1>1 DEF Inv, ParentsIn
<1>6. WalkReferences'
  <2>1. ASSUME opens' = 0, NEW x \in alive' PROVE refcount'[x] = 1 + (IF held' = x THEN 1 ELSE 0)
    <3>1. CASE x = d
      <4>1. refcount'[x] = 1 /\ held' # x
        BY <1>1, <1>2, <3>1
      <4> QED  BY <4>1, SMTT(30)
    <3>2. CASE x # d
      <4>1. x \in alive /\ refcount'[x] = refcount[x] /\ opens = 0 /\ held' = held
        BY <1>1, <1>2, <2>1, <3>2
      <4> QED  BY <4>1 DEF Inv, WalkReferences
    <3> QED  BY <3>1, <3>2
  <2> QED  BY <2>1 DEF WalkReferences
<1>7. InodeReferences'
  <2>1. ASSUME NEW x \in Nodes
        PROVE  irefs'[x] = 1 + (IF x \in alive' THEN 1 ELSE 0) + (IF file' = x THEN 1 ELSE 0)
    <3>1. irefs[x] = 1 + (IF x \in alive THEN 1 ELSE 0) + (IF file = x THEN 1 ELSE 0)
      BY DEF Inv, InodeReferences
    <3>2. irefs'[x] = IF x = d THEN irefs[x] + 1 ELSE irefs[x]
      BY <1>1, <1>2
    <3> QED  BY <1>1, <1>2, <3>1, <3>2, SMTT(30)
  <2> QED  BY <2>1 DEF InodeReferences
<1>8. Inv'
  <2>1. alive' \subseteq Nodes /\ Root \in alive' /\ held' \in alive' \cup {NULL} /\ file' \in alive' \cup {NULL}
    BY <1>1 DEF Inv
  <2>2. opens' \in Nat /\ (opens' = 0 => file' = NULL) /\ ~hung'
    BY <1>1 DEF Inv
  <2> QED  BY <1>3, <1>4, <1>5, <1>6, <1>7, <2>1, <2>2 DEF Inv, ParentsIn, Caches, Chain
<1> QED  BY <1>1, <1>8, NoWalk

LEMMA FreeKeeps ==
  ASSUME BucketsApart, Inv, NEW d \in Nodes, free_dentry(d)
  PROVE  Inv' /\ WalkFindsTheNode'
<1>1. /\ d \in alive \ {Root, held, file} /\ (\A c \in alive : NodeParent[c] # d) /\ alive' = alive \ {d}
      /\ irefs' = [irefs EXCEPT ![d] = @ - 1]
      /\ cache' = dcache_remove(cache, d) /\ hung' = Spins(cache, BucketOf(d), NodeName[d])
      /\ last' = NULL /\ UNCHANGED <<refcount, held, file, opens>>
  BY DEF free_dentry, Unused
<1>2. /\ alive \subseteq Nodes /\ irefs \in [Nodes -> Int] /\ Caches(cache, alive)
      /\ held # d /\ file # d /\ Root # d
  BY <1>1 DEF Inv
<1>3. irefs' \in [Nodes -> Int]
  BY <1>1, <1>2, SMTT(30)
<1>4. Caches(cache', alive') /\ ~hung'
  <2>1. ~Spins(cache, BucketOf(d), NodeName[d]) /\ Caches(dcache_remove(cache, d), alive \ {d})
    BY <1>1, <1>2, RemoveKeeps
  <2> QED  BY <1>1, <2>1
<1>5. ParentsIn(alive')
  BY <1>1 DEF Inv, ParentsIn
<1>6. WalkReferences'
  BY <1>1 DEF Inv, WalkReferences
<1>7. InodeReferences'
  <2>1. ASSUME NEW x \in Nodes
        PROVE  irefs'[x] = 1 + (IF x \in alive' THEN 1 ELSE 0) + (IF file' = x THEN 1 ELSE 0)
    <3>1. irefs[x] = 1 + (IF x \in alive THEN 1 ELSE 0) + (IF file = x THEN 1 ELSE 0)
      BY DEF Inv, InodeReferences
    <3>2. irefs'[x] = IF x = d THEN irefs[x] - 1 ELSE irefs[x]
      BY <1>1, <1>2
    <3> QED  BY <1>1, <1>2, <3>1, <3>2, SMTT(30)
  <2> QED  BY <2>1 DEF InodeReferences
<1>8. Inv'
  <2>1. alive' \subseteq Nodes /\ Root \in alive' /\ held' \in alive' \cup {NULL} /\ file' \in alive' \cup {NULL}
    BY <1>1, <1>2 DEF Inv
  <2>2. opens' \in Nat /\ (opens' = 0 => file' = NULL) /\ refcount' \in [Nodes -> Int]
    BY <1>1 DEF Inv
  <2> QED  BY <1>3, <1>4, <1>5, <1>6, <1>7, <2>1, <2>2 DEF Inv, ParentsIn, Caches, Chain
<1> QED  BY <1>1, <1>8, NoWalk

LEMMA Starts ==
  ASSUME Init
  PROVE  Inv /\ WalkFindsTheNode
<1> DEFINE c == [head |-> [b \in Buckets |-> NULL], next |-> [d \in Nodes |-> NULL]]
<1>1. /\ alive = {Root} /\ refcount = [d \in Nodes |-> 1]
      /\ irefs = [d \in Nodes |-> IF d = Root THEN 2 ELSE 1]
      /\ cache = dcache_add(c, Root) /\ held = NULL /\ file = NULL /\ opens = 0 /\ hung = FALSE /\ last = NULL
  BY DEF Init
<1>2. Root \in Nodes /\ NULL \notin Nodes /\ NodeParent[Root] = NULL
  BY TreeAssumption
<1>3. c \in CacheRecs /\ \A b \in Buckets : c.head[b] = NULL
  BY DEF CacheRecs
<1> HIDE DEF c
<1>4. Caches(c, {})
  <2>1. ASSUME NEW b \in Buckets PROVE Chain(c, {}, b, [i \in 0 .. 0 |-> NULL], 0)
    <3> DEFINE q == [i \in 0 .. 0 |-> NULL]
    <3>1. 0 \in Nat /\ q \in [0 .. 0 -> Nodes \cup {NULL}] /\ q[0] = NULL /\ \A i \in 0 .. 0 - 1 : FALSE
      BY SMTT(30)
    <3> HIDE DEF q
    <3>2. Chain(c, {}, b, q, 0)
      BY <1>3, <3>1 DEF Chain
    <3> QED  BY <3>2 DEF q
  <2> QED  BY <1>3, <2>1 DEF Caches
<1>5. Caches(cache, alive)
  <2>1. Caches(dcache_add(c, Root), {} \cup {Root})
    BY <1>2, <1>4, AddKeeps
  <2>2. {} \cup {Root} = alive
    BY <1>1
  <2> QED  BY <1>1, <2>1, <2>2
<1>6. refcount \in [Nodes -> Int] /\ irefs \in [Nodes -> Int] /\ opens \in Nat
  BY <1>1, SMTT(30)
<1>7. WalkReferences
  <2>1. ASSUME NEW d \in alive PROVE refcount[d] = 1 + (IF held = d THEN 1 ELSE 0)
    <3>1. refcount[d] = 1 /\ held # d
      BY <1>1, <1>2
    <3> QED  BY <3>1, SMTT(30)
  <2> QED  BY <2>1 DEF WalkReferences
<1>8. InodeReferences
  <2>1. ASSUME NEW d \in Nodes
        PROVE  irefs[d] = 1 + (IF d \in alive THEN 1 ELSE 0) + (IF file = d THEN 1 ELSE 0)
    <3>1. file # d
      BY <1>1, <1>2
    <3> QED  BY <1>1, <3>1, SMTT(30)
  <2> QED  BY <2>1 DEF InodeReferences
<1>9. ParentsIn(alive)
  BY <1>1, <1>2 DEF ParentsIn
<1>10. Inv
  BY <1>1, <1>2, <1>5, <1>6, <1>7, <1>8, <1>9 DEF Inv
<1>11. WalkFindsTheNode
  BY <1>1 DEF WalkFindsTheNode, LastWalk
<1> QED  BY <1>10, <1>11

LEMMA Keeps ==
  ASSUME BucketsApart, ~LOOKUP_ALLOCS, Inv, WalkFindsTheNode, [Next]_vars
  PROVE  Inv' /\ WalkFindsTheNode'
<1>1. CASE \E path \in Paths, wd \in WorkDirs : Walk(path, wd)
  BY <1>1, WalkKeeps
<1>2. CASE \E path \in OpenPaths, wd \in WorkDirs : vfs_open(path, wd)
  BY <1>2, OpenKeeps
<1>3. CASE Release
  BY <1>3, ReleaseKeeps
<1>4. CASE vfs_close
  BY <1>4, CloseKeeps
<1>5. CASE Transfer
  BY <1>5, TransferKeeps
<1>6. CASE \E d \in Nodes : alloc_dentry(d) \/ free_dentry(d)
  BY <1>6, AllocKeeps, FreeKeeps
<1>7. CASE UNCHANGED vars
  <2>1. UNCHANGED <<alive, refcount, irefs, cache, held, file, opens, hung, last>>
    BY <1>7 DEF vars
  <2>2. WalkReferences' /\ InodeReferences'
    BY <2>1 DEF Inv, WalkReferences, InodeReferences
  <2>3. Inv'
    <3>1. alive' \subseteq Nodes /\ Root \in alive' /\ ParentsIn(alive') /\ Caches(cache', alive')
      BY <2>1, TreeStays
    <3>2. /\ held' \in alive' \cup {NULL} /\ file' \in alive' \cup {NULL}
          /\ refcount' \in [Nodes -> Int] /\ irefs' \in [Nodes -> Int]
          /\ opens' \in Nat /\ (opens' = 0 => file' = NULL) /\ ~hung'
      BY <2>1 DEF Inv
    <3> QED  BY <2>2, <3>1, <3>2 DEF Inv, ParentsIn, Caches, Chain
  <2>4. WalkFindsTheNode'
    <3>1. ASSUME LastWalk PROVE last.result = Resolve(last.path, StartOf(last.path, last.wd))
      BY <3>1 DEF WalkFindsTheNode, StartOf
    <3>2. last' = last
      BY <2>1
    <3>3. LastWalk' => last'.result = Resolve(last'.path, StartOf(last'.path, last'.wd))
      BY <3>1, <3>2 DEF LastWalk
    <3> QED  BY <3>3 DEF WalkFindsTheNode, LastWalk, StartOf, Resolve, Steps
  <2> QED  BY <2>3, <2>4
<1> QED  BY <1>1, <1>2, <1>3, <1>4, <1>5, <1>6, <1>7 DEF Next

\* The invariant holds of every behaviour, if entries of one name and of different
\* directories do not share a bucket and the file system's lookup does not cache.
THEOREM CacheAndCountsRight ==
  ASSUME BucketsApart, ~LOOKUP_ALLOCS
  PROVE  Spec => []Inv
<1>1. Init => Inv /\ WalkFindsTheNode
  BY Starts
<1>2. Inv /\ WalkFindsTheNode /\ [Next]_vars => (Inv /\ WalkFindsTheNode)'
  BY Keeps
<1> QED  BY <1>1, <1>2, PTL DEF Spec

\* path_walk returns the node the path names, whatever was cached and freed before.
THEOREM WalksFindTheNode ==
  ASSUME BucketsApart, ~LOOKUP_ALLOCS
  PROVE  Spec => []WalkFindsTheNode
<1>1. Init => Inv /\ WalkFindsTheNode
  BY Starts
<1>2. Inv /\ WalkFindsTheNode /\ [Next]_vars => (Inv /\ WalkFindsTheNode)'
  BY Keeps
<1> QED  BY <1>1, <1>2, PTL DEF Spec

\* The dentry cache holds exactly the dentries that exist, each in its bucket.
THEOREM CacheIsExact ==
  ASSUME BucketsApart, ~LOOKUP_ALLOCS
  PROVE  Spec => []CacheHoldsLive
<1>1. Inv => CacheHoldsLive
  <2> SUFFICES ASSUME Inv, NEW b \in Buckets
               PROVE  {Entry(cache, b)[k] : k \in 0 .. MaxEntries} \ {NULL} = {d \in alive : BucketOf(d) = b}
    BY DEF CacheHoldsLive
  <2>1. PICK q, n : Chain(cache, alive, b, q, n)
    BY DEF Inv, Caches
  <2>2. alive \subseteq Nodes /\ NULL \notin alive
    BY TreeAssumption DEF Inv
  <2>3. n \in Nat /\ MaxEntries \in Nat /\ n <= MaxEntries
    BY <2>1, <2>2, ChainLength
  <2>4. \A k \in 0 .. MaxEntries : Entry(cache, b)[k] = IF k < n THEN q[k] ELSE NULL
    BY <2>1, <2>2, EntryOfChain
  <2>5. \A k : k \in 0 .. n - 1 <=> k \in 0 .. MaxEntries /\ k < n
    BY <2>3, SMTT(30)
  <2>6. ASSUME NEW k \in 0 .. MaxEntries, Entry(cache, b)[k] # NULL
        PROVE  Entry(cache, b)[k] \in alive /\ BucketOf(Entry(cache, b)[k]) = b
    <3>1. Entry(cache, b)[k] = q[k] /\ k \in 0 .. n - 1
      BY <2>4, <2>5, <2>6
    <3> QED  BY <2>1, <3>1 DEF Chain
  <2>7. ASSUME NEW d \in alive, BucketOf(d) = b PROVE \E k \in 0 .. MaxEntries : Entry(cache, b)[k] = d
    <3>1. PICK k \in 0 .. n - 1 : q[k] = d
      BY <2>1, <2>7 DEF Chain
    <3> QED  BY <2>4, <2>5, <3>1
  <2> QED  BY <2>2, <2>6, <2>7
<1> QED  BY <1>1, CacheAndCountsRight, PTL

\* Before the first vfs_open a dentry is counted once, and once more while it is held.
THEOREM WalksLeaveOneReference ==
  ASSUME BucketsApart, ~LOOKUP_ALLOCS
  PROVE  Spec => []WalkReferences
<1>1. Inv => WalkReferences
  BY DEF Inv
<1> QED  BY <1>1, CacheAndCountsRight, PTL

\* An inode is counted for itself, for its dentry and for the open file.
THEOREM InodeCountsRight ==
  ASSUME BucketsApart, ~LOOKUP_ALLOCS
  PROVE  Spec => []InodeReferences
<1>1. Inv => InodeReferences
  BY DEF Inv
<1> QED  BY <1>1, CacheAndCountsRight, PTL

\* A search of a bucket ends: the lists are never bent into a circle.
THEOREM EverySearchEnds ==
  ASSUME BucketsApart, ~LOOKUP_ALLOCS
  PROVE  Spec => []SearchesEnd
<1>1. Inv => SearchesEnd
  BY DEF Inv, SearchesEnd
<1> QED  BY <1>1, CacheAndCountsRight, PTL
====
