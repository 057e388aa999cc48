-------------------------- MODULE SchedulerProofs --------------------------
(***************************************************************************)
(* The run queues of scheduler.c, the placing of the first tasks by        *)
(* smp_init and the timers that preempt, for any number of processors and  *)
(* tasks.                                                                  *)
(***************************************************************************)
EXTENDS Scheduler, FiniteSetTheorems, WellFoundedInduction, TLAPS

\* Leaves go to Zenon unless they name the SMT solver.
USE ZenonT(30)

\* A set of natural numbers has a smallest element.
LEMMA Smallest ==
  ASSUME NEW S, S \subseteq Nat, S # {}
  PROVE  \E x \in S : \A y \in S : x <= y
<1>1. PICK x \in S : \A y \in S : ~(<<y, x>> \in OpToRel(<, Nat))
  BY NatLessThanWellFounded, WFMin
<1>2. ASSUME NEW y \in S, y < x PROVE FALSE
  <2>1. <<y, x>> \in OpToRel(<, Nat)
    BY <1>2 DEF OpToRel
  <2> QED  BY <1>1, <2>1
<1>3. \A y \in S : x \in Nat /\ y \in Nat
  OBVIOUS
<1> QED  BY <1>2, <1>3, SMTT(30)

-----------------------------------------------------------------------------
(* The inductive invariant. *)

SchedTypes ==
  /\ next \in [Nodes -> Nodes] /\ prev \in [Nodes -> Nodes]
  /\ current_task \in [Cores -> Tasks \cup {NULL}]
  /\ task_counter \in [Cores -> Int]
  /\ \A c \in Cores : task_counter[c] >= -MAX_BELOW_ZERO
  /\ cpu_id \in [Tasks -> Cores]
  /\ state \in [Tasks -> {"none", "placed", "queued", "zombie"}]
  /\ cpu_id_ctr \in Nat
  /\ core_id \in [Processors -> Cores \cup {NULL}]
  /\ started \in SUBSET Processors /\ ready \in SUBSET Processors /\ scheduling \in SUBSET Cores
  /\ exiting \in [Cores -> Int \cup {NULL}]
  /\ \A c \in Cores : exiting[c] # NULL => exiting[c] > -MAX_BELOW_ZERO
  /\ masked \in [Processors -> BOOLEAN]

\* Every link has its counterpart, and a task in no queue is linked to itself.
LinksConsistent ==
  /\ \A n \in Nodes : prev[next[n]] = n /\ next[prev[n]] = n
  /\ \A t \in Tasks : state[t] # "queued" => next[t] = t

\* The n tasks of core c in the order g[1] .. g[n] of its queue, which starts and
\* ends at its head.
RingOf(c, n, g) ==
  /\ g[0] = c /\ g[n + 1] = c
  /\ \A i \in 1 .. n : g[i] \in OnQueue(c)
  /\ \A t \in OnQueue(c) : \E i \in 1 .. n : g[i] = t
  /\ \A i, j \in 1 .. n : g[i] = g[j] => i = j
  /\ \A i \in 0 .. n : next[g[i]] = g[i + 1]

Rings == \A c \in Cores : \E n \in Nat : \E g \in [0 .. n + 1 -> Nodes] : RingOf(c, n, g)

Covered == {c \in Cores : \E t \in Created : cpu_id[t] = c}

\* Until smp_init starts the other processors, no task ends, and the tasks it creates
\* go to cores that have none as long as there is such a core.
BootPlacing ==
  /\ scheduling = {}
  /\ \A p \in Processors : core_id[p] = NULL
  /\ \A t \in Tasks : state[t] # "zombie"
  /\ Cardinality(Created) <= BOOT_TASKS
  /\ \A c \in Cores : task_counter[c] >= 0 /\ (c \in Covered => task_counter[c] > 0)
                      /\ (task_counter[c] > 0 => c \in Covered)
  /\ Covered = Cores \/ Cardinality(Covered) = Cardinality(Created)

\* Then every core finds a task in its queue when it schedules for the first time.
Boot ==
  /\ started = {} => BootPlacing
  /\ started # {} => \A c \in Cores \ scheduling : OnQueue(c) # {}

\* The indices are given out one after the other.
Indices ==
  /\ cpu_id_ctr = Cardinality({p \in Processors : core_id[p] # NULL})
  /\ \A p \in Processors : core_id[p] # NULL => core_id[p] < cpu_id_ctr
  /\ \A p, r \in Processors : core_id[p] = core_id[r] /\ core_id[p] # NULL => p = r

\* A core has no task before it schedules, and then it has one of its own; a timer is
\* unmasked by a task, never before.
Own ==
  /\ AlwaysATaskOfItsOwn
  /\ \A c \in Cores \ scheduling : current_task[c] = NULL
  /\ \A c \in Cores : exiting[c] # NULL => c \in scheduling
  /\ \A p \in Processors : ~masked[p] => core_id[p] \in scheduling

SchedInv == SchedTypes /\ LinksConsistent /\ Rings /\ Boot /\ Indices /\ Own

-----------------------------------------------------------------------------
(* Lemmas. *)

LEMMA Constants ==
  /\ MAX_CORES \in Nat \ {0} /\ MAX_BELOW_ZERO \in Nat /\ BOOT_TASKS \in Nat /\ BOOT_TASKS >= MAX_CORES
  /\ Cores # {} /\ (\A c \in Cores : c \in Nat /\ c \notin Tasks) /\ NULL \notin Tasks /\ NULL \notin Cores
  /\ IsFiniteSet(Cores) /\ Cardinality(Cores) = MAX_CORES
<1>1. MAX_CORES \in Nat \ {0} /\ MAX_BELOW_ZERO \in Nat /\ BOOT_TASKS \in MAX_CORES .. Cardinality(Tasks)
      /\ Cardinality(Tasks) \in Nat
  <2>1. IsFiniteSet(Tasks)
    BY SchedulerAssumption
  <2>2. Cardinality(Tasks) \in Nat
    BY <2>1, FS_CardinalityType
  <2> QED  BY <2>2, SchedulerAssumption
<1>2. IsFiniteSet(Cores) /\ Cardinality(Cores) = MAX_CORES
  <2>1. MAX_CORES - 1 \in Int /\ 0 \in Int /\ ~(0 > MAX_CORES - 1) /\ MAX_CORES - 1 - 0 + 1 = MAX_CORES
    BY <1>1, SMTT(30)
  <2>2. IsFiniteSet(0 .. MAX_CORES - 1)
        /\ Cardinality(0 .. MAX_CORES - 1) = IF 0 > MAX_CORES - 1 THEN 0 ELSE MAX_CORES - 1 - 0 + 1
    BY <2>1, FS_Interval
  <2> QED  BY <2>1, <2>2 DEF Cores
<1>3. 0 \in Cores
  BY <1>1, SMTT(30) DEF Cores
<1>4. \A c \in Cores : c \in Nat
  BY <1>1, SMTT(30) DEF Cores
<1> QED  BY <1>1, <1>2, <1>3, <1>4, SchedulerAssumption, SMTT(30) DEF Nodes

\* find_least_busy_cpu finds a core, and no core has a smaller counter.
LEMMA LeastBusyIs ==
  ASSUME SchedTypes
  PROVE  LeastBusy \in Cores /\ \A c \in Cores : task_counter[LeastBusy] <= task_counter[c]
<1> DEFINE S == {task_counter[c] + MAX_BELOW_ZERO : c \in Cores}
<1>1. \A c \in Cores : task_counter[c] \in Int /\ task_counter[c] + MAX_BELOW_ZERO \in Nat
  BY Constants, SMTT(30) DEF SchedTypes
<1>2. S \subseteq Nat /\ S # {}
  BY <1>1, Constants
<1>3. PICK m \in S : \A y \in S : m <= y
  <2> HIDE DEF S
  <2> QED  BY <1>2, Smallest
<1>4. PICK d \in Cores : task_counter[d] + MAX_BELOW_ZERO = m
  BY <1>3
<1>5. \A c \in Cores : task_counter[d] <= task_counter[c]
  <2>1. ASSUME NEW c \in Cores PROVE task_counter[d] <= task_counter[c]
    <3>1. task_counter[c] + MAX_BELOW_ZERO \in S
      OBVIOUS
    <3>2. m <= task_counter[c] + MAX_BELOW_ZERO
      BY <1>3, <3>1
    <3> QED  BY <1>1, <1>4, <3>2, Constants, SMTT(30)
  <2> QED  BY <2>1
<1> DEFINE L == {c \in Cores : task_counter[c] = task_counter[d]}
<1>6. PICK e \in L : \A y \in L : e <= y
  <2>1. L \subseteq Nat /\ L # {}
    BY Constants
  <2> HIDE DEF L
  <2> QED  BY <2>1, Smallest
<1>7. \A c \in Cores : task_counter[e] < task_counter[c] \/ (task_counter[e] = task_counter[c] /\ e <= c)
  BY <1>1, <1>5, <1>6, Constants, SMTT(30)
<1>8. LeastBusy \in Cores /\ \A c \in Cores :
        task_counter[LeastBusy] < task_counter[c]
        \/ (task_counter[LeastBusy] = task_counter[c] /\ LeastBusy <= c)
  BY <1>6, <1>7 DEF LeastBusy
<1> HIDE DEF LeastBusy
<1> QED  BY <1>1, <1>8, SMTT(30)

\* What schedule() picks is a task of the core's own.
LEMMA SuccessorIs ==
  ASSUME SchedTypes, LinksConsistent, Rings, NEW c \in Cores,
         current_task[c] # NULL => /\ state[current_task[c]] \in {"queued", "zombie"}
                                   /\ cpu_id[current_task[c]] = c,
         current_task[c] = NULL => OnQueue(c) # {}
  PROVE  /\ Successor(c) \in Tasks /\ state[Successor(c)] \in {"queued", "zombie"}
         /\ cpu_id[Successor(c)] = c
<1>1. PICK n \in Nat : \E g \in [0 .. n + 1 -> Nodes] : RingOf(c, n, g)
  BY DEF Rings
<1>2. PICK g \in [0 .. n + 1 -> Nodes] : RingOf(c, n, g)
  BY <1>1
<1>3. \A t \in OnQueue(c) : t \in Tasks /\ state[t] = "queued" /\ cpu_id[t] = c /\ t # c
  BY Constants DEF OnQueue
<1>4. next[c] = g[1] /\ \A i \in 1 .. n : g[i] \in OnQueue(c) /\ next[g[i]] = g[i + 1]
  BY <1>2, SMTT(30) DEF RingOf
<1>5. g[n + 1] = c /\ (OnQueue(c) # {} => n >= 1)
  BY <1>2, SMTT(30) DEF RingOf
<1>6. CASE current_task[c] = NULL
  <2>1. next[c] \in OnQueue(c) /\ next[c] # c
    BY <1>3, <1>4, <1>5, <1>6, SMTT(30)
  <2> QED  BY <1>3, <1>6, <2>1 DEF Successor, list_empty
<1>7. CASE current_task[c] # NULL /\ state[current_task[c]] = "zombie"
  <2>1. current_task[c] \in Tasks /\ next[current_task[c]] = current_task[c] /\ current_task[c] # c
    BY <1>7, Constants, SMTT(30) DEF SchedTypes, LinksConsistent
  <2>2. Successor(c) = current_task[c]
    BY <1>7, <2>1 DEF Successor
  <2> QED  BY <1>7, <2>1, <2>2
<1>8. CASE current_task[c] # NULL /\ state[current_task[c]] = "queued"
  <2>1. current_task[c] \in OnQueue(c)
    BY <1>8 DEF SchedTypes, OnQueue
  <2>2. PICK k \in 1 .. n : g[k] = current_task[c]
    BY <1>2, <2>1 DEF RingOf
  <2>3. next[current_task[c]] = g[k + 1] /\ (k + 1 = n + 1 \/ k + 1 \in 1 .. n)
    BY <1>4, <2>2, SMTT(30)
  <2>4. next[current_task[c]] = c \/ next[current_task[c]] \in OnQueue(c)
    BY <1>4, <1>5, <2>3
  <2>5. next[c] \in OnQueue(c)
    BY <1>4, <2>2, SMTT(30)
  <2> QED  BY <1>3, <1>8, <2>4, <2>5 DEF Successor
<1> QED  BY <1>6, <1>7, <1>8

LEMMA RingsUnchanged ==
  ASSUME Rings, UNCHANGED next, \A c \in Cores : OnQueue(c)' = OnQueue(c)
  PROVE  Rings'
<1> SUFFICES ASSUME NEW c \in Cores
             PROVE  \E n \in Nat : \E g \in [0 .. n + 1 -> Nodes] : RingOf(c, n, g)'
  BY DEF Rings, Nodes, Cores
<1>1. PICK n \in Nat : \E g \in [0 .. n + 1 -> Nodes] : RingOf(c, n, g)
  BY DEF Rings
<1>2. PICK g \in [0 .. n + 1 -> Nodes] : RingOf(c, n, g)
  BY <1>1
<1>3. RingOf(c, n, g)'
  BY <1>2, SMTT(30) DEF RingOf
<1> QED  BY <1>3

\* list_add_tail puts t behind the last task of its core.
LEMMA AddTailKeepsRings ==
  ASSUME SchedTypes, LinksConsistent, Rings, NEW t \in Tasks, NEW h \in Cores, cpu_id[t] = h,
         state[t] = "placed", list_add_tail(t, h),
         state' = [state EXCEPT ![t] = "queued"], UNCHANGED cpu_id
  PROVE  /\ next' \in [Nodes -> Nodes] /\ prev' \in [Nodes -> Nodes]
         /\ LinksConsistent' /\ Rings'
<1> DEFINE last == prev[h]
<1>1. /\ next' = [next EXCEPT ![t] = h, ![last] = t]
      /\ prev' = [prev EXCEPT ![h] = t, ![t] = last]
  BY DEF list_add_tail
<1>2. t \in Nodes /\ h \in Nodes /\ last \in Nodes /\ t # h /\ next[last] = h
  BY Constants, SMTT(30) DEF Nodes, SchedTypes, LinksConsistent
<1>3. next[t] = t /\ prev[t] = t /\ last # t
  BY <1>2 DEF SchedTypes, LinksConsistent
<1>4. next' \in [Nodes -> Nodes] /\ prev' \in [Nodes -> Nodes]
  BY <1>1, <1>2 DEF SchedTypes
<1> HIDE DEF last
<1>5. /\ next'[t] = h /\ next'[last] = t /\ \A n \in Nodes \ {t, last} : next'[n] = next[n]
      /\ prev'[t] = last /\ prev'[h] = t /\ \A n \in Nodes \ {t, h} : prev'[n] = prev[n]
  BY <1>1, <1>2, <1>3 DEF SchedTypes
<1>6. LinksConsistent'
  <2>1. ASSUME NEW n \in Nodes PROVE prev'[next'[n]] = n /\ next'[prev'[n]] = n
    <3>1. prev[next[n]] = n /\ next[prev[n]] = n /\ next[n] \in Nodes /\ prev[n] \in Nodes
      BY DEF LinksConsistent, SchedTypes
    <3> QED  BY <1>2, <1>3, <1>5, <3>1, SMTT(30) DEF last
  <2>2. ASSUME NEW u \in Tasks, state'[u] # "queued" PROVE next'[u] = u
    <3>1. u # t /\ state[u] # "queued" /\ next[u] = u /\ u \in Nodes
      BY <2>2 DEF SchedTypes, LinksConsistent, Nodes
    <3>2. u # last
      BY <1>2, <3>1, Constants
    <3> QED  BY <1>5, <3>1, <3>2
  <2> QED  BY <2>1, <2>2 DEF LinksConsistent
<1>7. OnQueue(h)' = OnQueue(h) \cup {t} /\ t \notin OnQueue(h)
      /\ \A c \in Cores \ {h} : OnQueue(c)' = OnQueue(c) /\ t \notin OnQueue(c)
  BY DEF OnQueue, SchedTypes
<1>8. PICK m \in Nat : \E g \in [0 .. m + 1 -> Nodes] : RingOf(h, m, g)
  BY DEF Rings
<1>9. PICK f \in [0 .. m + 1 -> Nodes] : RingOf(h, m, f)
  BY <1>8
<1>10. f[m] = last
  <2>1. next[f[m]] = h /\ f[m] \in Nodes
    BY <1>9, SMTT(30) DEF RingOf
  <2> QED  BY <2>1 DEF last, LinksConsistent
<1>11. \E n \in Nat : \E g \in [0 .. n + 1 -> Nodes] : RingOf(h, n, g)'
  <2> DEFINE g == [i \in 0 .. (m + 1) + 1 |-> IF i <= m THEN f[i] ELSE IF i = m + 1 THEN t ELSE h]
  <2>1. g \in [0 .. (m + 1) + 1 -> Nodes]
    BY <1>2, SMTT(30)
  <2>2. /\ \A i \in 0 .. m : g[i] = f[i]
        /\ g[m + 1] = t /\ g[(m + 1) + 1] = h
    BY SMTT(30)
  <2> HIDE DEF g
  <2>3. \A i \in 1 .. m : f[i] \in OnQueue(h) /\ f[i] # t
    BY <1>7, <1>9, SMTT(30) DEF RingOf
  <2>4. f[0] = h /\ \A i, j \in 1 .. m : f[i] = f[j] => i = j
    BY <1>9 DEF RingOf
  <2>5. g[0] = h /\ \A i \in 1 .. m + 1 : g[i] \in OnQueue(h)'
    <3>1. \A i \in 1 .. m + 1 : i \in 1 .. m \/ i = m + 1
      BY SMTT(30)
    <3> QED  BY <1>7, <2>2, <2>3, <2>4, <3>1, SMTT(30)
  <2>6. \A u \in OnQueue(h)' : \E i \in 1 .. m + 1 : g[i] = u
    <3>1. ASSUME NEW u \in OnQueue(h) PROVE \E i \in 1 .. m + 1 : g[i] = u
      <4>1. PICK i \in 1 .. m : f[i] = u
        BY <1>9 DEF RingOf
      <4>2. i \in 1 .. m + 1 /\ g[i] = u
        BY <2>2, <4>1, SMTT(30)
      <4> QED  BY <4>2
    <3>2. m + 1 \in 1 .. m + 1
      BY SMTT(30)
    <3> QED  BY <1>7, <2>2, <3>1, <3>2
  <2>7. \A i, j \in 1 .. m + 1 : g[i] = g[j] => i = j
    <3>1. \A i \in 1 .. m + 1 : i \in 1 .. m \/ i = m + 1
      BY SMTT(30)
    <3>2. \A i \in 1 .. m : g[i] = f[i] /\ g[i] # t
      BY <2>2, <2>3, SMTT(30)
    <3> QED  BY <2>2, <2>4, <3>1, <3>2
  <2>8. \A i \in 0 .. m + 1 : next'[g[i]] = g[i + 1]
    <3>1. ASSUME NEW i \in 0 .. m - 1 PROVE next'[g[i]] = g[i + 1]
      <4>1. i \in 0 .. m /\ i + 1 \in 0 .. m /\ f[i] \in Nodes /\ next[f[i]] = f[i + 1]
        BY <1>9, SMTT(30) DEF RingOf
      <4>2. f[i + 1] # h
        BY <2>3, Constants, SMTT(30) DEF OnQueue
      <4>3. f[i] # last /\ f[i] # t
        <5>1. f[i] # last
          BY <1>2, <4>1, <4>2
        <5>2. i = 0 \/ i \in 1 .. m
          BY <4>1, SMTT(30)
        <5> QED  BY <1>2, <2>3, <2>4, <5>1, <5>2
      <4> QED  BY <1>5, <2>2, <4>1, <4>3
    <3>2. next'[g[m]] = g[m + 1]
      BY <1>5, <1>10, <2>2, SMTT(30)
    <3>3. next'[g[m + 1]] = g[(m + 1) + 1]
      BY <1>5, <2>2
    <3>4. \A i \in 0 .. m + 1 : i \in 0 .. m - 1 \/ i = m \/ i = m + 1
      BY SMTT(30)
    <3> QED  BY <3>1, <3>2, <3>3, <3>4
  <2>9. m + 1 \in Nat /\ RingOf(h, m + 1, g)'
    BY <2>2, <2>5, <2>6, <2>7, <2>8, SMTT(30) DEF RingOf
  <2> QED  BY <2>1, <2>9
<1>12. ASSUME NEW c \in Cores \ {h}
       PROVE  \E n \in Nat : \E g \in [0 .. n + 1 -> Nodes] : RingOf(c, n, g)'
  <2>1. PICK n \in Nat : \E g \in [0 .. n + 1 -> Nodes] : RingOf(c, n, g)
    BY DEF Rings
  <2>2. PICK g \in [0 .. n + 1 -> Nodes] : RingOf(c, n, g)
    BY <2>1
  <2>3. last \in OnQueue(h) \cup {h}
    <3>1. m = 0 \/ m \in 1 .. m
      BY SMTT(30)
    <3> QED  BY <1>9, <1>10, <3>1 DEF RingOf
  <2>4. \A i \in 0 .. n : next'[g[i]] = g[i + 1]
    <3>1. ASSUME NEW i \in 0 .. n PROVE next'[g[i]] = g[i + 1]
      <4>1. g[i] \in OnQueue(c) \cup {c} /\ g[i] \in Nodes /\ next[g[i]] = g[i + 1]
        <5>1. i = 0 \/ i \in 1 .. n
          BY SMTT(30)
        <5> QED  BY <2>2, <5>1, SMTT(30) DEF RingOf
      <4>2. g[i] # t /\ g[i] # last
        BY <1>7, <2>3, <4>1, Constants, SMTT(30) DEF OnQueue
      <4> QED  BY <1>5, <4>1, <4>2
    <3> QED  BY <3>1
  <2>5. RingOf(c, n, g)'
    BY <1>7, <2>2, <2>4, SMTT(30) DEF RingOf
  <2> QED  BY <2>5
<1>13. Rings'
  BY <1>11, <1>12 DEF Rings, Nodes, Cores
<1> QED  BY <1>4, <1>6, <1>13

\* list_del takes t out of the queue of its core, and leaves a task that is in no
\* queue as it is.
LEMMA DelKeepsRings ==
  ASSUME SchedTypes, LinksConsistent, Rings, NEW t \in Tasks, NEW h \in Cores, cpu_id[t] = h,
         state[t] \in {"queued", "zombie"}, list_del(t),
         state' = [state EXCEPT ![t] = "zombie"], UNCHANGED cpu_id
  PROVE  /\ next' \in [Nodes -> Nodes] /\ prev' \in [Nodes -> Nodes]
         /\ LinksConsistent' /\ Rings'
<1> DEFINE before == prev[t]
           after == next[t]
<1>1. /\ next' = [next EXCEPT ![before] = after, ![t] = t]
      /\ prev' = [prev EXCEPT ![after] = before, ![t] = t]
  BY DEF list_del
<1>2. t \in Nodes /\ before \in Nodes /\ after \in Nodes /\ next[before] = t /\ prev[after] = t
  BY DEF Nodes, SchedTypes, LinksConsistent
<1>3. next' \in [Nodes -> Nodes] /\ prev' \in [Nodes -> Nodes]
  BY <1>1, <1>2 DEF SchedTypes
<1>4. next[t] = after /\ prev[t] = before
  OBVIOUS
<1> HIDE DEF before, after
<1>5. /\ next'[t] = t /\ (before # t => next'[before] = after)
      /\ \A n \in Nodes \ {t, before} : next'[n] = next[n]
      /\ prev'[t] = t /\ (after # t => prev'[after] = before)
      /\ \A n \in Nodes \ {t, after} : prev'[n] = prev[n]
  BY <1>1, <1>2 DEF SchedTypes
<1>6. LinksConsistent'
  <2>1. ASSUME NEW n \in Nodes PROVE prev'[next'[n]] = n /\ next'[prev'[n]] = n
    <3>1. prev[next[n]] = n /\ next[prev[n]] = n /\ next[n] \in Nodes /\ prev[n] \in Nodes
      BY DEF LinksConsistent, SchedTypes
    <3> QED  BY <1>2, <1>4, <1>5, <3>1, SMTT(30)
  <2>2. ASSUME NEW u \in Tasks, state'[u] # "queued" PROVE next'[u] = u
    <3>1. u = t \/ (state[u] # "queued" /\ next[u] = u /\ u \in Nodes)
      BY <2>2 DEF SchedTypes, LinksConsistent, Nodes
    <3> QED  BY <1>2, <1>5, <3>1
  <2> QED  BY <2>1, <2>2 DEF LinksConsistent
<1>7. OnQueue(h)' = OnQueue(h) \ {t}
      /\ \A c \in Cores \ {h} : OnQueue(c)' = OnQueue(c) /\ t \notin OnQueue(c)
  BY DEF OnQueue, SchedTypes
<1>8. CASE state[t] = "zombie"
  <2>1. after = t /\ before = t
    BY <1>2, <1>4, <1>8 DEF LinksConsistent
  <2>2. next' = next
    BY <1>2, <1>3, <1>4, <1>5, <2>1, SMTT(30) DEF SchedTypes
  <2>3. \A c \in Cores : OnQueue(c)' = OnQueue(c)
    BY <1>7, <1>8, SMTT(30) DEF OnQueue
  <2>4. Rings'
    BY <2>2, <2>3, RingsUnchanged
  <2> QED  BY <1>3, <1>6, <2>4
<1>9. CASE state[t] = "queued"
  <2>1. t \in OnQueue(h)
    BY <1>9 DEF OnQueue
  <2>2. PICK m \in Nat : \E g \in [0 .. m + 1 -> Nodes] : RingOf(h, m, g)
    BY DEF Rings
  <2>3. PICK f \in [0 .. m + 1 -> Nodes] : RingOf(h, m, f)
    BY <2>2
  <2>4. PICK k \in 1 .. m : f[k] = t
    BY <2>1, <2>3 DEF RingOf
  <2>5. f[k - 1] = before /\ f[k + 1] = after
    <3>1. k - 1 \in 0 .. m /\ k \in 0 .. m /\ (k - 1) + 1 = k /\ f[k - 1] \in Nodes
      BY <2>4, SMTT(30)
    <3>2. next[f[k - 1]] = t /\ next[t] = f[k + 1]
      BY <2>3, <2>4, <3>1 DEF RingOf
    <3> QED  BY <1>4, <3>1, <3>2 DEF LinksConsistent
  <2>6. f[0] = h /\ f[m + 1] = h /\ (\A i \in 1 .. m : f[i] \in OnQueue(h) /\ f[i] # h)
        /\ \A i, j \in 1 .. m : f[i] = f[j] => i = j
    BY <2>3, Constants, SMTT(30) DEF RingOf, OnQueue
  <2>7. before # t /\ before \in OnQueue(h) \cup {h}
    <3>1. k - 1 = 0 \/ (k - 1 \in 1 .. m /\ k - 1 # k)
      BY <2>4, SMTT(30)
    <3> QED  BY <2>4, <2>5, <2>6, <3>1
  <2>8. \E n \in Nat : \E g \in [0 .. n + 1 -> Nodes] : RingOf(h, n, g)'
    <3> DEFINE g == [i \in 0 .. (m - 1) + 1 |-> IF i < k THEN f[i] ELSE f[i + 1]]
    <3>1. g \in [0 .. (m - 1) + 1 -> Nodes] /\ m - 1 \in Nat
      BY <2>4, SMTT(30)
    <3>2. /\ \A i \in 0 .. k - 1 : g[i] = f[i]
          /\ \A i \in k .. m : g[i] = f[i + 1]
      BY <2>4, SMTT(30)
    <3> HIDE DEF g
    <3>3. g[0] = h /\ g[(m - 1) + 1] = h
      BY <2>4, <2>6, <3>2, SMTT(30)
    <3>4. \A i \in 1 .. m - 1 : g[i] \in OnQueue(h)'
      <4>1. ASSUME NEW i \in 1 .. m - 1 PROVE g[i] \in OnQueue(h) /\ g[i] # t
        <5>1. CASE i < k
          <6>1. i \in 0 .. k - 1 /\ i \in 1 .. m /\ i # k
            BY <2>4, <5>1, SMTT(30)
          <6> QED  BY <2>4, <2>6, <3>2, <6>1
        <5>2. CASE i >= k
          <6>1. i \in k .. m /\ i + 1 \in 1 .. m /\ i + 1 # k
            BY <2>4, <5>2, SMTT(30)
          <6> QED  BY <2>4, <2>6, <3>2, <6>1
        <5> QED  BY <5>1, <5>2, SMTT(30)
      <4> QED  BY <1>7, <4>1
    <3>5. \A u \in OnQueue(h)' : \E i \in 1 .. m - 1 : g[i] = u
      <4> SUFFICES ASSUME NEW u \in OnQueue(h), u # t PROVE \E i \in 1 .. m - 1 : g[i] = u
        BY <1>7
      <4>1. PICK j \in 1 .. m : f[j] = u
        BY <2>3 DEF RingOf
      <4>2. CASE j < k
        <5>1. j \in 1 .. m - 1 /\ j \in 0 .. k - 1
          BY <2>4, <4>2, SMTT(30)
        <5> QED  BY <3>2, <4>1, <5>1
      <4>3. CASE j > k
        <5>1. j - 1 \in 1 .. m - 1 /\ j - 1 \in k .. m /\ (j - 1) + 1 = j
          BY <2>4, <4>3, SMTT(30)
        <5>2. g[j - 1] = u
          BY <3>2, <4>1, <5>1
        <5> QED  BY <5>1, <5>2
      <4> QED  BY <2>4, <4>1, <4>2, <4>3, SMTT(30)
    <3>6. \A i, j \in 1 .. m - 1 : g[i] = g[j] => i = j
      <4>1. ASSUME NEW i \in 1 .. m - 1
            PROVE  \E a \in 1 .. m : g[i] = f[a] /\ a = IF i < k THEN i ELSE i + 1
        <5>1. i < k => i \in 0 .. k - 1 /\ i \in 1 .. m
          BY <2>4, SMTT(30)
        <5>2. ~(i < k) => i \in k .. m /\ i + 1 \in 1 .. m
          BY <2>4, SMTT(30)
        <5> QED  BY <3>2, <5>1, <5>2
      <4> SUFFICES ASSUME NEW i \in 1 .. m - 1, NEW j \in 1 .. m - 1, g[i] = g[j] PROVE i = j
        OBVIOUS
      <4>2. PICK a \in 1 .. m : g[i] = f[a] /\ a = IF i < k THEN i ELSE i + 1
        BY <4>1
      <4>3. PICK b \in 1 .. m : g[j] = f[b] /\ b = IF j < k THEN j ELSE j + 1
        BY <4>1
      <4>4. a = b
        BY <2>6, <4>2, <4>3
      <4> QED  BY <2>4, <4>2, <4>3, <4>4, SMTT(30)
    <3>7. \A i \in 0 .. m - 1 : next'[g[i]] = g[i + 1]
      <4>1. ASSUME NEW i \in 0 .. m, i # k, i # k - 1 PROVE next'[f[i]] = f[i + 1]
        <5>1. next[f[i]] = f[i + 1] /\ f[i] \in Nodes
          BY <2>3, SMTT(30) DEF RingOf
        <5>2. f[i + 1] # t
          <6>1. i + 1 = m + 1 \/ (i + 1 \in 1 .. m /\ i + 1 # k)
            BY <2>4, <4>1, SMTT(30)
          <6> QED  BY <2>4, <2>6, <6>1
        <5>3. f[i] # before
          BY <1>2, <5>1, <5>2
        <5>4. f[i] # t
          <6>1. i = 0 \/ i \in 1 .. m
            BY SMTT(30)
          <6> QED  BY <2>4, <2>6, <4>1, <6>1
        <5> QED  BY <1>5, <5>1, <5>3, <5>4
      <4> SUFFICES ASSUME NEW i \in 0 .. m - 1 PROVE next'[g[i]] = g[i + 1]
        OBVIOUS
      <4>2. CASE i < k - 1
        <5>1. i \in 0 .. k - 1 /\ i + 1 \in 0 .. k - 1 /\ i \in 0 .. m /\ i # k /\ i # k - 1
          BY <2>4, <4>2, SMTT(30)
        <5> QED  BY <3>2, <4>1, <5>1
      <4>3. CASE i = k - 1
        <5>1. i \in 0 .. k - 1 /\ i + 1 \in k .. m /\ (i + 1) + 1 = k + 1
          BY <2>4, <4>3, SMTT(30)
        <5>2. g[i] = before /\ g[i + 1] = after
          BY <2>5, <3>2, <4>3, <5>1
        <5> QED  BY <1>5, <2>7, <5>2
      <4>4. CASE i >= k
        <5>1. i \in k .. m /\ i + 1 \in k .. m /\ i + 1 \in 0 .. m /\ i + 1 # k /\ i + 1 # k - 1
          BY <2>4, <4>4, SMTT(30)
        <5> QED  BY <3>2, <4>1, <5>1
      <4> QED  BY <2>4, <4>2, <4>3, <4>4, SMTT(30)
    <3>8. RingOf(h, m - 1, g)'
      BY <3>1, <3>3, <3>4, <3>5, <3>6, <3>7 DEF RingOf
    <3> QED  BY <3>1, <3>8
  <2>9. ASSUME NEW c \in Cores \ {h}
        PROVE  \E n \in Nat : \E g \in [0 .. n + 1 -> Nodes] : RingOf(c, n, g)'
    <3>1. PICK n \in Nat : \E g \in [0 .. n + 1 -> Nodes] : RingOf(c, n, g)
      BY DEF Rings
    <3>2. PICK g \in [0 .. n + 1 -> Nodes] : RingOf(c, n, g)
      BY <3>1
    <3>3. \A i \in 0 .. n : next'[g[i]] = g[i + 1]
      <4>1. ASSUME NEW i \in 0 .. n PROVE next'[g[i]] = g[i + 1]
        <5>1. g[i] \in OnQueue(c) \cup {c} /\ g[i] \in Nodes /\ next[g[i]] = g[i + 1]
          <6>1. i = 0 \/ i \in 1 .. n
            BY SMTT(30)
          <6> QED  BY <3>2, <6>1, SMTT(30) DEF RingOf
        <5>2. g[i] # t /\ g[i] # before
          BY <1>7, <2>7, <5>1, Constants DEF OnQueue
        <5> QED  BY <1>5, <5>1, <5>2
      <4> QED  BY <4>1
    <3>4. RingOf(c, n, g)'
      BY <1>7, <3>2, <3>3, SMTT(30) DEF RingOf
    <3> QED  BY <3>4
  <2>10. Rings'
    BY <2>8, <2>9 DEF Rings, Nodes, Cores
  <2> QED  BY <1>3, <1>6, <2>10
<1> QED  BY <1>8, <1>9

\* Following next from a queue's head leads through the tasks of the queue, one after
\* the other, and stays at the head.
LEMMA RingsWellFormed ==
  ASSUME SchedTypes, LinksConsistent, Rings
  PROVE  RunQueuesWellFormed
<1> DEFINE N == Cardinality(Tasks)
<1> SUFFICES ASSUME NEW c \in Cores
             PROVE  LET ring[k \in 0 .. N] ==
                          IF k = 0 THEN next[c] ELSE IF ring[k - 1] = c THEN c ELSE next[ring[k - 1]]
                    IN {ring[k] : k \in 0 .. N} \ {c} = OnQueue(c)
  BY DEF RunQueuesWellFormed, LinksConsistent
<1> DEFINE ring[k \in 0 .. N] ==
             IF k = 0 THEN next[c] ELSE IF ring[k - 1] = c THEN c ELSE next[ring[k - 1]]
<1>1. PICK n \in Nat : \E g \in [0 .. n + 1 -> Nodes] : RingOf(c, n, g)
  BY DEF Rings
<1>2. PICK g \in [0 .. n + 1 -> Nodes] : RingOf(c, n, g)
  BY <1>1
<1>3. N \in Nat /\ n <= N
  <2>1. IsFiniteSet(Tasks)
    BY SchedulerAssumption
  <2>2. [i \in 1 .. n |-> g[i]] \in Injection(1 .. n, Tasks)
    <3>1. \A i \in 1 .. n : g[i] \in Tasks
      BY <1>2 DEF RingOf, OnQueue
    <3>2. \A i, j \in 1 .. n : g[i] = g[j] => i = j
      BY <1>2 DEF RingOf
    <3> QED  BY <3>1, <3>2 DEF Injection, IsInjective
  <2>3. Cardinality(1 .. n) <= Cardinality(Tasks)
    BY <2>1, <2>2, FS_Injection
  <2>4. Cardinality(1 .. n) = n
    BY FS_Interval, SMTT(30)
  <2> QED  BY <2>1, <2>3, <2>4, FS_CardinalityType
<1> HIDE DEF N
<1> DEFINE F == [k \in 0 .. N |-> IF k < n THEN g[k + 1] ELSE c]
<1>4. /\ next[c] = g[1] /\ g[n + 1] = c /\ \A i \in 1 .. n : next[g[i]] = g[i + 1]
      /\ \A i \in 1 .. n : g[i] \in OnQueue(c) /\ g[i] # c
  BY <1>2, Constants, SMTT(30) DEF RingOf, OnQueue
<1>5. /\ F[0] = next[c]
      /\ \A k \in 1 .. N : F[k] = IF F[k - 1] = c THEN c ELSE next[F[k - 1]]
  <2>1. F[0] = next[c]
    BY <1>3, <1>4, SMTT(30)
  <2>2. ASSUME NEW k \in 1 .. N PROVE F[k] = IF F[k - 1] = c THEN c ELSE next[F[k - 1]]
    <3>1. k \in 0 .. N /\ k - 1 \in 0 .. N /\ (k - 1) + 1 = k
      BY <1>3, SMTT(30)
    <3>2. CASE k - 1 < n
      <4>1. F[k - 1] = g[k] /\ k \in 1 .. n /\ next[g[k]] = g[k + 1] /\ g[k] # c
        BY <1>3, <1>4, <3>1, <3>2, SMTT(30)
      <4>2. F[k] = g[k + 1]
        <5>1. k < n \/ k + 1 = n + 1
          BY <3>2, SMTT(30)
        <5> QED  BY <1>4, <3>1, <5>1
      <4> QED  BY <4>1, <4>2
    <3>3. CASE ~(k - 1 < n)
      <4>1. F[k - 1] = c /\ ~(k < n)
        BY <1>3, <3>1, <3>3, SMTT(30)
      <4> QED  BY <3>1, <4>1
    <3> QED  BY <3>2, <3>3
  <2> QED  BY <2>1, <2>2
<1>6. F = [k \in 0 .. N |-> IF k = 0 THEN next[c] ELSE IF F[k - 1] = c THEN c ELSE next[F[k - 1]]]
  <2>1. \A k \in 0 .. N : k = 0 \/ k \in 1 .. N
    BY <1>3, SMTT(30)
  <2>2. DOMAIN F = 0 .. N /\ F = [k \in 0 .. N |-> F[k]]
    OBVIOUS
  <2> HIDE DEF F
  <2> QED  BY <1>5, <2>1, <2>2
<1>7. ring = [k \in 0 .. N |-> IF k = 0 THEN next[c] ELSE IF ring[k - 1] = c THEN c ELSE next[ring[k - 1]]]
  <2> HIDE DEF F
  <2> QED  BY <1>6
<1>8. \A k \in 0 .. N : ring[k] = F[k]
  <2> HIDE DEF F, ring
  <2> DEFINE S == {k \in 0 .. N : ring[k] # F[k]}
  <2>1. SUFFICES ASSUME S # {} PROVE FALSE
    BY <2>1
  <2>2. PICK k \in S : \A j \in S : k <= j
    <3>1. S \subseteq Nat
      BY <1>3, SMTT(30)
    <3> HIDE DEF S
    <3> QED  BY <2>1, <3>1, Smallest
  <2>3. CASE k = 0
    BY <1>5, <1>7, <2>2, <2>3
  <2>4. CASE k # 0
    <3>1. k \in 1 .. N /\ k - 1 \in 0 .. N /\ ~(k <= k - 1)
      BY <1>3, <2>2, <2>4, SMTT(30)
    <3>2. ring[k - 1] = F[k - 1]
      BY <2>2, <3>1
    <3> QED  BY <1>5, <1>7, <2>2, <2>4, <3>1, <3>2, SMTT(30)
  <2> QED  BY <2>3, <2>4
<1>9. {F[k] : k \in 0 .. N} \ {c} = OnQueue(c)
  <2>1. ASSUME NEW u \in OnQueue(c) PROVE u # c /\ \E k \in 0 .. N : u = F[k]
    <3>1. PICK i \in 1 .. n : g[i] = u
      BY <1>2 DEF RingOf
    <3>2. i - 1 \in 0 .. N /\ i - 1 < n /\ (i - 1) + 1 = i
      BY <1>3, SMTT(30)
    <3>3. F[i - 1] = u
      BY <3>1, <3>2
    <3> QED  BY <1>4, <3>1, <3>2, <3>3
  <2>2. ASSUME NEW k \in 0 .. N, F[k] # c PROVE F[k] \in OnQueue(c)
    <3>1. k < n /\ F[k] = g[k + 1] /\ k + 1 \in 1 .. n
      BY <1>3, <2>2, SMTT(30)
    <3> QED  BY <1>4, <3>1
  <2> HIDE DEF F
  <2> QED  BY <2>1, <2>2
<1>10. {ring[k] : k \in 0 .. N} = {F[k] : k \in 0 .. N}
  <2> HIDE DEF F, ring
  <2> QED  BY <1>8
<1>11. {ring[k] : k \in 0 .. N} \ {c} = OnQueue(c)
  <2> HIDE DEF F, ring
  <2> QED  BY <1>9, <1>10
<1> QED  BY <1>11

-----------------------------------------------------------------------------
(* The initial state and the steps. *)

LEMMA InitSched == Init => SchedInv
<1> SUFFICES ASSUME Init PROVE SchedInv
  OBVIOUS
<1>1. SchedTypes
  BY Constants, SMTT(30) DEF Init, TimerInit, SchedTypes, Cores
<1>2. LinksConsistent
  BY DEF Init, LinksConsistent, Nodes
<1>3. \A c \in Cores : OnQueue(c) = {}
  BY DEF Init, OnQueue
<1>4. Rings
  <2> SUFFICES ASSUME NEW c \in Cores
               PROVE  \E n \in Nat : \E g \in [0 .. n + 1 -> Nodes] : RingOf(c, n, g)
    BY DEF Rings
  <2>1. [i \in 0 .. 0 + 1 |-> c] \in [0 .. 0 + 1 -> Nodes] /\ RingOf(c, 0, [i \in 0 .. 0 + 1 |-> c])
    <3>1. next[c] = c /\ c \in Nodes
      BY DEF Init, Nodes
    <3> QED  BY <1>3, <3>1, SMTT(30) DEF RingOf
  <2> QED  BY <2>1
<1>5. Created = {} /\ Covered = {}
  BY DEF Init, Created, Covered
<1>6. Boot
  BY <1>5, Constants, FS_EmptySet, SMTT(30) DEF Init, Boot, BootPlacing
<1>7. Indices
  <2>1. {p \in Processors : core_id[p] # NULL} = {}
    BY DEF Init
  <2> QED  BY <2>1, FS_EmptySet DEF Init, Indices
<1>8. Own
  BY DEF Init, TimerInit, Own, AlwaysATaskOfItsOwn
<1> QED  BY <1>1, <1>2, <1>4, <1>6, <1>7, <1>8 DEF SchedInv

LEMMA CreatedFinite ==
  /\ IsFiniteSet(Created) /\ Cardinality(Created) \in Nat
  /\ IsFiniteSet(Covered) /\ Cardinality(Covered) \in Nat /\ Cardinality(Covered) <= MAX_CORES
  /\ Cardinality(Covered) = MAX_CORES => Covered = Cores
<1>1. Created \in SUBSET Tasks /\ IsFiniteSet(Tasks)
  BY SchedulerAssumption DEF Created
<1>2. IsFiniteSet(Created)
  BY <1>1, FS_Subset
<1>3. Covered \in SUBSET Cores
  BY DEF Covered
<1>4. IsFiniteSet(Covered) /\ Cardinality(Covered) <= Cardinality(Cores)
      /\ (Cardinality(Cores) = Cardinality(Covered) => Cores = Covered)
  BY <1>3, FS_Subset, Constants
<1> QED  BY <1>2, <1>4, FS_CardinalityType, Constants

LEMMA PlaceTaskKeeps ==
  ASSUME SchedInv, NEW t \in Tasks, PlaceTask(t)
  PROVE  SchedInv'
<1>1. /\ state[t] = "none" /\ cpu_id' = [cpu_id EXCEPT ![t] = LeastBusy]
      /\ task_counter' = [task_counter EXCEPT ![LeastBusy] = @ + 1]
      /\ state' = [state EXCEPT ![t] = "placed"]
      /\ Cardinality(Created) < BOOT_TASKS \/ scheduling # {}
      /\ UNCHANGED <<next, prev, exiting, current_task, cpu_id_ctr, core_id, started, scheduling, masked, ready>>
  BY DEF PlaceTask, timer_vars
<1>2. LeastBusy \in Cores /\ \A c \in Cores : task_counter[LeastBusy] <= task_counter[c]
  BY LeastBusyIs DEF SchedInv
<1> DEFINE L == LeastBusy
<1> HIDE DEF L
<1>3. SchedTypes'
  <2>1. task_counter' \in [Cores -> Int] /\ \A c \in Cores : task_counter'[c] >= -MAX_BELOW_ZERO
    BY <1>1, <1>2, Constants, SMTT(30) DEF SchedInv, SchedTypes
  <2> QED  BY <1>1, <1>2, <2>1 DEF SchedInv, SchedTypes
<1>4. LinksConsistent'
  BY <1>1 DEF SchedInv, SchedTypes, LinksConsistent
<1>5. \A c \in Cores : OnQueue(c)' = OnQueue(c)
  BY <1>1 DEF SchedInv, SchedTypes, OnQueue
<1>6. Rings'
  BY <1>1, <1>5, RingsUnchanged DEF SchedInv
<1>7. Boot'
  <2>1. CASE started # {}
    BY <1>1, <1>5, <2>1 DEF SchedInv, Boot
  <2>2. CASE started = {}
    <3>1. BootPlacing /\ Cardinality(Created) < BOOT_TASKS
      BY <1>1, <2>2 DEF SchedInv, Boot, BootPlacing
    <3>2. Created' = Created \cup {t} /\ t \notin Created
      BY <1>1 DEF SchedInv, SchedTypes, Created
    <3>3. Cardinality(Created') = Cardinality(Created) + 1
      BY <3>2, CreatedFinite, FS_AddElement
    <3>4. Covered' = Covered \cup {L}
      <4>1. \A u \in Created : u \in Tasks /\ cpu_id'[u] = cpu_id[u]
        BY <1>1, <3>2 DEF SchedInv, SchedTypes, Created
      <4>2. cpu_id'[t] = L
        BY <1>1 DEF SchedInv, SchedTypes, L
      <4> QED  BY <1>2, <3>2, <4>1, <4>2 DEF Covered, Cores, L
    <3>5. Covered = Cores \/ L \notin Covered
      <4>1. ASSUME NEW c \in Cores, c \notin Covered PROVE L \notin Covered
        <5>1. task_counter[c] = 0 /\ task_counter[L] >= 0 /\ task_counter[L] <= task_counter[c]
              /\ task_counter[L] \in Int
          BY <1>2, <3>1, <4>1, SMTT(30) DEF BootPlacing, SchedInv, SchedTypes, L
        <5>2. ~(task_counter[L] > 0)
          BY <5>1, SMTT(30)
        <5> QED  BY <1>2, <3>1, <5>2 DEF BootPlacing, L
      <4> QED  BY <4>1 DEF Covered
    <3>6. Covered' = Cores \/ Cardinality(Covered') = Cardinality(Created')
      <4>1. CASE Covered = Cores
        BY <1>2, <3>4, <4>1 DEF L
      <4>2. CASE Covered # Cores
        <5>1. Cardinality(Covered \cup {L}) = Cardinality(Covered) + 1
          BY <3>5, <4>2, CreatedFinite, FS_AddElement
        <5> QED  BY <3>1, <3>3, <3>4, <4>2, <5>1 DEF BootPlacing
      <4> QED  BY <4>1, <4>2
    <3>7. \A c \in Cores : task_counter'[c] >= 0 /\ (c \in Covered' => task_counter'[c] > 0)
                           /\ (task_counter'[c] > 0 => c \in Covered')
      <4>1. ASSUME NEW c \in Cores
            PROVE  /\ task_counter[c] \in Int /\ task_counter[c] >= 0
                   /\ task_counter'[c] = IF c = L THEN task_counter[c] + 1 ELSE task_counter[c]
        BY <1>1, <1>2, <3>1 DEF BootPlacing, SchedInv, SchedTypes, L
      <4> QED  BY <1>2, <3>1, <3>4, <4>1, SMTT(30) DEF BootPlacing, L
    <3>8. Cardinality(Created') <= BOOT_TASKS
      BY <3>1, <3>3, CreatedFinite, Constants, SMTT(30)
    <3>9. \A u \in Tasks : state'[u] # "zombie"
      BY <1>1, <3>1 DEF BootPlacing, SchedInv, SchedTypes
    <3>10. BootPlacing'
      BY <1>1, <3>1, <3>6, <3>7, <3>8, <3>9 DEF BootPlacing
    <3> QED  BY <1>1, <2>2, <3>10 DEF Boot
  <2> QED  BY <2>1, <2>2
<1>8. Indices'
  BY <1>1 DEF SchedInv, Indices
<1>9. Own'
  <2>1. \A c \in scheduling : current_task[c] \in Tasks /\ current_task[c] # t
    BY <1>1, SMTT(30) DEF SchedInv, SchedTypes, Own, AlwaysATaskOfItsOwn
  <2>2. AlwaysATaskOfItsOwn'
    BY <1>1, <2>1 DEF SchedInv, SchedTypes, Own, AlwaysATaskOfItsOwn
  <2> QED  BY <1>1, <2>2 DEF SchedInv, Own
<1> QED  BY <1>3, <1>4, <1>6, <1>7, <1>8, <1>9 DEF SchedInv

LEMMA SchedTaskKeeps ==
  ASSUME SchedInv, NEW t \in Tasks, sched_task(t)
  PROVE  SchedInv'
<1>1. /\ state[t] = "placed" /\ list_add_tail(t, cpu_id[t])
      /\ state' = [state EXCEPT ![t] = "queued"]
      /\ UNCHANGED <<task_counter, cpu_id, exiting, current_task, cpu_id_ctr, core_id, started, scheduling, masked, ready>>
  BY DEF sched_task, QueueOf, timer_vars
<1>2. cpu_id[t] \in Cores
  BY DEF SchedInv, SchedTypes
<1>3. /\ next' \in [Nodes -> Nodes] /\ prev' \in [Nodes -> Nodes] /\ LinksConsistent' /\ Rings'
  BY <1>1, <1>2, AddTailKeepsRings DEF SchedInv
<1>4. SchedTypes'
  BY <1>1, <1>3 DEF SchedInv, SchedTypes
<1>5. Created' = Created /\ \A c \in Cores : OnQueue(c) \subseteq OnQueue(c)'
  BY <1>1 DEF SchedInv, SchedTypes, Created, OnQueue
<1>6. Covered' = Covered
  BY <1>1, <1>5 DEF Covered, Cores
<1>7. Boot'
  <2>1. CASE started # {}
    BY <1>1, <1>5, <2>1 DEF SchedInv, Boot
  <2>2. CASE started = {}
    <3>1. \A u \in Tasks : state'[u] # "zombie"
      BY <1>1, <2>2 DEF SchedInv, Boot, BootPlacing, SchedTypes
    <3> QED  BY <1>1, <1>5, <1>6, <2>2, <3>1 DEF SchedInv, Boot, BootPlacing
  <2> QED  BY <2>1, <2>2
<1>8. Indices'
  BY <1>1 DEF SchedInv, Indices
<1>9. Own'
  <2>1. AlwaysATaskOfItsOwn'
    BY <1>1, SMTT(30) DEF SchedInv, SchedTypes, Own, AlwaysATaskOfItsOwn
  <2> QED  BY <1>1, <2>1 DEF SchedInv, Own
<1> QED  BY <1>3, <1>4, <1>7, <1>8, <1>9 DEF SchedInv

\* With BOOT_TASKS tasks queued every core has one: there are no more tasks than
\* these, and they cover the cores.
LEMMA StartProcessorsKeeps ==
  ASSUME SchedInv, StartProcessors
  PROVE  SchedInv'
<1>1. /\ started = {} /\ started' = Processors
      /\ Cardinality({t \in Tasks : state[t] = "queued"}) >= BOOT_TASKS
      /\ UNCHANGED <<next, prev, task_counter, cpu_id, state, exiting, current_task, cpu_id_ctr, core_id,
                     scheduling, masked, ready>>
  BY DEF StartProcessors, task_vars, timer_vars
<1>2. SchedTypes' /\ LinksConsistent' /\ Indices' /\ Own' /\ \A c \in Cores : OnQueue(c)' = OnQueue(c)
  BY <1>1, SMTT(30) DEF SchedInv, SchedTypes, LinksConsistent, Indices, Own, AlwaysATaskOfItsOwn, OnQueue
<1>3. Rings'
  BY <1>1, <1>2, RingsUnchanged DEF SchedInv
<1> DEFINE Queued == {t \in Tasks : state[t] = "queued"}
<1>4. BootPlacing
  BY <1>1 DEF SchedInv, Boot
<1>5. Queued = Created /\ Cardinality(Created) >= BOOT_TASKS
  <2>1. Queued \in SUBSET Created
    BY DEF Created
  <2>2. /\ IsFiniteSet(Queued) /\ Cardinality(Queued) <= Cardinality(Created)
        /\ (Cardinality(Created) = Cardinality(Queued) => Created = Queued)
    <3> HIDE DEF Queued
    <3> QED  BY <2>1, CreatedFinite, FS_Subset
  <2>3. Cardinality(Queued) \in Nat
    BY <2>2, FS_CardinalityType
  <2>4. Cardinality(Created) <= BOOT_TASKS /\ Cardinality(Queued) >= BOOT_TASKS
    BY <1>1, <1>4 DEF BootPlacing
  <2> HIDE DEF Queued
  <2>5. Cardinality(Created) = Cardinality(Queued)
    BY <2>2, <2>3, <2>4, CreatedFinite, Constants, SMTT(30)
  <2> QED  BY <2>2, <2>4, <2>5
<1>6. Covered = Cores
  <2>1. CASE Cardinality(Covered) = Cardinality(Created)
    BY <1>5, <2>1, CreatedFinite, Constants, SMTT(30)
  <2> QED  BY <1>4, <2>1 DEF BootPlacing
<1>7. \A c \in Cores : OnQueue(c) # {}
  BY <1>5, <1>6 DEF Covered, OnQueue
<1>8. Boot'
  <2>1. started' # {}
    BY <1>1, SchedulerAssumption
  <2> QED  BY <1>2, <1>7, <2>1 DEF Boot, Cores
<1> QED  BY <1>2, <1>3, <1>8 DEF SchedInv

LEMMA init_percpu_dataKeeps ==
  ASSUME SchedInv, NEW p \in Processors, init_percpu_data(p)
  PROVE  SchedInv'
<1>1. /\ p \in started /\ core_id[p] = NULL /\ core_id' = [core_id EXCEPT ![p] = cpu_id_ctr]
      /\ cpu_id_ctr' = cpu_id_ctr + 1
      /\ UNCHANGED <<next, prev, task_counter, cpu_id, state, exiting, current_task, started,
                     scheduling, masked, ready>>
  BY DEF init_percpu_data, task_vars, timer_vars
<1> DEFINE Have == {r \in Processors : core_id[r] # NULL}
<1>2. cpu_id_ctr = Cardinality(Have) /\ cpu_id_ctr \in Nat
  BY DEF SchedInv, SchedTypes, Indices
<1>3. p \notin Have /\ Have \in SUBSET Processors /\ IsFiniteSet(Processors) /\ Cardinality(Processors) <= MAX_CORES
  BY <1>1, SchedulerAssumption
<1>4. IsFiniteSet(Have) /\ Cardinality(Have \cup {p}) = Cardinality(Have) + 1
      /\ Cardinality(Have \cup {p}) <= Cardinality(Processors) /\ Cardinality(Processors) \in Nat
  <2> HIDE DEF Have
  <2>1. IsFiniteSet(Have) /\ Have \cup {p} \in SUBSET Processors
    BY <1>3, FS_Subset
  <2> QED  BY <1>3, <2>1, FS_Subset, FS_AddElement, FS_CardinalityType
<1>5. cpu_id_ctr \in Cores /\ cpu_id_ctr # NULL
  <2>1. cpu_id_ctr + 1 <= MAX_CORES
    BY <1>2, <1>3, <1>4, Constants, SMTT(30)
  <2>2. cpu_id_ctr \in Cores
    BY <1>2, <2>1, Constants, SMTT(30) DEF Cores
  <2> QED  BY <2>2, Constants
<1>6. /\ core_id' \in [Processors -> Cores \cup {NULL}] /\ core_id'[p] = cpu_id_ctr
      /\ \A r \in Processors \ {p} : core_id'[r] = core_id[r]
  BY <1>1, <1>5 DEF SchedInv, SchedTypes
<1>7. SchedTypes'
  BY <1>1, <1>2, <1>6, SMTT(30) DEF SchedInv, SchedTypes
<1>8. LinksConsistent' /\ \A c \in Cores : OnQueue(c)' = OnQueue(c)
  BY <1>1 DEF SchedInv, LinksConsistent, OnQueue
<1>9. Rings'
  BY <1>1, <1>8, RingsUnchanged DEF SchedInv
<1>10. Boot'
  BY <1>1, <1>8 DEF SchedInv, Boot, Cores
<1>11. Indices'
  <2>1. {r \in Processors : core_id[r] # NULL}' = Have \cup {p}
    BY <1>5, <1>6
  <2>2. cpu_id_ctr' = Cardinality({r \in Processors : core_id[r] # NULL}')
    BY <1>1, <1>2, <1>4, <2>1
  <2>3. ASSUME NEW r \in Processors \ {p}, core_id[r] # NULL
        PROVE  core_id[r] < cpu_id_ctr /\ core_id[r] \in Nat /\ core_id[r] < cpu_id_ctr + 1
    BY <1>2, <2>3, Constants, SMTT(30) DEF SchedInv, SchedTypes, Indices
  <2>4. \A r \in Processors : core_id'[r] # NULL => core_id'[r] < cpu_id_ctr'
    BY <1>1, <1>2, <1>6, <2>3, SMTT(30)
  <2>5. \A r \in Processors \ {p} : core_id[r] # NULL => core_id[r] # cpu_id_ctr
    BY <1>2, <2>3, SMTT(30)
  <2>6. \A q, r \in Processors : core_id'[q] = core_id'[r] /\ core_id'[q] # NULL => q = r
    BY <1>5, <1>6, <2>5 DEF SchedInv, Indices
  <2> QED  BY <2>2, <2>4, <2>6 DEF Indices
<1>12. Own'
  <2>1. AlwaysATaskOfItsOwn'
    BY <1>1 DEF SchedInv, Own, AlwaysATaskOfItsOwn
  <2>2. \A r \in Processors : ~masked[r] => r # p
    BY <1>1, Constants DEF SchedInv, SchedTypes, Own
  <2> QED  BY <1>1, <1>6, <2>1, <2>2 DEF SchedInv, Own
<1> QED  BY <1>7, <1>8, <1>9, <1>10, <1>11, <1>12 DEF SchedInv

\* The steps that touch only a processor's timer: its start, masked, and the enabling
\* of it by a task.
LEMMA TimersKeep ==
  ASSUME SchedInv, NEW p \in Processors, InitTimer(p) \/ boot_idle_task(p)
  PROVE  SchedInv'
<1>1. /\ UNCHANGED <<next, prev, task_counter, cpu_id, state, exiting, current_task, cpu_id_ctr, core_id,
                     started, scheduling>>
      /\ ready' \in SUBSET Processors
  BY DEF InitTimer, boot_idle_task, StartTimer, apic_timer_enable, task_vars, SchedInv, SchedTypes
<1>2. masked' \in [Processors -> BOOLEAN] /\ \A r \in Processors : ~masked'[r] => core_id[r] \in scheduling
  <2>1. CASE InitTimer(p)
    <3>1. masked' = masked \/ masked' = [masked EXCEPT ![p] = TRUE]
      BY <2>1 DEF InitTimer, StartTimer, LvtMask
    <3> QED  BY <3>1 DEF SchedInv, SchedTypes, Own
  <2>2. CASE boot_idle_task(p)
    <3>1. core_id[p] \in scheduling /\ masked' = [masked EXCEPT ![p] = ~apic_base] /\ apic_base
      BY <2>2 DEF boot_idle_task, Running, apic_timer_enable
    <3>2. masked' = [masked EXCEPT ![p] = FALSE]
      BY <3>1
    <3> QED  BY <3>1, <3>2 DEF SchedInv, SchedTypes, Own
  <2> QED  BY <2>1, <2>2
<1>3. SchedTypes'
  BY <1>1, <1>2 DEF SchedInv, SchedTypes
<1>4. LinksConsistent' /\ \A c \in Cores : OnQueue(c)' = OnQueue(c)
  BY <1>1 DEF SchedInv, LinksConsistent, OnQueue
<1>5. Rings'
  BY <1>1, <1>4, RingsUnchanged DEF SchedInv
<1>6. Created' = Created /\ Covered' = Covered
  BY <1>1 DEF Created, Covered
<1>7. Boot'
  BY <1>1, <1>4, <1>6 DEF SchedInv, Boot, BootPlacing, Cores
<1>8. Indices'
  BY <1>1 DEF SchedInv, Indices
<1>9. Own'
  BY <1>1, <1>2 DEF SchedInv, Own, AlwaysATaskOfItsOwn
<1> QED  BY <1>3, <1>4, <1>5, <1>7, <1>8, <1>9 DEF SchedInv

\* A call of schedule(): the first one of a core, from the timer, or of task_exit.
LEMMA ScheduleKeeps ==
  ASSUME SchedInv, NEW c \in Cores, started # {}, schedule(c), scheduling' = scheduling \cup {c},
         UNCHANGED <<next, prev, cpu_id, state, cpu_id_ctr, core_id, started, masked, ready>>,
         task_counter' \in [Cores -> Int],
         \A d \in Cores : task_counter'[d] >= -MAX_BELOW_ZERO,
         exiting' \in [Cores -> Int \cup {NULL}],
         \A d \in Cores : exiting'[d] # NULL => exiting'[d] = exiting[d]
  PROVE  SchedInv'
<1>1. /\ Successor(c) \in Tasks /\ state[Successor(c)] \in {"queued", "zombie"}
      /\ cpu_id[Successor(c)] = c /\ Successor(c) # NULL
  <2>1. /\ current_task[c] # NULL => /\ state[current_task[c]] \in {"queued", "zombie"}
                                     /\ cpu_id[current_task[c]] = c
        /\ current_task[c] = NULL => OnQueue(c) # {}
    BY DEF SchedInv, Boot, Own, AlwaysATaskOfItsOwn
  <2> QED  BY <2>1, SuccessorIs, Constants DEF SchedInv
<1>2. /\ current_task' \in [Cores -> Tasks \cup {NULL}] /\ current_task'[c] = Successor(c)
      /\ \A d \in Cores \ {c} : current_task'[d] = current_task[d]
  BY <1>1 DEF schedule, SchedInv, SchedTypes
<1>3. SchedTypes'
  BY <1>2 DEF SchedInv, SchedTypes
<1>4. LinksConsistent' /\ \A d \in Cores : OnQueue(d)' = OnQueue(d)
  BY DEF SchedInv, LinksConsistent, OnQueue
<1>5. Rings'
  BY <1>4, RingsUnchanged DEF SchedInv
<1>6. Boot'
  BY <1>4 DEF SchedInv, Boot, Cores
<1>7. Indices'
  BY DEF SchedInv, Indices
<1>8. AlwaysATaskOfItsOwn'
  <2>1. ASSUME NEW d \in scheduling \cup {c}
        PROVE  /\ current_task'[d] # NULL
               /\ state[current_task'[d]] \in {"queued", "zombie"} /\ cpu_id[current_task'[d]] = d
    <3>1. CASE d = c
      BY <1>1, <1>2, <3>1
    <3>2. CASE d # c
      BY <1>2, <2>1, <3>2 DEF SchedInv, SchedTypes, Own, AlwaysATaskOfItsOwn
    <3> QED  BY <3>1, <3>2
  <2> QED  BY <2>1 DEF AlwaysATaskOfItsOwn
<1>9. Own'
  <2>1. \A d \in Cores \ (scheduling \cup {c}) : current_task'[d] = NULL
    BY <1>2 DEF SchedInv, Own
  <2>2. \A d \in Cores : exiting'[d] # NULL => d \in scheduling
    BY DEF SchedInv, Own
  <2> QED  BY <1>8, <2>1, <2>2 DEF SchedInv, Own, Cores
<1> QED  BY <1>3, <1>4, <1>5, <1>6, <1>7, <1>9 DEF SchedInv

LEMMA FirstScheduleKeeps ==
  ASSUME SchedInv, NEW p \in Processors, FirstSchedule(p)
  PROVE  SchedInv'
<1>1. /\ core_id[p] # NULL /\ schedule(core_id[p]) /\ scheduling' = scheduling \cup {core_id[p]}
      /\ UNCHANGED <<next, prev, task_counter, cpu_id, state, exiting, cpu_id_ctr, core_id, started, masked, ready>>
  BY DEF FirstSchedule, task_vars, timer_vars
<1>2. core_id[p] \in Cores /\ started # {}
  BY <1>1 DEF SchedInv, SchedTypes, Boot, BootPlacing
<1>3. /\ task_counter' \in [Cores -> Int] /\ exiting' \in [Cores -> Int \cup {NULL}]
      /\ \A d \in Cores : task_counter'[d] >= -MAX_BELOW_ZERO
  BY <1>1 DEF SchedInv, SchedTypes
<1> QED  BY <1>1, <1>2, <1>3, ScheduleKeeps

LEMMA apic_timer_handlerKeeps ==
  ASSUME SchedInv, NEW p \in Processors, apic_timer_handler(p)
  PROVE  SchedInv'
<1>1. /\ core_id[p] \in scheduling /\ schedule(core_id[p])
      /\ UNCHANGED <<next, prev, task_counter, cpu_id, state, exiting, cpu_id_ctr, core_id, started, masked,
                     ready, scheduling>>
  BY DEF apic_timer_handler, Running, task_vars
<1>2. core_id[p] \in Cores /\ started # {} /\ scheduling' = scheduling \cup {core_id[p]}
  BY <1>1 DEF SchedInv, SchedTypes, Boot, BootPlacing
<1>3. /\ task_counter' \in [Cores -> Int] /\ exiting' \in [Cores -> Int \cup {NULL}]
      /\ \A d \in Cores : task_counter'[d] >= -MAX_BELOW_ZERO
  BY <1>1 DEF SchedInv, SchedTypes
<1> QED  BY <1>1, <1>2, <1>3, ScheduleKeeps

LEMMA ExitScheduleKeeps ==
  ASSUME SchedInv, NEW c \in Cores, ExitSchedule(c)
  PROVE  SchedInv'
<1>1. /\ exiting[c] # NULL
      /\ task_counter' = [task_counter EXCEPT ![cpu_id[current_task[c]]] = exiting[c] - 1]
      /\ schedule(c) /\ exiting' = [exiting EXCEPT ![c] = NULL]
      /\ UNCHANGED <<next, prev, cpu_id, state, cpu_id_ctr, core_id, started, masked, ready, scheduling>>
  BY DEF ExitSchedule, timer_vars
<1>2. c \in scheduling /\ exiting[c] \in Int /\ exiting[c] > -MAX_BELOW_ZERO
  BY <1>1 DEF SchedInv, SchedTypes, Own
<1>3. started # {} /\ scheduling' = scheduling \cup {c} /\ cpu_id[current_task[c]] = c
  BY <1>1, <1>2, SMTT(30) DEF SchedInv, Boot, BootPlacing, Own, AlwaysATaskOfItsOwn
<1>4. exiting[c] - 1 \in Int /\ exiting[c] - 1 >= -MAX_BELOW_ZERO
  BY <1>2, Constants, SMTT(30)
<1>5. task_counter' \in [Cores -> Int] /\ \A d \in Cores : task_counter'[d] >= -MAX_BELOW_ZERO
  BY <1>1, <1>3, <1>4 DEF SchedInv, SchedTypes
<1>6. exiting' \in [Cores -> Int \cup {NULL}] /\ \A d \in Cores : exiting'[d] # NULL => exiting'[d] = exiting[d]
  BY <1>1 DEF SchedInv, SchedTypes
<1> QED  BY <1>1, <1>3, <1>5, <1>6, ScheduleKeeps

LEMMA ExitRemoveKeeps ==
  ASSUME SchedInv, NEW p \in Processors, ExitRemove(p)
  PROVE  SchedInv'
<1> DEFINE c == core_id[p]
           t == current_task[c]
<1>1. /\ c \in scheduling /\ task_counter[c] > -MAX_BELOW_ZERO
      /\ state' = [state EXCEPT ![t] = "zombie"] /\ list_del(t)
      /\ exiting' = [exiting EXCEPT ![c] = task_counter[cpu_id[t]]]
      /\ UNCHANGED <<task_counter, cpu_id, current_task, cpu_id_ctr, core_id, started, ready, scheduling, masked>>
  BY DEF ExitRemove, Running, timer_vars
<1> HIDE DEF c
<1>2. c \in Cores /\ t \in Tasks /\ state[t] \in {"queued", "zombie"} /\ cpu_id[t] = c
  BY <1>1, SMTT(30) DEF SchedInv, SchedTypes, Own, AlwaysATaskOfItsOwn
<1>3. next' \in [Nodes -> Nodes] /\ prev' \in [Nodes -> Nodes] /\ LinksConsistent' /\ Rings'
  BY <1>1, <1>2, DelKeepsRings DEF SchedInv
<1>4. SchedTypes'
  <2>1. exiting' \in [Cores -> Int \cup {NULL}] /\ \A d \in Cores : exiting'[d] # NULL => exiting'[d] > -MAX_BELOW_ZERO
    BY <1>1, <1>2 DEF SchedInv, SchedTypes
  <2> QED  BY <1>1, <1>2, <1>3, <2>1 DEF SchedInv, SchedTypes
<1>5. started # {}
  BY <1>1 DEF SchedInv, Boot, BootPlacing
<1>6. \A d \in Cores \ {c} : OnQueue(d)' = OnQueue(d)
  BY <1>1, <1>2 DEF SchedInv, SchedTypes, OnQueue
<1>7. Boot'
  BY <1>1, <1>5, <1>6 DEF SchedInv, Boot, Cores
<1>8. Indices'
  BY <1>1 DEF SchedInv, Indices
<1>9. Own'
  <2>1. AlwaysATaskOfItsOwn'
    BY <1>1, <1>2, SMTT(30) DEF SchedInv, SchedTypes, Own, AlwaysATaskOfItsOwn
  <2>2. \A d \in Cores : exiting'[d] # NULL => d \in scheduling
    BY <1>1, <1>2 DEF SchedInv, SchedTypes, Own
  <2> QED  BY <1>1, <2>1, <2>2 DEF SchedInv, Own
<1> QED  BY <1>3, <1>4, <1>7, <1>8, <1>9 DEF SchedInv

LEMMA SchedInductive == SchedInv /\ [Next]_vars => SchedInv'
<1> SUFFICES ASSUME SchedInv, [Next]_vars PROVE SchedInv'
  OBVIOUS
<1>1. CASE UNCHANGED vars
  <2>1. UNCHANGED <<next, prev, task_counter, cpu_id, state, exiting, current_task, cpu_id_ctr, core_id, started,
                    ready, scheduling, masked>>
    BY <1>1 DEF vars, task_vars, timer_vars
  <2>2. Created' = Created /\ Covered' = Covered /\ \A c \in Cores : OnQueue(c)' = OnQueue(c)
    BY <2>1 DEF Created, Covered, OnQueue
  <2>3. Rings'
    BY <2>1, <2>2, RingsUnchanged DEF SchedInv
  <2>4. SchedTypes' /\ LinksConsistent' /\ Indices' /\ Own'
    BY <2>1 DEF SchedInv, SchedTypes, LinksConsistent, Indices, Own, AlwaysATaskOfItsOwn
  <2>5. Boot'
    BY <2>1, <2>2 DEF SchedInv, Boot, BootPlacing, Cores
  <2> QED  BY <2>3, <2>4, <2>5 DEF SchedInv
<1> QED  BY <1>1, PlaceTaskKeeps, SchedTaskKeeps, StartProcessorsKeeps, init_percpu_dataKeeps, TimersKeep,
            FirstScheduleKeeps, apic_timer_handlerKeeps, ExitRemoveKeeps, ExitScheduleKeeps DEF Next

LEMMA SchedInvariance == Spec => []SchedInv
  BY InitSched, SchedInductive, PTL DEF Spec

-----------------------------------------------------------------------------
(* The theorems. *)

\* The run queues stay rings through exactly the live tasks of their cores, linked in
\* both directions, whatever order sched_task and sched_remove_task are called in on
\* however many cores (list_add_tail and list_del in sched_task, task_exit).
THEOREM QueuesStayRings == Spec => []RunQueuesWellFormed
  BY SchedInvariance, RingsWellFormed, PTL DEF SchedInv

\* schedule() never loads a context through a NULL current_task: smp_init has given
\* every core a task before any processor schedules, and a core goes on with a task
\* of its own for ever after.
THEOREM CoresAlwaysHaveTasks == Spec => []AlwaysATaskOfItsOwn
  BY SchedInvariance, PTL DEF SchedInv, Own

\* A timer interrupts only a core that has loaded a task: boot_idle_task unmasks it.
THEOREM TimersFindTasks == Spec => []TicksFindATask
<1>1. SchedInv => TicksFindATask
  BY DEF SchedInv, Own, AlwaysATaskOfItsOwn, TicksFindATask, Ticks
<1> QED  BY <1>1, SchedInvariance, PTL

\* init_percpu_data(cpu_id_ctr++) gives every processor an index of its own, within the
\* per-cpu arrays.
THEOREM IndicesAreDistinct ==
  Spec => [](\A p, r \in Processors : core_id[p] # NULL =>
               core_id[p] \in Cores /\ (core_id[p] = core_id[r] => p = r))
<1>1. SchedInv => \A p, r \in Processors : core_id[p] # NULL =>
                    core_id[p] \in Cores /\ (core_id[p] = core_id[r] => p = r)
  BY DEF SchedInv, SchedTypes, Indices
<1> QED  BY <1>1, SchedInvariance, PTL

-----------------------------------------------------------------------------
(* The timer's period. *)

\* What the calibration counts in 10 ms is at least one, and a hundred times as much
\* fits into the 32 bits of apic_timer_frequency.
CountFits(m) ==
  LET counts == calibrate_cpu_timing(m) \div m.per_count
  IN counts >= 1 /\ counts * 100 < 2 ^ COUNT_BITS

\* apic_global_init calibrates once, and a timer that is programmed has its count.
Calibrated ==
  /\ machine \in Machines
  /\ \A p \in Processors : initial_count[p] # 0 =>
       initial_count[p] = CountFor(apic_timer_calibrate(machine))
  /\ apic_timer_frequency = 0 \/ apic_timer_frequency = apic_timer_calibrate(machine)
  /\ initial_count = [p \in Processors |-> initial_count[p]]

LEMMA CalibratedInductive ==
  /\ Init => Calibrated
  /\ Calibrated /\ [Next]_vars => Calibrated'
<1>1. Init => Calibrated
  BY DEF Init, TimerInit, apic_global_init, Calibrated
<1>2. ASSUME Calibrated, [Next]_vars PROVE Calibrated'
  <2>1. CASE UNCHANGED <<machine, apic_timer_frequency, initial_count>>
    BY <1>2, <2>1 DEF Calibrated
  <2>2. ASSUME NEW p \in Processors, InitTimer(p) PROVE Calibrated'
    <3>1. /\ UNCHANGED <<machine, apic_timer_frequency>>
          /\ \/ initial_count' = initial_count
             \/ /\ initial_count' = [initial_count EXCEPT ![p] = CountFor(apic_timer_frequency)]
                /\ apic_timer_frequency # 0
      BY <2>2 DEF InitTimer, StartTimer
    <3> QED  BY <1>2, <3>1 DEF Calibrated
  <2>3. CASE \E t \in Tasks : PlaceTask(t) \/ sched_task(t)
    BY <2>1, <2>3 DEF PlaceTask, sched_task, timer_vars
  <2>4. CASE StartProcessors
    BY <2>1, <2>4 DEF StartProcessors, timer_vars
  <2>5. ASSUME NEW p \in Processors,
               init_percpu_data(p) \/ FirstSchedule(p) \/ boot_idle_task(p)
               \/ apic_timer_handler(p) \/ ExitRemove(p)
        PROVE  Calibrated'
    BY <2>1, <2>5 DEF init_percpu_data, FirstSchedule, boot_idle_task, apic_timer_handler, ExitRemove,
                      apic_timer_enable, timer_vars
  <2>6. CASE \E c \in Cores : ExitSchedule(c)
    BY <2>1, <2>6 DEF ExitSchedule, timer_vars
  <2>7. CASE UNCHANGED vars
    BY <2>1, <2>7 DEF vars, timer_vars
  <2> QED  BY <1>2, <2>2, <2>3, <2>4, <2>5, <2>6, <2>7 DEF Next
<1> QED  BY <1>1, <1>2

LEMMA LargerOfTwo ==
  ASSUME NEW a \in Int, NEW b \in Int
  PROVE  Max({a, b}) = IF a >= b THEN a ELSE b
<1>1. \E x \in {a, b} : \A y \in {a, b} : x >= y
  BY SMTT(30)
<1>2. Max({a, b}) \in {a, b} /\ \A y \in {a, b} : Max({a, b}) >= y
  BY <1>1 DEF Max
<1> HIDE DEF Max
<1> QED  BY <1>2, SMTT(30)

LEMMA PowerOfTwo ==
  ASSUME NEW n \in Nat
  PROVE  2 ^ n \in Nat
<1>1. IsFiniteSet(1 .. n) /\ Cardinality(1 .. n) = n
  BY FS_Interval, SMTT(30)
<1>2. IsFiniteSet(SUBSET (1 .. n)) /\ Cardinality(SUBSET (1 .. n)) = 2 ^ n
  BY <1>1, FS_SUBSET
<1> QED  BY <1>2, FS_CardinalityType

LEMMA Quotient ==
  ASSUME NEW a \in Nat, NEW b \in Nat \ {0}
  PROVE  a \div b \in Nat /\ (a \div b) * b <= a /\ a < (a \div b) * b + b
  BY SMTT(30)

LEMMA Megahertz ==
  ASSUME NEW hz \in Nat, hz \div 100 \in Sane
  PROVE  /\ (hz \div MHZ) > 0 /\ (hz \div MHZ) * 10000 \in Nat /\ hz \div 100 \in Nat
         /\ (hz \div MHZ) * 10000 <= hz \div 100 /\ hz \div 100 - 9999 <= (hz \div MHZ) * 10000
<1>1. hz \div 100 >= 1000000
  <2>1. MHZ \in Int /\ 100 * MHZ \in Int
    BY SMTT(30) DEF MHZ
  <2>2. hz \div 100 >= MHZ
    BY <2>1, SMTT(30) DEF Sane
  <2> QED  BY <2>2, SMTT(30) DEF MHZ
<1> QED  BY <1>1, SMTT(30) DEF MHZ

\* The cycles taken for 10 ms, to the megahertz.
LEMMA CyclesOf10ms ==
  ASSUME NEW m \in Machines, Truthful(m)
  PROVE  /\ calibrate_cpu_timing(m) \in Nat /\ m.hz \div 100 \in Nat
         /\ calibrate_cpu_timing(m) <= m.hz \div 100 /\ m.hz \div 100 - 9999 <= calibrate_cpu_timing(m)
<1> DEFINE some == m.leaf15.eax # 0 /\ m.leaf15.ebx # 0 /\ m.leaf15.ecx # 0
           mhz == m.hz \div MHZ
           hundredth == m.hz \div 100
<1>1. m.hz \in Nat
  BY TimerAssumption
<1>2. /\ hundredth \in Sane
      /\ some => ((m.leaf15.ecx * m.leaf15.ebx) \div m.leaf15.eax) \div MHZ = mhz
      /\ ~some /\ m.leaf16 # 0 => m.leaf16 = mhz
      /\ ~some /\ m.leaf16 = 0 => m.second = m.hz
  BY DEF Truthful
<1>3. /\ mhz > 0 /\ mhz * 10000 \in Nat /\ hundredth \in Nat
      /\ mhz * 10000 <= hundredth /\ hundredth - 9999 <= mhz * 10000
  BY <1>1, <1>2, Megahertz, SMTT(30)
<1>4. get_cpu_frequency_mhz(m) = mhz \/ (get_cpu_frequency_mhz(m) = 0 /\ m.second = m.hz)
  BY <1>2 DEF get_cpu_frequency_mhz
<1>5. calibrate_cpu_timing(m) = mhz * 10000 \/ calibrate_cpu_timing(m) = hundredth
  <2>1. CASE get_cpu_frequency_mhz(m) = mhz
    BY <1>3, <2>1, SMTT(30) DEF calibrate_cpu_timing
  <2>2. CASE get_cpu_frequency_mhz(m) = 0 /\ m.second = m.hz
    <3>1. ~(get_cpu_frequency_mhz(m) > 0)
      BY <2>2, SMTT(30)
    <3> QED  BY <1>2, <2>2, <3>1, SMTT(30) DEF calibrate_cpu_timing, calibrate_with_rtc
  <2> QED  BY <1>4, <2>1, <2>2, SMTT(30)
<1> HIDE DEF mhz, hundredth
<1>6. hundredth - 9999 <= hundredth
  BY <1>3, SMTT(30)
<1>7. /\ calibrate_cpu_timing(m) \in Nat
      /\ calibrate_cpu_timing(m) <= hundredth /\ hundredth - 9999 <= calibrate_cpu_timing(m)
  BY <1>3, <1>5, <1>6, SMTT(30)
<1> QED  BY <1>3, <1>7, SMTT(30) DEF hundredth

LEMMA CountOf10ms ==
  ASSUME NEW m \in Machines, Truthful(m), m.per_count # 0, CountFits(m)
  PROVE  CountFor(apic_timer_calibrate(m)) = calibrate_cpu_timing(m) \div m.per_count
<1> DEFINE cycles == calibrate_cpu_timing(m)
           counts == cycles \div m.per_count
           B == 2 ^ COUNT_BITS
<1>1. cycles \in Nat /\ m.per_count \in Nat \ {0}
  BY CyclesOf10ms, TimerAssumption, SMTT(30)
<1>2. counts \in Nat /\ counts >= 1 /\ counts * 100 < B /\ B \in Nat
  <2>1. counts \in Nat
    <3> HIDE DEF cycles
    <3> QED  BY <1>1, Quotient
  <2> QED  BY <2>1, PowerOfTwo, TimerAssumption DEF CountFits
<1>3. Current(m, cycles) = Max({0, B - 1 - counts})
  BY <1>1 DEF Current
<1> HIDE DEF cycles, counts, B
<1>4. Max({0, B - 1 - counts}) = B - 1 - counts
  <2>1. B - 1 - counts \in Int /\ B - 1 - counts >= 0
    BY <1>2, SMTT(30)
  <2> QED  BY <2>1, LargerOfTwo, SMTT(30)
<1>5. apic_timer_calibrate(m) = counts * 100
  <2>1. apic_timer_calibrate(m) = ((B - 1 - Current(m, cycles)) * 100) % B
    BY DEF apic_timer_calibrate, B, cycles
  <2>2. B - 1 - (B - 1 - counts) = counts
    BY <1>2, SMTT(30)
  <2>3. (counts * 100) % B = counts * 100
    BY <1>2, SMTT(30)
  <2> QED  BY <1>3, <1>4, <2>1, <2>2, <2>3
<1>6. (counts * 100) \div 100 = counts /\ Max({1, counts}) = counts
  BY <1>2, LargerOfTwo, SMTT(30)
<1> QED  BY <1>5, <1>6 DEF CountFor, counts, cycles

\* Whichever source of the frequency the calibration believes, the timer ticks each
\* 10 ms, to one count and to the megahertz, on every machine whose counts fit into
\* apic_timer_frequency (apic_timer_calibrate, apic_timer_set_frequency).
THEOREM TimerTicksEvery10ms ==
  ASSUME \A m \in Machines : Truthful(m) /\ m.per_count # 0 => CountFits(m)
  PROVE  Spec => []TickEvery10ms
<1>1. Calibrated => TickEvery10ms
  <2> SUFFICES ASSUME Calibrated, Truthful(machine), machine.per_count # 0,
                      NEW p \in Processors, initial_count[p] # 0
               PROVE  initial_count[p] * machine.per_count \in
                        (machine.hz \div 100 - machine.per_count - MHZ \div 100) + 1 .. machine.hz \div 100
    BY DEF TickEvery10ms
  <2> DEFINE cycles == calibrate_cpu_timing(machine)
             per == machine.per_count
             hundredth == machine.hz \div 100
  <2>1. machine \in Machines /\ per \in Nat \ {0} /\ machine.hz \in Nat /\ CountFits(machine)
    BY TimerAssumption DEF Calibrated
  <2>2. initial_count[p] = cycles \div per
    BY <2>1, CountOf10ms DEF Calibrated
  <2>3. cycles \in Nat /\ cycles <= hundredth /\ hundredth - 9999 <= cycles /\ hundredth \in Int
    BY <2>1, CyclesOf10ms, SMTT(30)
  <2> HIDE DEF cycles, per, hundredth
  <2>4. cycles \div per \in Nat /\ (cycles \div per) * per <= cycles /\ cycles < (cycles \div per) * per + per
    BY <2>1, <2>3, Quotient, SMTT(30)
  <2>5. MHZ \div 100 = 10000
    BY SMTT(30) DEF MHZ
  <2> DEFINE product == (cycles \div per) * per
  <2>6. product \in Int /\ product <= cycles /\ cycles < product + per
    BY <2>1, <2>4, SMTT(30)
  <2> HIDE DEF product
  <2>7. product \in (hundredth - per - 10000) + 1 .. hundredth
    BY <2>1, <2>3, <2>6, SMTT(30)
  <2> QED  BY <2>2, <2>5, <2>7, SMTT(30) DEF product, per, hundredth
<1> QED  BY <1>1, CalibratedInductive, PTL DEF Spec
=============================================================================
