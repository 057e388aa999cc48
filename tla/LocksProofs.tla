---------------------------- MODULE LocksProofs ----------------------------
(***************************************************************************)
(* The three locks of spinlock.h, for any number of processors, tasks and  *)
(* locks.                                                                  *)
(***************************************************************************)
EXTENDS Locks, Sequences, FiniteSetTheorems, TLAPS

\* Leaves go to Zenon unless they name the SMT solver.
USE ZenonT(30)

-----------------------------------------------------------------------------
(* The spinlock: what HolderKeepsProcessor and InterruptsComeBack rest on. *)

\* A processor runs a task of its own, and a task that is preempted had
\* interrupts on.
OwnTaskRuns ==
  /\ \A c \in Cpus : cpu_of[running[c]] = c
  /\ \A t \in Tasks : saved_IF[t] = TRUE

\* The interrupt flag that spinlock_lock_intsave saved is set for the outermost
\* of nested calls and for no other.
OutermostSaved ==
  \A t \in Tasks :
    /\ \A l \in held[t] : flags[t][l] <=> \A m \in held[t] : l <= m
    /\ pc[t] # "idle" => (flags[t][target[t]] <=> held[t] = {})
    /\ pc[t] \in {"xchg", "spin"} => \A m \in held[t] : m < target[t]

SpinInv ==
  /\ TypeOK /\ OwnTaskRuns /\ OutermostSaved
  /\ HolderKeepsProcessor /\ InterruptsComeBack

LEMMA InitSpinInv == Init => SpinInv
<1> SUFFICES ASSUME Init PROVE SpinInv
  OBVIOUS
<1>1. (CHOOSE l \in Locks : TRUE) \in Locks
  BY SpinlockAssumption
<1>2. TypeOK
  BY <1>1 DEF Init, TypeOK
<1>3. OwnTaskRuns /\ OutermostSaved /\ HolderKeepsProcessor /\ InterruptsComeBack
  BY SpinlockAssumption, SMTT(30) DEF Init, OwnTaskRuns, OutermostSaved, HolderKeepsProcessor, InterruptsComeBack, Runs
<1> QED  BY <1>2, <1>3 DEF SpinInv

\* A task between cli and the end of its outermost call is alone on its processor.
LEMMA SaveSpinInv ==
  ASSUME SpinInv, NEW t \in Tasks, NEW l \in Locks, SaveAndDisable(t, l)
  PROVE  SpinInv'
<1> USE SpinlockAssumption DEF SaveAndDisable, Cli, MayTake
<1>1. TypeOK'
  BY DEF SpinInv, TypeOK
<1>2. OwnTaskRuns'
  BY DEF SpinInv, OwnTaskRuns
<1>3. OutermostSaved'
  <2>1. ASSUME NEW u \in Tasks, u # t
        PROVE  flags'[u] = flags[u] /\ pc'[u] = pc[u] /\ target'[u] = target[u] /\ held'[u] = held[u]
    BY <2>1 DEF SpinInv, TypeOK
  <2>2. /\ pc'[t] = "xchg" /\ target'[t] = l /\ held'[t] = held[t]
        /\ flags'[t][l] = IF_flag[cpu_of[t]]
        /\ \A m \in held[t] : m < l /\ flags'[t][m] = flags[t][m]
    BY SMTT(30) DEF SpinInv, TypeOK
  <2>3. IF_flag[cpu_of[t]] <=> held[t] = {}
    BY DEF SpinInv, HolderKeepsProcessor, InterruptsComeBack
  <2> QED  BY <2>1, <2>2, <2>3, SMTT(30) DEF SpinInv, OutermostSaved
<1>4. HolderKeepsProcessor'
  <2>1. /\ lock' = lock /\ held' = held /\ \A u \in Tasks \ {t} : pc'[u] = pc[u]
        /\ \A u \in Tasks : Runs(u) => Runs(u)'
    BY DEF SpinInv, TypeOK, Runs
  <2>2. \A u \in Tasks : ~IF_flag[cpu_of[u]] => ~IF_flag'[cpu_of[u]]
    BY DEF SpinInv, TypeOK
  <2>3. Runs(t) /\ ~IF_flag'[cpu_of[t]]
    BY DEF SpinInv, TypeOK, Runs
  <2> QED  BY <2>1, <2>2, <2>3 DEF SpinInv, HolderKeepsProcessor
<1>5. InterruptsComeBack'
  BY DEF SpinInv, TypeOK, InterruptsComeBack, Runs
<1> QED  BY <1>1, <1>2, <1>3, <1>4, <1>5 DEF SpinInv

\* xchg takes the lock only from 0, so that it had no holder.
LEMMA XchgSpinInv ==
  ASSUME SpinInv, NEW t \in Tasks, Xchg(t)
  PROVE  SpinInv'
<1>0. target[t] \in Locks /\ held[t] \subseteq Locks /\ \A m \in Locks : m \in Nat
  BY SpinlockAssumption DEF SpinInv, TypeOK
<1>1. CASE lock[target[t]] = 0
  <2>1. /\ lock' = [lock EXCEPT ![target[t]] = 1] /\ pc' = [pc EXCEPT ![t] = "idle"]
        /\ held' = [held EXCEPT ![t] = @ \cup {target[t]}]
        /\ UNCHANGED <<IF_flag, running, saved_IF, target, flags>>
        /\ Runs(t) /\ pc[t] = "xchg"
    BY <1>1 DEF Xchg
  <2>2. TypeOK'
    BY <2>1, <1>0 DEF SpinInv, TypeOK
  <2>3. OwnTaskRuns'
    BY <2>1 DEF SpinInv, OwnTaskRuns
  <2>4. \A u \in Tasks : target[t] \notin held[u]
    <3>1. lock[target[t]] = 1 <=> \E u \in Tasks : target[t] \in held[u]
      BY <1>0 DEF SpinInv, HolderKeepsProcessor
    <3> QED  BY <1>1, <3>1, SMTT(30)
  <2>5. OutermostSaved'
    <3>1. \A u \in Tasks \ {t} : pc'[u] = pc[u] /\ held'[u] = held[u]
      BY <2>1 DEF SpinInv, TypeOK
    <3>2. pc'[t] = "idle" /\ held'[t] = held[t] \cup {target[t]}
      BY <2>1 DEF SpinInv, TypeOK
    <3>3. \A m \in held[t] : m < target[t]
      BY <2>1 DEF SpinInv, OutermostSaved
    <3>4. flags[t][target[t]] <=> held[t] = {}
      BY <2>1 DEF SpinInv, OutermostSaved
    <3>5. ASSUME NEW l \in held'[t] PROVE flags'[t][l] <=> \A m \in held'[t] : l <= m
      <4>1. CASE l = target[t]
        <5>1. (\A m \in held'[t] : l <= m) <=> held[t] = {}
          <6>1. l \in Nat /\ (\A m \in held[t] : m \in Nat /\ ~(l <= m)) /\ l <= l
            BY <3>3, <4>1, <1>0, SMTT(30)
          <6> QED  BY <3>2, <4>1, <6>1
        <5> QED  BY <2>1, <3>4, <4>1, <5>1
      <4>2. CASE l \in held[t]
        <5>1. flags[t][l] <=> \A m \in held[t] : l <= m
          BY <4>2 DEF SpinInv, OutermostSaved
        <5>2. (\A m \in held'[t] : l <= m) <=> \A m \in held[t] : l <= m
          <6>1. l <= target[t]
            BY <3>3, <4>2, <1>0, SMTT(30)
          <6> QED  BY <3>2, <6>1
        <5> QED  BY <2>1, <5>1, <5>2
      <4> QED  BY <3>2, <4>1, <4>2
    <3> QED  BY <2>1, <3>1, <3>2, <3>5, SMTT(30) DEF SpinInv, OutermostSaved
  <2>6. HolderKeepsProcessor'
    <3>1. \A l \in Locks : lock'[l] = 1 <=> \E u \in Tasks : l \in held'[u]
      BY <1>0, <2>1, SMTT(30) DEF SpinInv, TypeOK, HolderKeepsProcessor
    <3>2. \A u, v \in Tasks : u # v => held'[u] \cap held'[v] = {}
      BY <2>1, <2>4, SMTT(30) DEF SpinInv, TypeOK, HolderKeepsProcessor
    <3>3. \A u \in Tasks : held'[u] # {} \/ pc'[u] # "idle" => Runs(u)' /\ ~IF_flag'[cpu_of[u]]
      BY <2>1, SMTT(30) DEF SpinInv, TypeOK, HolderKeepsProcessor, Runs
    <3> QED  BY <3>1, <3>2, <3>3 DEF HolderKeepsProcessor
  <2>7. InterruptsComeBack'
    BY <2>1 DEF SpinInv, TypeOK, InterruptsComeBack, Runs
  <2> QED  BY <2>2, <2>3, <2>5, <2>6, <2>7 DEF SpinInv
<1>2. CASE lock[target[t]] # 0
  <2>1. /\ lock' = lock /\ pc' = [pc EXCEPT ![t] = "spin"] /\ pc[t] = "xchg"
        /\ UNCHANGED <<IF_flag, running, saved_IF, target, flags, held>>
    <3>1. lock[target[t]] = 1
      BY <1>0, <1>2 DEF SpinInv, TypeOK
    <3> QED  BY <1>2, <3>1 DEF Xchg, SpinInv, TypeOK
  <2>2. TypeOK' /\ OwnTaskRuns'
    BY <2>1 DEF SpinInv, TypeOK, OwnTaskRuns
  <2>3. OutermostSaved'
    BY <2>1 DEF SpinInv, TypeOK, OutermostSaved
  <2>4. HolderKeepsProcessor' /\ InterruptsComeBack'
    BY <2>1, SMTT(30) DEF SpinInv, TypeOK, HolderKeepsProcessor, InterruptsComeBack, Runs
  <2> QED  BY <2>2, <2>3, <2>4 DEF SpinInv
<1> QED  BY <1>1, <1>2

LEMMA SpinSpinInv ==
  ASSUME SpinInv, NEW t \in Tasks, Spin(t)
  PROVE  SpinInv'
<1>1. /\ pc[t] = "spin" /\ pc' \in {pc, [pc EXCEPT ![t] = "xchg"]}
      /\ UNCHANGED <<lock, IF_flag, running, saved_IF, target, held, flags>>
  BY DEF Spin, SpinInv, TypeOK
<1>2. TypeOK' /\ OwnTaskRuns'
  BY <1>1, SMTT(30) DEF SpinInv, TypeOK, OwnTaskRuns
<1>3. OutermostSaved'
  BY <1>1, SMTT(30) DEF SpinInv, TypeOK, OutermostSaved
<1>4. HolderKeepsProcessor' /\ InterruptsComeBack'
  BY <1>1, SMTT(30) DEF SpinInv, TypeOK, HolderKeepsProcessor, InterruptsComeBack, Runs
<1> QED  BY <1>2, <1>3, <1>4 DEF SpinInv

\* The lock taken last goes first; its saved flag is set exactly when no other
\* is held.
LEMMA UnlockSpinInv ==
  ASSUME SpinInv, NEW t \in Tasks, Unlock(t)
  PROVE  SpinInv'
<1>1. PICK l \in held[t] :
        /\ \A m \in held[t] : m <= l
        /\ lock' = [lock EXCEPT ![l] = 0]
        /\ held' = [held EXCEPT ![t] = @ \ {l}]
        /\ target' = [target EXCEPT ![t] = l]
  BY DEF Unlock
<1>2. /\ Runs(t) /\ pc[t] = "idle" /\ pc' = [pc EXCEPT ![t] = "restore"]
      /\ UNCHANGED <<IF_flag, running, saved_IF, flags>>
  BY DEF Unlock
<1>3. l \in Locks /\ held[t] \subseteq Locks /\ \A m \in Locks : m \in Nat
  BY SpinlockAssumption DEF SpinInv, TypeOK
<1>4. TypeOK'
  BY <1>1, <1>2, <1>3 DEF SpinInv, TypeOK
<1>5. OwnTaskRuns'
  BY <1>2 DEF SpinInv, OwnTaskRuns
<1>6. OutermostSaved'
  <2>1. \A u \in Tasks \ {t} : pc'[u] = pc[u] /\ held'[u] = held[u] /\ target'[u] = target[u]
    BY <1>1, <1>2 DEF SpinInv, TypeOK
  <2>2. pc'[t] = "restore" /\ held'[t] = held[t] \ {l} /\ target'[t] = l
    BY <1>1, <1>2 DEF SpinInv, TypeOK
  <2>3. \A m \in held[t] : flags[t][m] <=> \A n \in held[t] : m <= n
    BY DEF SpinInv, OutermostSaved
  <2>4. flags'[t][l] <=> held'[t] = {}
    <3>1. (\A n \in held[t] : l <= n) <=> held'[t] = {}
      BY <1>1, <1>3, <2>2, SMTT(30)
    <3> QED  BY <1>2, <2>3, <3>1
  <2>5. ASSUME NEW m \in held'[t] PROVE flags'[t][m] <=> \A n \in held'[t] : m <= n
    <3>1. (\A n \in held'[t] : m <= n) <=> \A n \in held[t] : m <= n
      <4>1. m <= l
        BY <1>1, <2>2
      <4> QED  BY <2>2, <4>1
    <3> QED  BY <1>2, <2>2, <2>3, <3>1
  <2> QED  BY <1>2, <2>1, <2>2, <2>4, <2>5, SMTT(30) DEF SpinInv, OutermostSaved
<1>7. HolderKeepsProcessor'
  <2>1. \A u \in Tasks : l \in held[u] <=> u = t
    BY <1>1 DEF SpinInv, HolderKeepsProcessor
  <2>2. \A k \in Locks : lock'[k] = 1 <=> \E u \in Tasks : k \in held'[u]
    BY <1>1, <1>3, <2>1, SMTT(30) DEF SpinInv, TypeOK, HolderKeepsProcessor
  <2>3. \A u, v \in Tasks : u # v => held'[u] \cap held'[v] = {}
    BY <1>1, SMTT(30) DEF SpinInv, TypeOK, HolderKeepsProcessor
  <2>4. \A u \in Tasks : held'[u] # {} \/ pc'[u] # "idle" => Runs(u)' /\ ~IF_flag'[cpu_of[u]]
    BY <1>1, <1>2, SMTT(30) DEF SpinInv, TypeOK, HolderKeepsProcessor, Runs
  <2> QED  BY <2>2, <2>3, <2>4 DEF HolderKeepsProcessor
<1>8. InterruptsComeBack'
  BY <1>1, <1>2 DEF SpinInv, TypeOK, InterruptsComeBack, Runs
<1> QED  BY <1>4, <1>5, <1>6, <1>7, <1>8 DEF SpinInv

LEMMA RestoreSpinInv ==
  ASSUME SpinInv, NEW t \in Tasks, RestoreInterrupts(t)
  PROVE  SpinInv'
<1>1. /\ Runs(t) /\ pc[t] = "restore" /\ pc' = [pc EXCEPT ![t] = "idle"]
      /\ IF_flag' = [IF_flag EXCEPT ![cpu_of[t]] = flags[t][target[t]]]
      /\ UNCHANGED <<lock, running, saved_IF, target, held, flags>>
  BY DEF RestoreInterrupts, Restored
<1>2. flags[t][target[t]] \in BOOLEAN /\ (flags[t][target[t]] <=> held[t] = {})
  BY <1>1, SMTT(30) DEF SpinInv, TypeOK, OutermostSaved
<1>3. TypeOK' /\ OwnTaskRuns'
  BY <1>1, <1>2 DEF SpinInv, TypeOK, OwnTaskRuns
<1>4. OutermostSaved'
  BY <1>1 DEF SpinInv, TypeOK, OutermostSaved
<1>5. \A u \in Tasks \ {t} : cpu_of[u] = cpu_of[t] => ~Runs(u)
  BY <1>1 DEF Runs
<1>6. HolderKeepsProcessor'
  BY <1>1, <1>2, <1>5, SpinlockAssumption, SMTT(30) DEF SpinInv, TypeOK, HolderKeepsProcessor, Runs
<1>7. InterruptsComeBack'
  BY <1>1, <1>2, <1>5, SpinlockAssumption DEF SpinInv, TypeOK, InterruptsComeBack, Runs
<1> QED  BY <1>3, <1>4, <1>6, <1>7 DEF SpinInv

\* The timer interrupts no task that is inside a lock call or holds a lock.
LEMMA TimerSpinInv ==
  ASSUME SpinInv, NEW c \in Cpus, TimerInterrupt(c)
  PROVE  SpinInv'
<1>1. PICK t \in Tasks \ {running[c]} :
        /\ cpu_of[t] = c
        /\ running' = [running EXCEPT ![c] = t]
        /\ IF_flag' = [IF_flag EXCEPT ![c] = saved_IF[t]]
  BY DEF TimerInterrupt
<1>2. /\ IF_flag[c] /\ saved_IF' = [saved_IF EXCEPT ![running[c]] = IF_flag[c]]
      /\ UNCHANGED <<lock, pc, target, held, flags>>
  BY DEF TimerInterrupt
<1>3. saved_IF[t] = TRUE /\ IF_flag[c] = TRUE /\ running[c] \in Tasks
  BY <1>1, <1>2 DEF SpinInv, TypeOK, OwnTaskRuns
<1>4. TypeOK' /\ OwnTaskRuns'
  BY <1>1, <1>2, <1>3 DEF SpinInv, TypeOK, OwnTaskRuns
<1>5. OutermostSaved'
  BY <1>2 DEF SpinInv, OutermostSaved
<1>6. IF_flag' = IF_flag
  BY <1>1, <1>2, <1>3 DEF SpinInv, TypeOK
<1>7. \A u \in Tasks : cpu_of[u] = c => held[u] = {} /\ pc[u] = "idle"
  BY <1>2, SMTT(30) DEF SpinInv, HolderKeepsProcessor
<1>8. HolderKeepsProcessor'
  BY <1>1, <1>2, <1>6, <1>7, SpinlockAssumption, SMTT(30) DEF SpinInv, TypeOK, HolderKeepsProcessor, Runs
<1>9. InterruptsComeBack'
  BY <1>1, <1>2, <1>6, SpinlockAssumption DEF SpinInv, TypeOK, InterruptsComeBack, Runs
<1> QED  BY <1>4, <1>5, <1>8, <1>9 DEF SpinInv

LEMMA SpinInductive == SpinInv /\ [Next]_vars => SpinInv'
<1>1. ASSUME SpinInv, UNCHANGED vars PROVE SpinInv'
  BY <1>1 DEF vars, SpinInv, TypeOK, OwnTaskRuns, OutermostSaved, HolderKeepsProcessor,
              InterruptsComeBack, Runs
<1> QED  BY <1>1, SaveSpinInv, XchgSpinInv, SpinSpinInv, UnlockSpinInv, RestoreSpinInv, TimerSpinInv
         DEF Next, LockStep

\* The spinlock's part of a behaviour of the three locks is one of Spinlock.
LEMMA LocksStepSpin == [LocksNext]_all_vars => [Next]_vars
  BY DEF LocksNext, OnlySpin, OnlyRw, OnlyTicket, all_vars

LEMMA SpinInvariance == LocksSpec => []SpinInv
<1>1. LocksInit => SpinInv
  BY InitSpinInv DEF LocksInit
<1> QED  BY <1>1, SpinInductive, LocksStepSpin, PTL DEF LocksSpec

\* The comment on spinlock_lock_intsave: a holder is never interrupted on its own
\* processor, and a taken lock has one holder.
THEOREM HoldersAreNotInterrupted == LocksSpec => []HolderKeepsProcessor
<1>1. SpinInv => HolderKeepsProcessor
  BY DEF SpinInv
<1> QED  BY <1>1, SpinInvariance, PTL

\* spinlock_unlock_intrestore: nested calls give the interrupt flag back as the
\* outermost found it.
THEOREM NestingRestoresInterrupts == LocksSpec => []InterruptsComeBack
<1>1. SpinInv => InterruptsComeBack
  BY DEF SpinInv
<1> QED  BY <1>1, SpinInvariance, PTL

-----------------------------------------------------------------------------
(* The readers-writer lock. *)

RwPcs == {"out", "read_lock", "read_trylock", "write_lock", "write_trylock",
          "read_cas", "read_trycas", "write_spin", "reading", "writing"}

RwTypes ==
  /\ rw_lock \in Nat
  /\ rw_old_val \in [Tasks -> Nat]
  /\ rw_pc \in [Tasks -> RwPcs]

\* The word is the writer bit or the number of readers, never both; and the word
\* a reader has loaded for its cmpxchg had no writer bit.
WordCounts ==
  /\ \A t, u \in R!Writers : t = u
  /\ R!Writers # {} => R!Readers = {} /\ rw_lock = RWLOCK_WRITER_MASK
  /\ R!Writers = {} => rw_lock = Cardinality(R!Readers)
  /\ \A t \in Tasks : rw_pc[t] \in {"read_cas", "read_trycas"} => rw_old_val[t] < RWLOCK_WRITER_MASK

RwInv == RwTypes /\ WordCounts

LEMMA InitRwInv == R!Init => RwInv
<1> SUFFICES ASSUME R!Init PROVE RwInv
  OBVIOUS
<1>1. RwTypes
  BY DEF R!Init, RwTypes, RwPcs
<1>2. R!Readers = {} /\ R!Writers = {}
  BY DEF R!Init, R!Readers, R!Writers
<1> QED  BY <1>1, <1>2, FS_EmptySet DEF RwInv, WordCounts, R!Init

\* The counter has room for every task: in the code it has 31 bits.
CounterSuffices == Cardinality(Tasks) < RWLOCK_WRITER_MASK

\* A step of the abstract lock, or none.
RwAbstractStep ==
  R!RW!Next \/ UNCHANGED <<R!Readers, R!Writers>>

\* Who reads and who writes after thread t went on to l.
LEMMA RwGoto ==
  ASSUME RwTypes, NEW t \in Tasks, NEW l \in RwPcs, R!Goto(t, l)
  PROVE  /\ rw_pc' \in [Tasks -> RwPcs]
         /\ rw_pc'[t] = l /\ \A u \in Tasks \ {t} : rw_pc'[u] = rw_pc[u]
         /\ R!Readers' = IF l = "reading" THEN R!Readers \cup {t} ELSE R!Readers \ {t}
         /\ R!Writers' = IF l = "writing" THEN R!Writers \cup {t} ELSE R!Writers \ {t}
<1>1. rw_pc' = [rw_pc EXCEPT ![t] = l] /\ rw_pc \in [Tasks -> RwPcs]
  BY DEF R!Goto, RwTypes
<1>2. rw_pc'[t] = l /\ \A u \in Tasks \ {t} : rw_pc'[u] = rw_pc[u]
  BY <1>1
<1>3. R!Readers' = IF l = "reading" THEN R!Readers \cup {t} ELSE R!Readers \ {t}
  BY <1>2 DEF R!Readers
<1>4. R!Writers' = IF l = "writing" THEN R!Writers \cup {t} ELSE R!Writers \ {t}
  BY <1>2 DEF R!Writers
<1> QED  BY <1>1, <1>2, <1>3, <1>4

\* The readers are finitely many, fewer than the counter can count.
LEMMA ReadersFinite ==
  ASSUME CounterSuffices
  PROVE  /\ IsFiniteSet(R!Readers) /\ Cardinality(R!Readers) \in Nat
         /\ Cardinality(R!Readers) < RWLOCK_WRITER_MASK
         /\ RWLOCK_WRITER_MASK \in Nat \ {0}
<1>1. R!Readers \in SUBSET Tasks /\ IsFiniteSet(Tasks) /\ RWLOCK_WRITER_MASK \in Nat \ {0}
  BY LocksAssumption DEF R!Readers
<1>2. IsFiniteSet(R!Readers) /\ Cardinality(R!Readers) <= Cardinality(Tasks)
  BY <1>1, FS_Subset
<1>3. Cardinality(R!Readers) \in Nat /\ Cardinality(Tasks) \in Nat
  BY <1>1, <1>2, FS_CardinalityType
<1> QED  BY <1>1, <1>2, <1>3, SMTT(30) DEF CounterSuffices

\* A step inside a call that leaves the word alone.
LEMMA RwSilentStep ==
  ASSUME RwInv, NEW t \in Tasks, NEW l \in RwPcs \ {"reading", "writing"}, R!Goto(t, l),
         rw_pc[t] \notin {"reading", "writing"}, UNCHANGED rw_lock,
         rw_old_val' \in [Tasks -> Nat],
         \A u \in Tasks \ {t} : rw_old_val'[u] = rw_old_val[u],
         l \in {"read_cas", "read_trycas"} => rw_old_val'[t] < RWLOCK_WRITER_MASK
  PROVE  RwInv' /\ RwAbstractStep
<1>1. R!Readers' = R!Readers /\ R!Writers' = R!Writers
  <2>1. t \notin R!Readers /\ t \notin R!Writers
    BY DEF R!Readers, R!Writers
  <2> QED  BY <2>1, RwGoto, SMTT(30) DEF RwInv
<1>2. RwTypes'
  BY RwGoto DEF RwInv, RwTypes
<1>3. \A u \in Tasks : rw_pc'[u] \in {"read_cas", "read_trycas"} => rw_old_val'[u] < RWLOCK_WRITER_MASK
  BY RwGoto, SMTT(30) DEF RwInv, WordCounts
<1> QED  BY <1>1, <1>2, <1>3 DEF RwInv, WordCounts, RwAbstractStep

\* The cmpxchg of a reader that succeeds.
LEMMA ReaderEnters ==
  ASSUME CounterSuffices, RwInv, NEW t \in Tasks, rw_pc[t] \in {"read_cas", "read_trycas"},
         rw_lock = rw_old_val[t], rw_lock' = rw_lock + 1, R!Goto(t, "reading"),
         rw_old_val' = [rw_old_val EXCEPT ![t] = 0]
  PROVE  RwInv' /\ RwAbstractStep
<1>1. R!Writers = {} /\ rw_lock = Cardinality(R!Readers) /\ t \notin R!Readers
  BY ReadersFinite, SMTT(30) DEF RwInv, RwTypes, WordCounts, R!Readers
<1>2. "reading" \in RwPcs /\ "reading" # "writing"
  BY DEF RwPcs
<1>3. R!Readers' = R!Readers \cup {t} /\ R!Writers' = {}
  BY <1>1, <1>2, RwGoto DEF RwInv
<1>4. rw_lock' = Cardinality(R!Readers')
  BY <1>1, <1>3, ReadersFinite, FS_AddElement
<1>5. RwTypes'
  BY <1>2, RwGoto, SMTT(30) DEF RwInv, RwTypes
<1>6. \A u \in Tasks : rw_pc'[u] \in {"read_cas", "read_trycas"} => rw_old_val'[u] < RWLOCK_WRITER_MASK
  BY <1>2, RwGoto DEF RwInv, RwTypes, WordCounts
<1>7. R!RW!EnterRead(t)
  BY <1>1, <1>3 DEF R!RW!EnterRead
<1> QED  BY <1>3, <1>4, <1>5, <1>6, <1>7 DEF RwInv, WordCounts, RwAbstractStep, R!RW!Next

\* The atomic_dec of a reader: the word counted it, so that it does not wrap.
LEMMA ReaderLeaves ==
  ASSUME CounterSuffices, RwInv, NEW t \in Tasks, R!ReadUnlock(t)
  PROVE  RwInv' /\ RwAbstractStep
<1>1. /\ rw_pc[t] = "reading" /\ rw_lock' = (rw_lock - 1) % (2 * RWLOCK_WRITER_MASK)
      /\ R!Goto(t, "out") /\ UNCHANGED rw_old_val
  BY DEF R!ReadUnlock
<1>2. t \in R!Readers /\ R!Writers = {} /\ rw_lock = Cardinality(R!Readers)
  BY <1>1 DEF RwInv, WordCounts, R!Readers
<1>3. R!Readers' = R!Readers \ {t} /\ R!Writers' = {}
  BY <1>1, <1>2, RwGoto DEF RwInv, RwPcs
<1>4. Cardinality(R!Readers') = Cardinality(R!Readers) - 1 /\ Cardinality(R!Readers') \in Nat
  <2>1. IsFiniteSet(R!Readers \ {t}) /\ Cardinality(R!Readers \ {t}) = Cardinality(R!Readers) - 1
    BY <1>2, ReadersFinite, FS_RemoveElement
  <2> QED  BY <1>3, <2>1, FS_CardinalityType
<1>5. rw_lock' = Cardinality(R!Readers')
  <2>1. rw_lock - 1 \in 0 .. 2 * RWLOCK_WRITER_MASK - 1
    BY <1>2, <1>4, ReadersFinite, SMTT(30)
  <2>2. (rw_lock - 1) % (2 * RWLOCK_WRITER_MASK) = rw_lock - 1
    BY <2>1, ReadersFinite, SMTT(30)
  <2> QED  BY <1>1, <1>2, <1>4, <2>2
<1>6. RwTypes'
  BY <1>1, <1>4, <1>5, RwGoto DEF RwInv, RwTypes, RwPcs
<1>7. \A u \in Tasks : rw_pc'[u] \in {"read_cas", "read_trycas"} => rw_old_val'[u] < RWLOCK_WRITER_MASK
  BY <1>1, RwGoto DEF RwInv, WordCounts, RwPcs
<1>8. R!RW!LeaveRead(t)
  BY <1>2, <1>3 DEF R!RW!LeaveRead
<1> QED  BY <1>3, <1>5, <1>6, <1>7, <1>8 DEF RwInv, WordCounts, RwAbstractStep, R!RW!Next

\* The cmpxchg of a writer that succeeds: the word was 0, so that nobody is in.
LEMMA WriterEnters ==
  ASSUME CounterSuffices, RwInv, NEW t \in Tasks, rw_lock = 0,
         rw_lock' = RWLOCK_WRITER_MASK, R!Goto(t, "writing"), UNCHANGED rw_old_val
  PROVE  RwInv' /\ RwAbstractStep
<1>1. R!Writers = {} /\ R!Readers = {}
  BY ReadersFinite, FS_EmptySet DEF RwInv, WordCounts
<1>2. R!Readers' = {} /\ R!Writers' = {t}
  BY <1>1, RwGoto DEF RwInv, RwPcs
<1>3. RwTypes'
  BY RwGoto, ReadersFinite DEF RwInv, RwTypes, RwPcs
<1>4. \A u \in Tasks : rw_pc'[u] \in {"read_cas", "read_trycas"} => rw_old_val'[u] < RWLOCK_WRITER_MASK
  BY RwGoto DEF RwInv, WordCounts, RwPcs
<1>5. R!RW!EnterWrite(t)
  BY <1>1, <1>2 DEF R!RW!EnterWrite
<1> QED  BY <1>2, <1>3, <1>4, <1>5 DEF RwInv, WordCounts, RwAbstractStep, R!RW!Next

LEMMA WriterLeaves ==
  ASSUME CounterSuffices, RwInv, NEW t \in Tasks, R!WriteUnlock(t)
  PROVE  RwInv' /\ RwAbstractStep
<1>1. rw_pc[t] = "writing" /\ rw_lock' = 0 /\ R!Goto(t, "out") /\ UNCHANGED rw_old_val
  BY DEF R!WriteUnlock
<1>2. R!Writers = {t} /\ R!Readers = {}
  BY <1>1 DEF RwInv, WordCounts, R!Writers
<1>3. R!Readers' = {} /\ R!Writers' = {}
  BY <1>1, <1>2, RwGoto DEF RwInv, RwPcs
<1>4. RwTypes'
  BY <1>1, RwGoto DEF RwInv, RwTypes, RwPcs
<1>5. \A u \in Tasks : rw_pc'[u] \in {"read_cas", "read_trycas"} => rw_old_val'[u] < RWLOCK_WRITER_MASK
  BY <1>1, RwGoto DEF RwInv, WordCounts, RwPcs
<1>6. R!RW!LeaveWrite(t)
  BY <1>2, <1>3 DEF R!RW!LeaveWrite
<1> QED  BY <1>1, <1>3, <1>4, <1>5, <1>6, FS_EmptySet DEF RwInv, WordCounts, RwAbstractStep, R!RW!Next

\* The cmpxchg of rwlock_read_lock and rwlock_read_trylock, successful or not.
LEMMA ReaderCas ==
  ASSUME CounterSuffices, RwInv, NEW t \in Tasks, R!ReadCas(t) \/ R!TryReadCas(t)
  PROVE  RwInv' /\ RwAbstractStep
<1>1. /\ rw_pc[t] \in {"read_cas", "read_trycas"} /\ rw_old_val' = [rw_old_val EXCEPT ![t] = 0]
      /\ \/ /\ rw_lock = rw_old_val[t] /\ R!Goto(t, "reading")
            /\ \/ rw_lock' = (rw_old_val[t] + 1) % (2 * RWLOCK_WRITER_MASK)
               \/ rw_lock' = rw_old_val[t] + 1
         \/ UNCHANGED rw_lock /\ (R!Goto(t, "read_lock") \/ R!Goto(t, "out"))
  BY DEF R!ReadCas, R!TryReadCas, R!Cas
<1>2. CASE UNCHANGED rw_lock /\ (R!Goto(t, "read_lock") \/ R!Goto(t, "out"))
  BY <1>1, <1>2, RwSilentStep DEF RwInv, RwTypes, RwPcs
<1>3. CASE /\ rw_lock = rw_old_val[t] /\ R!Goto(t, "reading")
           /\ \/ rw_lock' = (rw_old_val[t] + 1) % (2 * RWLOCK_WRITER_MASK)
              \/ rw_lock' = rw_old_val[t] + 1
  <2>1. rw_old_val[t] + 1 \in 0 .. 2 * RWLOCK_WRITER_MASK - 1
    BY <1>1, ReadersFinite, SMTT(30) DEF RwInv, RwTypes, WordCounts
  <2>2. (rw_old_val[t] + 1) % (2 * RWLOCK_WRITER_MASK) = rw_old_val[t] + 1
    BY <2>1, ReadersFinite, SMTT(30)
  <2> QED  BY <1>1, <1>3, <2>2, ReaderEnters
<1> QED  BY <1>1, <1>2, <1>3

LEMMA RwInductive ==
  ASSUME CounterSuffices, RwInv, [R!Next]_rw_vars
  PROVE  RwInv' /\ RwAbstractStep
<1>1. ASSUME NEW t \in Tasks, R!Call(t) PROVE RwInv' /\ RwAbstractStep
  <2>1. PICK l \in {"read_lock", "read_trylock", "write_lock", "write_trylock"} : R!Goto(t, l)
    BY <1>1 DEF R!Call
  <2> QED  BY <1>1, <2>1, RwSilentStep DEF R!Call, RwInv, RwTypes, RwPcs
<1>2. ASSUME NEW t \in Tasks, R!ReadLoad(t) PROVE RwInv' /\ RwAbstractStep
  <2>1. rw_lock \in Nat /\ RWLOCK_WRITER_MASK \in Nat /\ (~(rw_lock >= RWLOCK_WRITER_MASK) => rw_lock < RWLOCK_WRITER_MASK)
    BY ReadersFinite, SMTT(30) DEF RwInv, RwTypes
  <2> QED  BY <1>2, <2>1, RwSilentStep DEF R!ReadLoad, R!WriterBit, RwInv, RwTypes, RwPcs
<1>3. ASSUME NEW t \in Tasks, R!TryReadLoad(t) PROVE RwInv' /\ RwAbstractStep
  <2>1. rw_lock \in Nat /\ RWLOCK_WRITER_MASK \in Nat /\ (~(rw_lock >= RWLOCK_WRITER_MASK) => rw_lock < RWLOCK_WRITER_MASK)
    BY ReadersFinite, SMTT(30) DEF RwInv, RwTypes
  <2>2. CASE R!Goto(t, "out") /\ UNCHANGED rw_old_val
    BY <1>3, <2>2, RwSilentStep DEF R!TryReadLoad, RwInv, RwTypes, RwPcs
  <2>3. CASE /\ R!Goto(t, "read_trycas") /\ rw_old_val' = [rw_old_val EXCEPT ![t] = rw_lock]
             /\ ~R!WriterBit(rw_lock)
    BY <1>3, <2>1, <2>3, RwSilentStep DEF R!TryReadLoad, R!WriterBit, RwInv, RwTypes, RwPcs
  <2> QED  BY <1>3, <2>2, <2>3 DEF R!TryReadLoad
<1>4. ASSUME NEW t \in Tasks, R!WriteCas(t) \/ R!TryWrite(t) PROVE RwInv' /\ RwAbstractStep
  <2>1. CASE /\ rw_lock = 0 /\ rw_lock' = RWLOCK_WRITER_MASK /\ R!Goto(t, "writing")
             /\ UNCHANGED rw_old_val
    BY <2>1, WriterEnters
  <2>2. CASE /\ UNCHANGED <<rw_lock, rw_old_val>> /\ (R!Goto(t, "write_spin") \/ R!Goto(t, "out"))
             /\ rw_pc[t] \in {"write_lock", "write_trylock"}
    BY <2>2, RwSilentStep DEF RwInv, RwTypes, RwPcs
  <2> QED  BY <1>4, <2>1, <2>2 DEF R!WriteCas, R!TryWrite, R!Cas
<1>5. ASSUME NEW t \in Tasks, R!WriteSpin(t) PROVE RwInv' /\ RwAbstractStep
  BY <1>5, RwSilentStep DEF R!WriteSpin, RwInv, RwTypes, RwPcs
<1>6. CASE UNCHANGED rw_vars
  <2>1. R!Readers' = R!Readers /\ R!Writers' = R!Writers
    BY <1>6 DEF rw_vars, R!Readers, R!Writers
  <2> QED  BY <1>6, <2>1 DEF rw_vars, RwInv, RwTypes, WordCounts, RwAbstractStep
<1> QED  BY <1>1, <1>2, <1>3, <1>4, <1>5, <1>6, ReaderCas, ReaderLeaves, WriterLeaves
         DEF R!Next, R!Step

\* The readers-writer lock is the abstract one (rwlock_read_lock and the other
\* calls): readers never overlap a writer, writers never overlap, as long as the
\* counter below the writer bit has room for all tasks.
THEOREM ReadersWriterRefined ==
  ASSUME CounterSuffices
  PROVE  LocksSpec => RefinesReadersWriter
<1>1. LocksInit => RwInv /\ R!RW!Init
  BY InitRwInv DEF LocksInit, R!Init, R!RW!Init, R!Readers, R!Writers
<1>2. RwInv /\ [LocksNext]_all_vars => RwInv' /\ [R!RW!Next]_<<R!Readers, R!Writers>>
  <2> SUFFICES ASSUME RwInv, [LocksNext]_all_vars
               PROVE  RwInv' /\ [R!RW!Next]_<<R!Readers, R!Writers>>
    OBVIOUS
  <2>1. [R!Next]_rw_vars
    BY DEF LocksNext, OnlySpin, OnlyRw, OnlyTicket, all_vars
  <2> QED  BY <2>1, RwInductive DEF RwAbstractStep
<1> QED  BY <1>1, <1>2, PTL DEF LocksSpec, RefinesReadersWriter, R!RefinesReadersWriter, R!RW!Spec

\* "Make sure we don't overflow into writer bit" (rwlock_read_lock) is true as long
\* as the counter has room for all tasks: the test itself does not ensure it.
THEOREM WriterBitIsTheWriters ==
  ASSUME CounterSuffices
  PROVE  LocksSpec => []NoOverflowIntoWriterBit
<1>1. LocksInit => RwInv
  BY InitRwInv DEF LocksInit
<1>2. RwInv /\ [LocksNext]_all_vars => RwInv'
  <2> SUFFICES ASSUME RwInv, [LocksNext]_all_vars PROVE RwInv'
    OBVIOUS
  <2>1. [R!Next]_rw_vars
    BY DEF LocksNext, OnlySpin, OnlyRw, OnlyTicket, all_vars
  <2> QED  BY <2>1, RwInductive
<1>3. RwInv => NoOverflowIntoWriterBit
  BY ReadersFinite, SMTT(30) DEF RwInv, WordCounts, NoOverflowIntoWriterBit, R!NoOverflowIntoWriterBit,
     R!WriterBit, CounterSuffices
<1> QED  BY <1>1, <1>2, <1>3, PTL DEF LocksSpec

-----------------------------------------------------------------------------
(* The ticket lock. *)

LEMMA RemainderCases ==
  ASSUME NEW M \in Nat \ {0}, NEW x \in Int
  PROVE  /\ x \in 0 .. M - 1 => x % M = x
         /\ x = M => x % M = 0
         /\ x < 0 /\ -M <= x => x % M = x + M
  BY SMTT(30)

\* Counting tickets modulo TICKET_MOD.
LEMMA TicketArithmetic ==
  ASSUME NEW a \in T!Ticket, NEW b \in T!Ticket
  PROVE  /\ T!Plus1(a) \in T!Ticket
         /\ T!Minus(a, b) \in T!Ticket
         /\ T!Minus(a, b) = 0 <=> a = b
         /\ T!Minus(a, b) < TICKET_MOD - 1 => T!Minus(T!Plus1(a), b) = T!Minus(a, b) + 1
         /\ a # b => T!Minus(a, T!Plus1(b)) = T!Minus(a, b) - 1
<1>1. TICKET_MOD \in Nat \ {0} /\ a \in 0 .. TICKET_MOD - 1 /\ b \in 0 .. TICKET_MOD - 1
  BY FS_CardinalityType, LocksAssumption, SMTT(30) DEF T!Ticket
<1>2. ASSUME NEW c \in 0 .. TICKET_MOD - 1
      PROVE  T!Plus1(c) = IF c = TICKET_MOD - 1 THEN 0 ELSE c + 1
  <2>1. c + 1 \in Int /\ (c = TICKET_MOD - 1 => c + 1 = TICKET_MOD)
        /\ (c # TICKET_MOD - 1 => c + 1 \in 0 .. TICKET_MOD - 1)
    BY <1>1, SMTT(30)
  <2> QED  BY <1>1, <2>1, RemainderCases DEF T!Plus1
<1>3. ASSUME NEW c \in 0 .. TICKET_MOD - 1, NEW d \in 0 .. TICKET_MOD - 1
      PROVE  T!Minus(c, d) = IF d <= c THEN c - d ELSE c - d + TICKET_MOD
  <2>1. c - d \in Int /\ (d <= c => c - d \in 0 .. TICKET_MOD - 1)
        /\ (~(d <= c) => c - d < 0 /\ -TICKET_MOD <= c - d)
    BY <1>1, SMTT(30)
  <2> QED  BY <1>1, <2>1, RemainderCases DEF T!Minus
<1>4. T!Plus1(a) \in 0 .. TICKET_MOD - 1 /\ T!Plus1(b) \in 0 .. TICKET_MOD - 1
  BY <1>1, <1>2, SMTT(30)
<1>5. T!Minus(a, b) = IF b <= a THEN a - b ELSE a - b + TICKET_MOD
  BY <1>1, <1>3
<1>6. T!Minus(T!Plus1(a), b) = IF b <= T!Plus1(a) THEN T!Plus1(a) - b ELSE T!Plus1(a) - b + TICKET_MOD
  BY <1>1, <1>3, <1>4
<1>7. T!Minus(a, T!Plus1(b)) = IF T!Plus1(b) <= a THEN a - T!Plus1(b) ELSE a - T!Plus1(b) + TICKET_MOD
  BY <1>1, <1>3, <1>4
<1>8. T!Plus1(a) = (IF a = TICKET_MOD - 1 THEN 0 ELSE a + 1) /\ T!Plus1(b) = (IF b = TICKET_MOD - 1 THEN 0 ELSE b + 1)
  BY <1>1, <1>2
<1> HIDE DEF T!Plus1, T!Minus
<1>a. T!Minus(a, b) \in 0 .. TICKET_MOD - 1 /\ (T!Minus(a, b) = 0 <=> a = b)
  BY <1>1, <1>5, SMTT(30)
<1>b. T!Minus(a, b) < TICKET_MOD - 1 => T!Minus(T!Plus1(a), b) = T!Minus(a, b) + 1
  BY <1>1, <1>5, <1>6, <1>8, SMTT(30)
<1>c. a # b => T!Minus(a, T!Plus1(b)) = T!Minus(a, b) - 1
  BY <1>1, <1>5, <1>7, <1>8, SMTT(30)
<1> QED  BY <1>4, <1>a, <1>b, <1>c DEF T!Ticket

TicketPcs == {"out", "wait", "in", "try_next", "try_cas"}
Waiting == Cardinality(T!Queueing)

TicketTypes ==
  /\ next_ticket \in T!Ticket /\ serving_ticket \in T!Ticket
  /\ my_ticket \in [Tasks -> T!Ticket]
  /\ span \in [Tasks -> T!Ticket]
  /\ ticket_pc \in [Tasks -> TicketPcs]

\* The tickets between serving_ticket and next_ticket are those of the queueing
\* tasks, one each, and only the first of these tasks can be inside.
TicketsDealt ==
  /\ T!Minus(next_ticket, serving_ticket) = Waiting
  /\ \A t \in T!Queueing : T!Distance(t) < Waiting
  /\ \A t, u \in T!Queueing : T!Distance(t) = T!Distance(u) => t = u
  /\ \A i \in 1 .. Waiting : \E t \in T!Queueing : T!Distance(t) = i - 1
  /\ \A t \in Tasks : ticket_pc[t] = "in" => T!Distance(t) = 0

\* A trylock has seen serving_ticket as it was span tickets ago: it is not ahead of
\* the tasks that queue now.
TrylockBehind ==
  \A t \in T!Trying : T!Minus(next_ticket, my_ticket[t]) = span[t] /\ Waiting <= span[t]

TicketInv == TicketTypes /\ TicketsDealt /\ TrylockBehind

LEMMA QueueingFinite ==
  /\ IsFiniteSet(T!Queueing) /\ Waiting \in Nat
  /\ Waiting <= Cardinality(Tasks) /\ Cardinality(Tasks) \in Nat
  /\ TICKET_MOD \in Nat /\ Cardinality(Tasks) < TICKET_MOD
<1>1. IsFiniteSet(Tasks) /\ T!Queueing \subseteq Tasks
  BY LocksAssumption DEF T!Queueing
<1>2. IsFiniteSet(T!Queueing) /\ Cardinality(T!Queueing) <= Cardinality(Tasks)
  BY <1>1, FS_Subset
<1> QED  BY <1>1, <1>2, FS_CardinalityType, LocksAssumption DEF Waiting

\* What QueueOf is when the tickets are dealt.
QueueInOrder ==
  LET q == T!QueueOf(Waiting) IN
  /\ q \in Seq(Tasks) /\ Len(q) = Waiting
  /\ \A t \in T!Queueing : \A i \in 1 .. Waiting : T!Distance(t) = i - 1 => q[i] = t

LEMMA QueueInOrderHolds == TicketInv => QueueInOrder
<1> SUFFICES ASSUME TicketInv PROVE QueueInOrder
  OBVIOUS
<1> DEFINE q == T!QueueOf(Waiting)
<1>1. q = [i \in 1 .. Waiting |-> CHOOSE t \in T!Queueing : T!Distance(t) = i - 1]
  BY DEF T!QueueOf
<1>2. ASSUME NEW i \in 1 .. Waiting PROVE q[i] \in T!Queueing /\ T!Distance(q[i]) = i - 1
  <2>1. \E t \in T!Queueing : T!Distance(t) = i - 1
    BY DEF TicketInv, TicketsDealt
  <2>2. q[i] = CHOOSE t \in T!Queueing : T!Distance(t) = i - 1
    BY <1>1
  <2> HIDE DEF q
  <2> QED  BY <2>1, <2>2
<1>3. q \in [1 .. Waiting -> Tasks] /\ Waiting \in Nat
  <2>1. \A i \in 1 .. Waiting : q[i] \in Tasks
    BY <1>2 DEF T!Queueing
  <2>2. DOMAIN q = 1 .. Waiting /\ q = [i \in 1 .. Waiting |-> q[i]]
    BY <1>1
  <2> HIDE DEF q
  <2> QED  BY <2>1, <2>2, QueueingFinite
<1>4. q \in Seq(Tasks) /\ Len(q) = Waiting
  <2> HIDE DEF q
  <2> QED  BY <1>3, SMTT(30)
<1>5. \A t \in T!Queueing : \A i \in 1 .. Waiting : T!Distance(t) = i - 1 => q[i] = t
  <2> HIDE DEF q
  <2> QED  BY <1>2 DEF TicketInv, TicketsDealt
<1> QED  BY <1>4, <1>5 DEF QueueInOrder

LEMMA QueueInOrderHoldsNext == TicketInv' => QueueInOrder'
  BY QueueInOrderHolds, PTL

LEMMA TicketGoto ==
  ASSUME TicketTypes, NEW t \in Tasks, NEW l \in TicketPcs, T!Goto(t, l)
  PROVE  /\ ticket_pc' \in [Tasks -> TicketPcs]
         /\ ticket_pc'[t] = l
         /\ \A u \in Tasks \ {t} : ticket_pc'[u] = ticket_pc[u]
  BY DEF TicketTypes, T!Goto

Inside == {t \in Tasks : ticket_pc[t] = "in"}
Dealt == T!Minus(next_ticket, serving_ticket)

TicketAbstractStep ==
  \/ T!Fifo!Next
  \/ UNCHANGED <<T!QueueOf(Dealt), Inside>>

\* The queue of the refinement has as many tasks as there are tickets dealt.
LEMMA QueueLength ==
  ASSUME TicketInv, TicketInv'
  PROVE  T!QueueOf(Dealt) = T!QueueOf(Waiting) /\ T!QueueOf(Dealt)' = T!QueueOf(Waiting)'
<1>1. Dealt = Waiting /\ Dealt' = Waiting'
  BY DEF Dealt, TicketInv, TicketsDealt
<1> QED  BY <1>1 DEF T!QueueOf

\* Two queues with the same tasks at the same distances are the same.
LEMMA SameQueue ==
  ASSUME TicketInv, TicketInv', T!Queueing' = T!Queueing, Waiting' = Waiting,
         \A t \in T!Queueing : T!Distance(t)' = T!Distance(t)
  PROVE  T!QueueOf(Waiting)' = T!QueueOf(Waiting)
<1> DEFINE q == T!QueueOf(Waiting)
<1>1. QueueInOrder /\ QueueInOrder'
  BY QueueInOrderHolds, QueueInOrderHoldsNext
<1>2. q \in Seq(Tasks) /\ Len(q) = Waiting /\ q' \in Seq(Tasks) /\ Len(q') = Waiting'
  BY <1>1 DEF QueueInOrder
<1>3. ASSUME NEW i \in 1 .. Waiting PROVE q'[i] = q[i]
  <2>1. PICK t \in T!Queueing : T!Distance(t) = i - 1
    BY DEF TicketInv, TicketsDealt
  <2>2. t \in T!Queueing' /\ T!Distance(t)' = i - 1 /\ i \in 1 .. Waiting'
    BY <2>1
  <2>3. q[i] = t
    BY <1>1, <2>1 DEF QueueInOrder
  <2>4. q'[i] = t
    BY <1>1, <2>2 DEF QueueInOrder
  <2> QED  BY <2>3, <2>4
<1> HIDE DEF q
<1>4. q' = q
  BY <1>2, <1>3, SMTT(30)
<1> QED  BY <1>4 DEF q

\* The steps of ticket_spinlockrylock that do not take a ticket.
LEMMA TrylockSilent ==
  ASSUME TicketInv, NEW t \in Tasks, NEW l \in {"out", "try_next", "try_cas"},
         ticket_pc[t] \notin {"wait", "in"}, T!Goto(t, l),
         UNCHANGED <<next_ticket, serving_ticket>>,
         my_ticket' \in [Tasks -> T!Ticket], span' \in [Tasks -> T!Ticket],
         \A u \in Tasks \ {t} : my_ticket'[u] = my_ticket[u] /\ span'[u] = span[u],
         l # "out" => T!Minus(next_ticket, my_ticket'[t]) = span'[t] /\ Waiting <= span'[t]
  PROVE  TicketInv' /\ TicketAbstractStep
<1>1. TicketTypes'
  BY TicketGoto DEF TicketInv, TicketTypes, TicketPcs
<1>2. /\ l \in TicketPcs /\ ticket_pc'[t] = l /\ l \notin {"wait", "in"}
      /\ \A u \in Tasks \ {t} : ticket_pc'[u] = ticket_pc[u]
  BY TicketGoto DEF TicketInv, TicketPcs
<1>3. T!Queueing' = T!Queueing /\ Inside' = Inside
  BY <1>2 DEF T!Queueing, Inside
<1>4. Waiting' = Waiting
  BY <1>3 DEF Waiting
<1>5. \A u \in T!Queueing : u \in Tasks \ {t} /\ T!Distance(u)' = T!Distance(u)
  BY DEF T!Queueing, T!Distance
<1>6. TicketsDealt'
  <2>1. \A u \in Tasks : ticket_pc'[u] = "in" => u \in T!Queueing /\ ticket_pc[u] = "in"
    BY <1>2 DEF T!Queueing
  <2>2. \A u \in Tasks : ticket_pc'[u] = "in" => T!Distance(u)' = 0
    BY <2>1, <1>5 DEF TicketInv, TicketsDealt
  <2>3. T!Minus(next_ticket, serving_ticket)' = Waiting
    BY DEF TicketInv, TicketsDealt
  <2> QED  BY <1>3, <1>4, <1>5, <2>2, <2>3, SMTT(30) DEF TicketInv, TicketsDealt
<1>7. TrylockBehind'
  <2>1. ASSUME NEW u \in T!Trying', u # t
        PROVE  T!Minus(next_ticket, my_ticket[u])' = span'[u] /\ Waiting <= span'[u]
    BY <1>2, <2>1 DEF T!Trying, TicketInv, TrylockBehind
  <2>2. t \in T!Trying' => T!Minus(next_ticket, my_ticket[t])' = span'[t] /\ Waiting <= span'[t]
    BY <1>2 DEF T!Trying
  <2> QED  BY <1>4, <2>1, <2>2 DEF TrylockBehind
<1>8. TicketInv'
  BY <1>1, <1>6, <1>7 DEF TicketInv
<1>9. T!QueueOf(Waiting)' = T!QueueOf(Waiting)
  BY <1>3, <1>4, <1>5, <1>8, SameQueue
<1> QED  BY <1>3, <1>8, <1>9, QueueLength DEF TicketAbstractStep

\* Taking a ticket, to wait or, when nobody queues, to be in: it is the last one.
LEMMA TicketTaken ==
  ASSUME TicketInv, NEW t \in Tasks, NEW l \in {"wait", "in"},
         ticket_pc[t] \notin {"wait", "in"}, l = "in" => Waiting = 0,
         T!TakeTicket(t), T!Goto(t, l), UNCHANGED serving_ticket
  PROVE  /\ TicketInv'
         /\ T!Queueing' = T!Queueing \cup {t} /\ Waiting' = Waiting + 1
         /\ T!Distance(t)' = Waiting
         /\ \A u \in T!Queueing : T!Distance(u)' = T!Distance(u)
<1>1. /\ l \in TicketPcs /\ ticket_pc'[t] = l /\ ticket_pc' \in [Tasks -> TicketPcs]
      /\ \A u \in Tasks \ {t} : ticket_pc'[u] = ticket_pc[u]
  BY TicketGoto DEF TicketInv, TicketPcs
<1>2. T!Queueing' = T!Queueing \cup {t} /\ t \notin T!Queueing
  BY <1>1 DEF T!Queueing
<1>3. Waiting' = Waiting + 1 /\ Waiting' \in Nat /\ Waiting' < TICKET_MOD
  <2>1. IsFiniteSet(T!Queueing) /\ Waiting' \in Nat /\ Waiting' < TICKET_MOD
    <3>1. Waiting' = Cardinality(T!Queueing \cup {t}) /\ T!Queueing \cup {t} \subseteq Tasks
      BY <1>2 DEF Waiting, T!Queueing
    <3>2. Cardinality(T!Queueing \cup {t}) <= Cardinality(Tasks) /\ IsFiniteSet(T!Queueing \cup {t})
      BY <3>1, FS_Subset, LocksAssumption
    <3> QED  BY <3>1, <3>2, FS_CardinalityType, QueueingFinite, SMTT(30)
  <2> QED  BY <1>2, <2>1, FS_AddElement DEF Waiting
<1>4. next_ticket' \in T!Ticket /\ T!Minus(next_ticket, serving_ticket)' = Waiting + 1
  <2>1. T!Minus(next_ticket, serving_ticket) = Waiting /\ Waiting < TICKET_MOD - 1
        /\ next_ticket \in T!Ticket /\ serving_ticket \in T!Ticket /\ next_ticket' = T!Plus1(next_ticket)
    BY <1>3, QueueingFinite, SMTT(30) DEF TicketInv, TicketTypes, TicketsDealt, T!TakeTicket
  <2>2. T!Minus(T!Plus1(next_ticket), serving_ticket) = Waiting + 1 /\ T!Plus1(next_ticket) \in T!Ticket
    BY <2>1, TicketArithmetic, SMTT(30)
  <2>3. T!Minus(next_ticket, serving_ticket)' = T!Minus(next_ticket', serving_ticket')
    BY DEF T!Minus
  <2> QED  BY <2>1, <2>2, <2>3
<1>5. my_ticket' \in [Tasks -> T!Ticket] /\ my_ticket'[t] = next_ticket
      /\ \A u \in Tasks \ {t} : my_ticket'[u] = my_ticket[u]
  BY DEF TicketInv, TicketTypes, T!TakeTicket
<1>6. span' \in [Tasks -> T!Ticket] /\ \A u \in T!Trying \ {t} : span'[u] = span[u] + 1 /\ span[u] < TICKET_MOD - 1
  <2>1. \A u \in Tasks : span[u] \in 0 .. TICKET_MOD - 1
    BY DEF TicketInv, TicketTypes, T!Ticket
  <2>2. span' = [u \in Tasks |-> IF u \in T!Trying \ {t} THEN span[u] + 1 ELSE 0]
        /\ \A u \in T!Trying \ {t} : span[u] < TICKET_MOD - 1
    BY DEF T!TakeTicket
  <2>3. T!Trying \subseteq Tasks
    BY DEF T!Trying
  <2> QED  BY <2>1, <2>2, <2>3, QueueingFinite, SMTT(30) DEF T!Ticket
<1>7. TicketTypes'
  BY <1>1, <1>4, <1>5, <1>6 DEF TicketInv, TicketTypes
<1>8. T!Distance(t)' = Waiting
  BY <1>5 DEF T!Distance, T!Minus, TicketInv, TicketsDealt
<1>9. \A u \in T!Queueing : u \in Tasks \ {t} /\ T!Distance(u)' = T!Distance(u)
  BY <1>2, <1>5 DEF T!Queueing, T!Distance
<1>10. TicketsDealt'
  <2>1. \A u \in T!Queueing : T!Distance(u) < Waiting /\ T!Distance(u) \in Nat
    <3>1. \A u \in T!Queueing : my_ticket[u] \in T!Ticket /\ serving_ticket \in T!Ticket
      BY DEF TicketInv, TicketTypes, T!Queueing
    <3>2. \A u \in T!Queueing : T!Distance(u) \in T!Ticket
      BY <3>1, TicketArithmetic DEF T!Distance
    <3> QED  BY <3>2, SMTT(30) DEF TicketInv, TicketsDealt, T!Ticket
  <2>2. \A u \in T!Queueing' : T!Distance(u)' < Waiting'
    BY <1>2, <1>3, <1>8, <1>9, <2>1, QueueingFinite, SMTT(30)
  <2>3. \A u, v \in T!Queueing' : T!Distance(u)' = T!Distance(v)' => u = v
    <3>1. \A u \in T!Queueing : T!Distance(u)' # Waiting
      BY <1>9, <2>1, QueueingFinite, SMTT(30)
    <3>2. \A u, v \in T!Queueing : T!Distance(u)' = T!Distance(v)' => u = v
      BY <1>9, SMTT(30) DEF TicketInv, TicketsDealt
    <3> QED  BY <1>2, <1>8, <3>1, <3>2
  <2>4. \A i \in 1 .. Waiting' : \E u \in T!Queueing' : T!Distance(u)' = i - 1
    <3> SUFFICES ASSUME NEW i \in 1 .. Waiting' PROVE \E u \in T!Queueing' : T!Distance(u)' = i - 1
      OBVIOUS
    <3>1. CASE i = Waiting + 1
      <4>1. T!Distance(t)' = i - 1 /\ t \in T!Queueing'
        BY <1>2, <1>8, <3>1, QueueingFinite, SMTT(30)
      <4> QED  BY <4>1
    <3>2. CASE i \in 1 .. Waiting
      <4>1. PICK u \in T!Queueing : T!Distance(u) = i - 1
        BY <3>2 DEF TicketInv, TicketsDealt
      <4>2. u \in T!Queueing' /\ T!Distance(u)' = i - 1
        BY <1>2, <1>9, <4>1
      <4> QED  BY <4>2
    <3> QED  BY <1>3, <3>1, <3>2, QueueingFinite, SMTT(30)
  <2>5. \A u \in Tasks : ticket_pc'[u] = "in" => T!Distance(u)' = 0
    <3>1. ASSUME NEW u \in Tasks, u # t, ticket_pc'[u] = "in" PROVE T!Distance(u)' = 0
      <4>1. ticket_pc[u] = "in" /\ u \in T!Queueing
        BY <1>1, <3>1 DEF T!Queueing
      <4> QED  BY <4>1, <1>9 DEF TicketInv, TicketsDealt
    <3> QED  BY <1>1, <1>8, <3>1
  <2>6. T!Minus(next_ticket, serving_ticket)' = Waiting'
    BY <1>3, <1>4
  <2> QED  BY <2>2, <2>3, <2>4, <2>5, <2>6 DEF TicketsDealt
<1>11. TrylockBehind'
  <2> SUFFICES ASSUME NEW u \in T!Trying'
               PROVE  T!Minus(next_ticket, my_ticket[u])' = span'[u] /\ Waiting' <= span'[u]
    BY DEF TrylockBehind
  <2>1. u \in T!Trying \ {t} /\ u \in Tasks
    BY <1>1 DEF T!Trying
  <2>2. T!Minus(next_ticket, my_ticket[u]) = span[u] /\ Waiting <= span[u] /\ span[u] < TICKET_MOD - 1
        /\ span'[u] = span[u] + 1 /\ my_ticket'[u] = my_ticket[u] /\ span[u] \in Nat
    BY <1>5, <1>6, <2>1, SMTT(30) DEF TicketInv, TrylockBehind, TicketTypes, T!Ticket
  <2>3. my_ticket[u] \in T!Ticket /\ next_ticket \in T!Ticket /\ next_ticket' = T!Plus1(next_ticket)
    BY <2>1 DEF TicketInv, TicketTypes, T!TakeTicket
  <2>4. T!Minus(T!Plus1(next_ticket), my_ticket[u]) = span[u] + 1
    BY <2>2, <2>3, TicketArithmetic, SMTT(30)
  <2>5. T!Minus(next_ticket, my_ticket[u])' = T!Minus(next_ticket', my_ticket'[u])
    BY DEF T!Minus
  <2> QED  BY <1>3, <2>2, <2>3, <2>4, <2>5, QueueingFinite, SMTT(30)
<1> QED  BY <1>2, <1>3, <1>7, <1>8, <1>9, <1>10, <1>11 DEF TicketInv

\* ticket_spinlock_lock takes a ticket: the caller joins the queue at its end.
LEMMA LockJoins ==
  ASSUME TicketInv, NEW t \in Tasks, T!Lock(t)
  PROVE  TicketInv' /\ TicketAbstractStep
<1>1. /\ ticket_pc[t] = "out" /\ T!TakeTicket(t) /\ T!Goto(t, "wait") /\ UNCHANGED serving_ticket
  BY DEF T!Lock
<1>2. /\ TicketInv' /\ T!Queueing' = T!Queueing \cup {t} /\ Waiting' = Waiting + 1
      /\ T!Distance(t)' = Waiting /\ \A u \in T!Queueing : T!Distance(u)' = T!Distance(u)
  BY <1>1, TicketTaken
<1> DEFINE q == T!QueueOf(Waiting)
<1>3. QueueInOrder /\ QueueInOrder'
  BY <1>2, QueueInOrderHolds, QueueInOrderHoldsNext
<1>4. /\ q \in Seq(Tasks) /\ Len(q) = Waiting /\ q' \in Seq(Tasks) /\ Len(q') = Waiting + 1
      /\ Waiting \in Nat
  BY <1>2, <1>3, QueueingFinite DEF QueueInOrder
<1>5. ASSUME NEW i \in 1 .. Waiting PROVE q'[i] = q[i] /\ q[i] # t
  <2>1. PICK u \in T!Queueing : T!Distance(u) = i - 1
    BY DEF TicketInv, TicketsDealt
  <2>2. u \in T!Queueing' /\ T!Distance(u)' = i - 1 /\ i \in 1 .. Waiting'
    BY <1>2, <1>4, <2>1, SMTT(30)
  <2>3. q[i] = u
    BY <1>3, <2>1 DEF QueueInOrder
  <2>4. q'[i] = u
    BY <1>3, <2>2 DEF QueueInOrder
  <2>5. u # t
    BY <1>1, <2>1 DEF T!Queueing
  <2> QED  BY <2>3, <2>4, <2>5
<1>6. q'[Waiting + 1] = t
  <2>1. t \in T!Queueing' /\ Waiting + 1 \in 1 .. Waiting' /\ T!Distance(t)' = (Waiting + 1) - 1
    BY <1>2, <1>4, SMTT(30)
  <2> QED  BY <1>3, <2>1 DEF QueueInOrder
<1>7. Inside' = Inside
  BY <1>1, TicketGoto DEF Inside, TicketInv, TicketPcs
<1> HIDE DEF q
<1>8. q' = Append(q, t) /\ \A i \in DOMAIN q : q[i] # t
  BY <1>4, <1>5, <1>6, SMTT(30)
<1>9. T!Fifo!Join(t)
  BY <1>7, <1>8, <1>2, QueueLength DEF q, T!Fifo!Join, Inside, Dealt
<1> QED  BY <1>2, <1>9 DEF TicketAbstractStep, T!Fifo!Next

\* A waiting task sees its ticket served: it is the first of the queue.
LEMMA WaitEnters ==
  ASSUME TicketInv, NEW t \in Tasks, T!Wait(t)
  PROVE  TicketInv' /\ TicketAbstractStep
<1>1. /\ ticket_pc[t] = "wait" /\ serving_ticket = my_ticket[t] /\ T!Goto(t, "in")
      /\ UNCHANGED <<next_ticket, serving_ticket, my_ticket, span>>
  BY DEF T!Wait, T!Served
<1>2. /\ ticket_pc'[t] = "in" /\ ticket_pc' \in [Tasks -> TicketPcs]
      /\ \A u \in Tasks \ {t} : ticket_pc'[u] = ticket_pc[u]
  BY <1>1, TicketGoto DEF TicketInv, TicketPcs
<1>3. T!Queueing' = T!Queueing /\ t \in T!Queueing /\ T!Trying' = T!Trying
  BY <1>1, <1>2 DEF T!Queueing, T!Trying
<1>4. Waiting' = Waiting
  BY <1>3 DEF Waiting
<1>5. \A u \in Tasks : T!Distance(u)' = T!Distance(u)
  BY <1>1 DEF T!Distance
<1>6. T!Distance(t) = 0
  BY <1>1, TicketArithmetic DEF T!Distance, TicketInv, TicketTypes
<1>7. TicketInv'
  <2>1. TicketTypes'
    BY <1>1, <1>2 DEF TicketInv, TicketTypes
  <2>2. \A u \in Tasks : ticket_pc'[u] = "in" => T!Distance(u)' = 0
    BY <1>2, <1>5, <1>6 DEF TicketInv, TicketsDealt
  <2>3. \A u \in T!Queueing : T!Distance(u)' = T!Distance(u)
    BY <1>5 DEF T!Queueing
  <2>4. T!Minus(next_ticket, serving_ticket)' = Waiting
    BY <1>1 DEF TicketInv, TicketsDealt
  <2>5. TicketsDealt'
    BY <1>3, <1>4, <2>2, <2>3, <2>4, SMTT(30) DEF TicketInv, TicketsDealt
  <2>6. TrylockBehind'
    BY <1>1, <1>3, <1>4 DEF TicketInv, TrylockBehind
  <2> QED  BY <2>1, <2>5, <2>6 DEF TicketInv
<1> DEFINE q == T!QueueOf(Waiting)
<1>8. q' = q
  BY <1>3, <1>4, <1>5, <1>7, SameQueue DEF T!Queueing
<1>9. q \in Seq(Tasks) /\ q # <<>> /\ Head(q) = t
  <2>1. QueueInOrder /\ Waiting \in Nat /\ 0 < Waiting
    BY <1>3, <1>6, QueueInOrderHolds, QueueingFinite DEF TicketInv, TicketsDealt
  <2>2. q \in Seq(Tasks) /\ Len(q) = Waiting /\ q[1] = t
    BY <1>3, <1>6, <2>1, SMTT(30) DEF QueueInOrder
  <2> HIDE DEF q
  <2> QED  BY <2>1, <2>2, SMTT(30)
<1>10. Inside' = {t}
  <2>1. \A u \in Tasks : ticket_pc[u] = "in" => u = t
    BY <1>3, <1>6 DEF TicketInv, TicketsDealt, T!Queueing
  <2> QED  BY <1>2, <2>1 DEF Inside
<1>11. T!Fifo!Enter(t)
  BY <1>8, <1>9, <1>10, <1>7, QueueLength DEF T!Fifo!Enter, Inside, Dealt
<1> QED  BY <1>7, <1>11 DEF TicketAbstractStep, T!Fifo!Next

\* ticket_spinlock_unlock serves the next ticket: the first of the queue leaves.
LEMMA UnlockLeaves ==
  ASSUME TicketInv, NEW t \in Tasks, T!Unlock(t)
  PROVE  TicketInv' /\ TicketAbstractStep
<1>1. /\ ticket_pc[t] = "in" /\ serving_ticket' = T!Plus1(serving_ticket)
      /\ my_ticket' = [my_ticket EXCEPT ![t] = 0] /\ T!Goto(t, "out")
      /\ UNCHANGED <<next_ticket, span>>
  BY DEF T!Unlock
<1>2. /\ ticket_pc'[t] = "out" /\ ticket_pc' \in [Tasks -> TicketPcs]
      /\ \A u \in Tasks \ {t} : ticket_pc'[u] = ticket_pc[u]
  BY <1>1, TicketGoto DEF TicketInv, TicketPcs
<1>3. T!Queueing' = T!Queueing \ {t} /\ t \in T!Queueing /\ T!Trying' = T!Trying
  BY <1>1, <1>2 DEF T!Queueing, T!Trying
<1>4. Waiting' = Waiting - 1 /\ Waiting' \in Nat
  <2>1. IsFiniteSet(T!Queueing \ {t}) /\ Cardinality(T!Queueing \ {t}) = Cardinality(T!Queueing) - 1
    BY <1>3, QueueingFinite, FS_RemoveElement
  <2> QED  BY <1>3, <2>1, FS_CardinalityType DEF Waiting
<1>5. T!Distance(t) = 0 /\ \A u \in T!Queueing \ {t} : T!Distance(u) # 0
  BY <1>1, <1>3 DEF TicketInv, TicketsDealt
<1>6. \A u \in T!Queueing \ {t} : T!Distance(u)' = T!Distance(u) - 1 /\ T!Distance(u) \in Nat
  <2> SUFFICES ASSUME NEW u \in T!Queueing \ {t}
               PROVE  T!Distance(u)' = T!Distance(u) - 1 /\ T!Distance(u) \in Nat
    OBVIOUS
  <2>1. my_ticket[u] \in T!Ticket /\ serving_ticket \in T!Ticket /\ my_ticket'[u] = my_ticket[u]
    BY <1>1 DEF TicketInv, TicketTypes, T!Queueing
  <2>2. my_ticket[u] # serving_ticket
    BY <1>5, <2>1, TicketArithmetic DEF T!Distance
  <2>3. T!Minus(my_ticket[u], T!Plus1(serving_ticket)) = T!Minus(my_ticket[u], serving_ticket) - 1
        /\ T!Minus(my_ticket[u], serving_ticket) \in T!Ticket
    BY <2>1, <2>2, TicketArithmetic
  <2>4. T!Distance(u)' = T!Minus(my_ticket'[u], serving_ticket')
    BY DEF T!Distance, T!Minus
  <2> QED  BY <1>1, <2>1, <2>3, <2>4, SMTT(30) DEF T!Distance, T!Ticket
<1>7. serving_ticket' \in T!Ticket /\ T!Minus(next_ticket, serving_ticket)' = Waiting - 1
  <2>1. next_ticket \in T!Ticket /\ serving_ticket \in T!Ticket /\ T!Minus(next_ticket, serving_ticket) = Waiting
    BY DEF TicketInv, TicketTypes, TicketsDealt
  <2>2. next_ticket # serving_ticket
    BY <1>4, <2>1, TicketArithmetic, QueueingFinite, SMTT(30)
  <2>3. T!Minus(next_ticket, T!Plus1(serving_ticket)) = Waiting - 1 /\ T!Plus1(serving_ticket) \in T!Ticket
    BY <2>1, <2>2, TicketArithmetic
  <2>4. T!Minus(next_ticket, serving_ticket)' = T!Minus(next_ticket', serving_ticket')
    BY DEF T!Minus
  <2> QED  BY <1>1, <2>3, <2>4
<1>8. TicketTypes'
  <2>1. 0 \in T!Ticket
    BY QueueingFinite, SMTT(30) DEF T!Ticket
  <2> QED  BY <1>1, <1>2, <1>7, <2>1 DEF TicketInv, TicketTypes
<1>9. TicketsDealt'
  <2>1. \A u \in T!Queueing' : T!Distance(u)' < Waiting'
    BY <1>3, <1>4, <1>6, QueueingFinite, SMTT(30) DEF TicketInv, TicketsDealt
  <2>2. \A u, v \in T!Queueing' : T!Distance(u)' = T!Distance(v)' => u = v
    <3>1. \A u, v \in T!Queueing \ {t} : T!Distance(u) - 1 = T!Distance(v) - 1 => u = v
      BY <1>6, SMTT(30) DEF TicketInv, TicketsDealt
    <3> QED  BY <1>3, <1>6, <3>1, SMTT(30)
  <2>3. \A i \in 1 .. Waiting' : \E u \in T!Queueing' : T!Distance(u)' = i - 1
    <3> SUFFICES ASSUME NEW i \in 1 .. Waiting' PROVE \E u \in T!Queueing' : T!Distance(u)' = i - 1
      OBVIOUS
    <3>1. i + 1 \in 1 .. Waiting
      BY <1>4, QueueingFinite, SMTT(30)
    <3>2. PICK u \in T!Queueing : T!Distance(u) = (i + 1) - 1
      BY <3>1 DEF TicketInv, TicketsDealt
    <3>3. u # t
      BY <1>5, <3>2, SMTT(30)
    <3>4. u \in T!Queueing' /\ T!Distance(u)' = i - 1
      BY <1>3, <1>6, <3>2, <3>3, SMTT(30)
    <3> QED  BY <3>4
  <2>4. \A u \in Tasks : ticket_pc'[u] = "in" => T!Distance(u)' = 0
    <3>1. \A u \in Tasks : ticket_pc[u] = "in" => u = t
      BY <1>5 DEF TicketInv, TicketsDealt, T!Queueing
    <3> QED  BY <1>2, <3>1
  <2> QED  BY <1>4, <1>7, <2>1, <2>2, <2>3, <2>4 DEF TicketsDealt
<1>10. TrylockBehind'
  <2> SUFFICES ASSUME NEW u \in T!Trying
               PROVE  T!Minus(next_ticket, my_ticket[u])' = span'[u] /\ Waiting' <= span'[u]
    BY <1>3 DEF TrylockBehind
  <2>1. u \in Tasks \ {t}
    BY <1>1 DEF T!Trying
  <2>2. T!Minus(next_ticket, my_ticket[u])' = T!Minus(next_ticket, my_ticket[u])
    BY <1>1, <2>1 DEF TicketInv, TicketTypes
  <2>3. span[u] \in Nat
    BY <2>1, SMTT(30) DEF TicketInv, TicketTypes, T!Ticket
  <2> QED  BY <1>1, <1>4, <2>2, <2>3, QueueingFinite, SMTT(30) DEF TicketInv, TrylockBehind
<1>11. TicketInv'
  BY <1>8, <1>9, <1>10 DEF TicketInv
<1> DEFINE q == T!QueueOf(Waiting)
<1>12. QueueInOrder /\ QueueInOrder'
  BY <1>11, QueueInOrderHolds, QueueInOrderHoldsNext
<1>13. /\ q \in Seq(Tasks) /\ Len(q) = Waiting /\ q' \in Seq(Tasks) /\ Len(q') = Waiting - 1
       /\ Waiting \in Nat /\ Waiting >= 1
  BY <1>4, <1>12, QueueingFinite, SMTT(30) DEF QueueInOrder
<1>14. ASSUME NEW i \in 1 .. Waiting - 1 PROVE q'[i] = q[i + 1]
  <2>1. i + 1 \in 1 .. Waiting /\ i \in 1 .. Waiting'
    BY <1>4, <1>13, SMTT(30)
  <2>2. PICK u \in T!Queueing : T!Distance(u) = (i + 1) - 1
    BY <2>1 DEF TicketInv, TicketsDealt
  <2>3. u \in T!Queueing' /\ T!Distance(u)' = i - 1
    BY <1>3, <1>5, <1>6, <2>2, SMTT(30)
  <2>4. q[i + 1] = u
    BY <1>12, <2>1, <2>2 DEF QueueInOrder
  <2>5. q'[i] = u
    BY <1>12, <2>1, <2>3 DEF QueueInOrder
  <2> QED  BY <2>4, <2>5
<1>15. Inside = {t} /\ Inside' = {}
  <2>1. \A u \in Tasks : ticket_pc[u] = "in" => u = t
    BY <1>5 DEF TicketInv, TicketsDealt, T!Queueing
  <2> QED  BY <1>1, <1>2, <2>1 DEF Inside
<1> HIDE DEF q
<1>16. q' = Tail(q)
  BY <1>13, <1>14, SMTT(30)
<1>17. T!Fifo!Leave(t)
  BY <1>15, <1>16, <1>11, QueueLength DEF q, T!Fifo!Leave, Inside, Dealt
<1> QED  BY <1>11, <1>17 DEF TicketAbstractStep, T!Fifo!Next

\* The cmpxchg of ticket_spinlockrylock finds next_ticket at the value that
\* serving_ticket had: nobody queues, and the caller is in at once.
LEMMA TrylockEnters ==
  ASSUME TicketInv, NEW t \in Tasks, ticket_pc[t] = "try_cas", T!Unmoved(t),
         T!TakeTicket(t), T!Goto(t, "in"), UNCHANGED serving_ticket
  PROVE  TicketInv' /\ TicketAbstractStep
<1>1. Waiting = 0
  <2>1. t \in T!Trying /\ next_ticket = my_ticket[t] /\ next_ticket \in T!Ticket
    BY DEF T!Trying, T!Unmoved, TicketInv, TicketTypes
  <2>2. T!Minus(next_ticket, my_ticket[t]) = 0
    BY <2>1, TicketArithmetic
  <2> QED  BY <2>1, <2>2, QueueingFinite, SMTT(30) DEF TicketInv, TrylockBehind
<1>2. /\ TicketInv' /\ T!Queueing' = T!Queueing \cup {t} /\ Waiting' = Waiting + 1
      /\ T!Distance(t)' = Waiting
  BY <1>1, TicketTaken
<1> DEFINE q == T!QueueOf(Waiting)
<1>3. QueueInOrder /\ QueueInOrder'
  BY <1>2, QueueInOrderHolds, QueueInOrderHoldsNext
<1>4. q \in Seq(Tasks) /\ Len(q) = 0 /\ q' \in Seq(Tasks) /\ Len(q') = 1
  BY <1>1, <1>2, <1>3, SMTT(30) DEF QueueInOrder
<1>5. q'[1] = t
  <2>1. t \in T!Queueing' /\ 1 \in 1 .. Waiting' /\ T!Distance(t)' = 1 - 1
    BY <1>1, <1>2, SMTT(30)
  <2> QED  BY <1>3, <2>1 DEF QueueInOrder
<1>6. Inside' = {t}
  <2>1. T!Queueing = {}
    BY <1>1, QueueingFinite, FS_EmptySet DEF Waiting
  <2>2. \A u \in Tasks : ticket_pc[u] # "in"
    BY <2>1 DEF T!Queueing
  <2> QED  BY <2>2, TicketGoto DEF Inside, TicketInv, TicketPcs
<1> HIDE DEF q
<1>7. q = <<>> /\ q' = <<t>>
  BY <1>4, <1>5, SMTT(30)
<1>8. T!Fifo!JoinAndEnter(t)
  BY <1>2, <1>6, <1>7, QueueLength DEF q, T!Fifo!JoinAndEnter, Inside, Dealt
<1> QED  BY <1>2, <1>8 DEF TicketAbstractStep, T!Fifo!Next

LEMMA TrylockFails ==
  ASSUME TicketInv, NEW t \in Tasks, ticket_pc[t] \notin {"wait", "in"}, T!TryFails(t)
  PROVE  TicketInv' /\ TicketAbstractStep
<1>1. 0 \in T!Ticket
  BY QueueingFinite, SMTT(30) DEF T!Ticket
<1>2. /\ my_ticket' \in [Tasks -> T!Ticket] /\ span' \in [Tasks -> T!Ticket]
      /\ \A u \in Tasks \ {t} : my_ticket'[u] = my_ticket[u] /\ span'[u] = span[u]
  BY <1>1 DEF T!TryFails, TicketInv, TicketTypes
<1> QED  BY <1>2, TrylockSilent DEF T!TryFails

LEMMA TicketInductive ==
  ASSUME TicketInv, [T!Next]_ticket_vars
  PROVE  TicketInv' /\ TicketAbstractStep
<1>1. ASSUME NEW t \in Tasks, T!TryServing(t) PROVE TicketInv' /\ TicketAbstractStep
  <2>1. T!Minus(next_ticket, serving_ticket) \in T!Ticket /\ T!Minus(next_ticket, serving_ticket) = Waiting
    BY TicketArithmetic DEF TicketInv, TicketTypes, TicketsDealt
  <2>2. /\ my_ticket' \in [Tasks -> T!Ticket] /\ span' \in [Tasks -> T!Ticket]
        /\ \A u \in Tasks \ {t} : my_ticket'[u] = my_ticket[u] /\ span'[u] = span[u]
        /\ my_ticket'[t] = serving_ticket /\ span'[t] = Waiting
        /\ T!Goto(t, "try_next") /\ UNCHANGED <<next_ticket, serving_ticket>> /\ ticket_pc[t] = "out"
    BY <1>1, <2>1 DEF T!TryServing, TicketInv, TicketTypes
  <2> QED  BY <2>1, <2>2, TrylockSilent, QueueingFinite, SMTT(30)
<1>2. ASSUME NEW t \in Tasks, T!TryNext(t) PROVE TicketInv' /\ TicketAbstractStep
  <2>1. CASE T!TryFails(t)
    BY <1>2, <2>1, TrylockFails DEF T!TryNext
  <2>2. CASE T!Goto(t, "try_cas") /\ UNCHANGED <<next_ticket, serving_ticket, my_ticket, span>>
    <3>1. ticket_pc[t] = "try_next" /\ t \in T!Trying
      BY <1>2 DEF T!TryNext, T!Trying
    <3> QED  BY <2>2, <3>1, TrylockSilent DEF TicketInv, TicketTypes, TrylockBehind
  <2> QED  BY <1>2, <2>1, <2>2 DEF T!TryNext
<1>3. ASSUME NEW t \in Tasks, T!TryCas(t) PROVE TicketInv' /\ TicketAbstractStep
  BY <1>3, TrylockEnters, TrylockFails DEF T!TryCas
<1>4. CASE UNCHANGED ticket_vars
  <2>1. /\ T!Queueing' = T!Queueing /\ T!Trying' = T!Trying /\ Inside' = Inside
        /\ \A t \in Tasks : T!Distance(t)' = T!Distance(t)
        /\ UNCHANGED <<next_ticket, serving_ticket, my_ticket, span, ticket_pc>>
    BY <1>4 DEF ticket_vars, T!Queueing, T!Trying, Inside, T!Distance
  <2>2. Waiting' = Waiting /\ T!Minus(next_ticket, serving_ticket)' = T!Minus(next_ticket, serving_ticket)
    BY <2>1 DEF Waiting
  <2>3. TicketTypes' /\ TrylockBehind'
    BY <2>1, <2>2 DEF TicketInv, TicketTypes, TrylockBehind
  <2>4. TicketsDealt'
    BY <2>1, <2>2, SMTT(30) DEF TicketInv, TicketsDealt, T!Queueing
  <2>5. T!QueueOf(Waiting)' = T!QueueOf(Waiting)
    BY <2>1, <2>2, <2>3, <2>4, SameQueue DEF TicketInv, T!Queueing
  <2> QED  BY <2>1, <2>3, <2>4, <2>5, QueueLength DEF TicketInv, TicketAbstractStep
<1> QED  BY <1>1, <1>2, <1>3, <1>4, LockJoins, WaitEnters, UnlockLeaves DEF T!Next, T!Step

LEMMA InitTicketInv ==
  ASSUME T!Init
  PROVE  TicketInv /\ T!Fifo!Init
<1>1. T!Queueing = {} /\ T!Trying = {} /\ Inside = {}
  BY DEF T!Init, T!Queueing, T!Trying, Inside
<1>2. Waiting = 0
  BY <1>1, FS_EmptySet DEF Waiting
<1>3. Dealt = 0
  BY TicketArithmetic DEF T!Init, Dealt
<1>4. TicketTypes
  <2>1. 0 \in T!Ticket
    BY QueueingFinite, SMTT(30) DEF T!Ticket
  <2> QED  BY <2>1 DEF T!Init, TicketTypes, TicketPcs
<1>5. TicketInv
  <2>1. \A t \in Tasks : ticket_pc[t] # "in"
    BY <1>1 DEF Inside
  <2>2. 1 .. Waiting = {}
    BY <1>2, SMTT(30)
  <2> QED  BY <1>1, <1>2, <1>3, <1>4, <2>1, <2>2 DEF TicketInv, TicketsDealt, TrylockBehind, Dealt
<1>6. T!QueueOf(Dealt) = <<>>
  <2>1. T!QueueOf(Dealt) \in Seq(Tasks) /\ Len(T!QueueOf(Dealt)) = 0
    BY <1>2, <1>3, <1>5, QueueInOrderHolds DEF QueueInOrder
  <2> QED  BY <2>1, SMTT(30)
<1> QED  BY <1>1, <1>5, <1>6 DEF T!Fifo!Init, Inside, Dealt

\* The ticket lock is the abstract queue: tasks enter one at a time, in the order
\* in which ticket_spinlock_lock gave them their tickets, whatever the ticket numbers
\* wrap around to and whenever ticket_spinlockrylock is called.
THEOREM TicketLockRefined == LocksSpec => RefinesFifoLock
<1>1. LocksInit => TicketInv /\ T!Fifo!Init
  BY InitTicketInv DEF LocksInit
<1>2. TicketInv /\ [LocksNext]_all_vars => TicketInv' /\ [T!Fifo!Next]_<<T!QueueOf(Dealt), Inside>>
  <2> SUFFICES ASSUME TicketInv, [LocksNext]_all_vars
               PROVE  TicketInv' /\ [T!Fifo!Next]_<<T!QueueOf(Dealt), Inside>>
    OBVIOUS
  <2>1. [T!Next]_ticket_vars
    BY DEF LocksNext, OnlySpin, OnlyRw, OnlyTicket, all_vars
  <2> QED  BY <2>1, TicketInductive DEF TicketAbstractStep
<1> QED  BY <1>1, <1>2, PTL
         DEF LocksSpec, RefinesFifoLock, T!RefinesFifoLock, T!Fifo!Spec, Dealt, Inside
=============================================================================
