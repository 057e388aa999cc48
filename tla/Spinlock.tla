------------------------------ MODULE Spinlock ------------------------------
(***************************************************************************)
(* spinlock_lock_intsave and spinlock_unlock_intrestore of spinlock.h, by  *)
(* tasks of several processors that the timer interrupt preempts whenever  *)
(* their processor's interrupt flag is set.                                *)
(*                                                                         *)
(* A task may take a lock while it holds another, as kmalloc does when     *)
(* slab_create prints under kmalloc_lock; locks are numbered in the order  *)
(* in which the kernel nests them.  Memory accesses are sequentially       *)
(* consistent: the lock is taken by xchg and released after mfence.        *)
(***************************************************************************)
EXTENDS Integers

CONSTANTS
  Cpus,
  Tasks,
  cpu_of,        \* the processor of a task
  Locks          \* a set of numbers: a lock is taken before the larger ones

ASSUME SpinlockAssumption ==
  /\ cpu_of \in [Tasks -> Cpus]
  /\ \A c \in Cpus : \E t \in Tasks : cpu_of[t] = c
  /\ Locks \subseteq Nat /\ Locks # {}

VARIABLES
  lock,          \* lock[l].lock.value
  IF_flag,       \* the interrupt flag of each processor
  running,       \* the task each processor runs
  saved_IF,      \* the interrupt flag in a preempted task's context
  pc,            \* "idle" (outside the lock functions), "xchg", "spin", "restore"
  target,        \* the lock the task is taking or releasing
  held,          \* the locks a task has taken and not released (ghost)
  flags          \* the caller's variable flags of each lock call

vars == <<lock, IF_flag, running, saved_IF, pc, target, held, flags>>

Init ==
  /\ lock = [l \in Locks |-> 0]
  /\ IF_flag = [c \in Cpus |-> TRUE]
  /\ running \in {r \in [Cpus -> Tasks] : \A c \in Cpus : cpu_of[r[c]] = c}
  /\ saved_IF = [t \in Tasks |-> TRUE]
  /\ pc = [t \in Tasks |-> "idle"]
  /\ target = [t \in Tasks |-> CHOOSE l \in Locks : TRUE]
  /\ held = [t \in Tasks |-> {}]
  /\ flags = [t \in Tasks |-> [l \in Locks |-> FALSE]]

Runs(t) == running[cpu_of[t]] = t

\* The kernel takes a lock only while it holds smaller ones.
MayTake_AnyOrder(t, l) == l \notin held[t]

MayTake(t, l) == \A m \in held[t] : m < l

\* save_and_disable_interrupts, the first half of spinlock_lock_intsave
Cli_Forgotten(t) == UNCHANGED IF_flag

Cli(t) == IF_flag' = [IF_flag EXCEPT ![cpu_of[t]] = FALSE]

SaveAndDisable(t, l) ==
  /\ Runs(t) /\ pc[t] = "idle" /\ MayTake(t, l)
  /\ flags' = [flags EXCEPT ![t][l] = IF_flag[cpu_of[t]]]
  /\ Cli(t)
  /\ target' = [target EXCEPT ![t] = l]
  /\ pc' = [pc EXCEPT ![t] = "xchg"]
  /\ UNCHANGED <<lock, running, saved_IF, held>>

\* while (atomic_xchg(&lock->lock, 1) != 0)
Xchg(t) ==
  /\ Runs(t) /\ pc[t] = "xchg"
  /\ lock' = [lock EXCEPT ![target[t]] = 1]
  /\ \/ /\ lock[target[t]] = 0
        /\ held' = [held EXCEPT ![t] = @ \cup {target[t]}]
        /\ pc' = [pc EXCEPT ![t] = "idle"]
     \/ /\ lock[target[t]] # 0
        /\ pc' = [pc EXCEPT ![t] = "spin"]
        /\ UNCHANGED held
  /\ UNCHANGED <<IF_flag, running, saved_IF, target, flags>>

\* while (atomic_read(&lock->lock) != 0) cpu_pause();
Spin(t) ==
  /\ Runs(t) /\ pc[t] = "spin"
  /\ pc' = [pc EXCEPT ![t] = IF lock[target[t]] = 0 THEN "xchg" ELSE "spin"]
  /\ UNCHANGED <<lock, IF_flag, running, saved_IF, target, held, flags>>

\* spinlock_unlock, the first half of spinlock_unlock_intrestore.  Calls are
\* nested: the lock taken last is released first.
Unlock(t) ==
  /\ Runs(t) /\ pc[t] = "idle"
  /\ \E l \in held[t] :
       /\ \A m \in held[t] : m <= l
       /\ lock' = [lock EXCEPT ![l] = 0]
       /\ held' = [held EXCEPT ![t] = @ \ {l}]
       /\ target' = [target EXCEPT ![t] = l]
  /\ pc' = [pc EXCEPT ![t] = "restore"]
  /\ UNCHANGED <<IF_flag, running, saved_IF, flags>>

\* restore_interrupts, the second half of spinlock_unlock_intrestore
Restored_Forgotten(t) == IF_flag[cpu_of[t]]

Restored(t) == flags[t][target[t]]

RestoreInterrupts(t) ==
  /\ Runs(t) /\ pc[t] = "restore"
  /\ IF_flag' = [IF_flag EXCEPT ![cpu_of[t]] = Restored(t)]
  /\ pc' = [pc EXCEPT ![t] = "idle"]
  /\ UNCHANGED <<lock, running, saved_IF, target, held, flags>>

\* The timer interrupt: the context with its flags is saved, another task's
\* context is loaded by iretq.
TimerInterrupt(c) ==
  /\ IF_flag[c]
  /\ saved_IF' = [saved_IF EXCEPT ![running[c]] = IF_flag[c]]
  /\ \E t \in Tasks \ {running[c]} :
       /\ cpu_of[t] = c
       /\ running' = [running EXCEPT ![c] = t]
       /\ IF_flag' = [IF_flag EXCEPT ![c] = saved_IF[t]]
  /\ UNCHANGED <<lock, pc, target, held, flags>>

LockStep(t) == Xchg(t) \/ Spin(t) \/ Unlock(t) \/ RestoreInterrupts(t)

Next ==
  \/ \E t \in Tasks, l \in Locks : SaveAndDisable(t, l)
  \/ \E t \in Tasks : LockStep(t)
  \/ \E c \in Cpus : TimerInterrupt(c)

Spec == Init /\ [][Next]_vars

-----------------------------------------------------------------------------
(* Properties *)

TypeOK ==
  /\ lock \in [Locks -> {0, 1}]
  /\ IF_flag \in [Cpus -> BOOLEAN]
  /\ running \in [Cpus -> Tasks]
  /\ saved_IF \in [Tasks -> BOOLEAN]
  /\ pc \in [Tasks -> {"idle", "xchg", "spin", "restore"}]
  /\ target \in [Tasks -> Locks]
  /\ held \in [Tasks -> SUBSET Locks]
  /\ flags \in [Tasks -> [Locks -> BOOLEAN]]

\* The comment on spinlock_lock_intsave: a holder is never interrupted on its own
\* processor.  A lock that is taken has one holder; and from the cli to the restore of
\* its outermost call a task keeps its processor, so that whoever spins waits for a
\* task that is running.
HolderKeepsProcessor ==
  /\ \A l \in Locks : lock[l] = 1 <=> \E t \in Tasks : l \in held[t]
  /\ \A t, u \in Tasks : t # u => held[t] \cap held[u] = {}
  /\ \A t \in Tasks : held[t] # {} \/ pc[t] # "idle" => Runs(t) /\ ~IF_flag[cpu_of[t]]

\* Nested calls give back the interrupt flag as the outermost found it: outside
\* the lock functions a task runs with interrupts enabled, as it was started.
InterruptsComeBack ==
  \A t \in Tasks :
    Runs(t) /\ pc[t] = "idle" /\ held[t] = {} => IF_flag[cpu_of[t]]

\* Nesting never ends with tasks waiting for each other: while some lock is taken,
\* some lock is going to be released.  (A single lock need not be: its holder may
\* spin on a second lock that the other processors always take first.)
LocksAreReleased == (\E l \in Locks : lock[l] = 1) ~> (\E t \in Tasks : pc[t] = "restore")
=============================================================================
