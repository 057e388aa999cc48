------------------------------- MODULE RWLock -------------------------------
(***************************************************************************)
(* The readers-writer spinlock of spinlock.h: one word with a writer bit   *)
(* and, below it, the number of readers.  Each access to the word is one   *)
(* step.                                                                   *)
(***************************************************************************)
EXTENDS Integers, FiniteSets

CONSTANTS
  Threads,
  RWLOCK_WRITER_MASK    \* the writer bit; the counter is below it

VARIABLES
  lock,      \* the word, unsigned
  old_val,   \* of each thread; 0 when it is not going to be used
  pc

vars == <<lock, old_val, pc>>

Word == 0 .. 2 * RWLOCK_WRITER_MASK - 1
WriterBit(v) == v >= RWLOCK_WRITER_MASK

Init ==
  /\ lock = 0
  /\ old_val = [t \in Threads |-> 0]
  /\ pc = [t \in Threads |-> "out"]

Goto(t, l) == pc' = [pc EXCEPT ![t] = l]

\* The calls.
Call(t) ==
  /\ pc[t] = "out"
  /\ \E l \in {"read_lock", "read_trylock", "write_lock", "write_trylock"} : Goto(t, l)
  /\ UNCHANGED <<lock, old_val>>

\* atomic_cmpxchg(&lock->lock, old, new), and where its result leads
Cas_Stores(t, old, new, won, lost) == lock' = new /\ Goto(t, won)

Cas(t, old, new, won, lost) ==
  \/ lock = old /\ lock' = new /\ Goto(t, won)
  \/ lock # old /\ UNCHANGED lock /\ Goto(t, lost)

\* rwlock_read_lock: load the word until no writer has it.
ReadLoad(t) ==
  /\ pc[t] = "read_lock"
  /\ ~WriterBit(lock)
  /\ old_val' = [old_val EXCEPT ![t] = lock]
  /\ Goto(t, "read_cas")
  /\ UNCHANGED lock

\* The cmpxchg in the loop condition.  The test for an overflow does not keep
\* it from being executed: continue jumps to the loop condition.
ReadCas(t) ==
  /\ pc[t] = "read_cas"
  /\ Cas(t, old_val[t], (old_val[t] + 1) % (2 * RWLOCK_WRITER_MASK), "reading", "read_lock")
  /\ old_val' = [old_val EXCEPT ![t] = 0]

\* rwlock_read_trylock
TryReadLoad(t) ==
  /\ pc[t] = "read_trylock"
  /\ IF WriterBit(lock) \/ (lock + 1) % RWLOCK_WRITER_MASK = 0
       THEN Goto(t, "out") /\ UNCHANGED old_val
       ELSE Goto(t, "read_trycas") /\ old_val' = [old_val EXCEPT ![t] = lock]
  /\ UNCHANGED lock

TryReadCas(t) ==
  /\ pc[t] = "read_trycas"
  /\ Cas(t, old_val[t], old_val[t] + 1, "reading", "out")
  /\ old_val' = [old_val EXCEPT ![t] = 0]

\* rwlock_read_unlock: atomic_dec
ReadUnlock(t) ==
  /\ pc[t] = "reading"
  /\ lock' = (lock - 1) % (2 * RWLOCK_WRITER_MASK)
  /\ Goto(t, "out")
  /\ UNCHANGED old_val

\* rwlock_write_lock: cmpxchg, and spin until the word is 0.
WriteCas(t) ==
  /\ pc[t] = "write_lock"
  /\ Cas(t, 0, RWLOCK_WRITER_MASK, "writing", "write_spin")
  /\ UNCHANGED old_val

WriteSpin(t) ==
  /\ pc[t] = "write_spin"
  /\ lock = 0
  /\ Goto(t, "write_lock")
  /\ UNCHANGED <<lock, old_val>>

\* rwlock_write_trylock
TryWrite(t) ==
  /\ pc[t] = "write_trylock"
  /\ Cas(t, 0, RWLOCK_WRITER_MASK, "writing", "out")
  /\ UNCHANGED old_val

\* rwlock_write_unlock: atomic_set
WriteUnlock(t) ==
  /\ pc[t] = "writing"
  /\ lock' = 0
  /\ Goto(t, "out")
  /\ UNCHANGED old_val

Step(t) ==
  \/ ReadLoad(t) \/ ReadCas(t) \/ TryReadLoad(t) \/ TryReadCas(t) \/ ReadUnlock(t)
  \/ WriteCas(t) \/ WriteSpin(t) \/ TryWrite(t) \/ WriteUnlock(t)

Next == \E t \in Threads : Call(t) \/ Step(t)

-----------------------------------------------------------------------------
(* Properties *)

Readers == {t \in Threads : pc[t] = "reading"}
Writers == {t \in Threads : pc[t] = "writing"}

\* To its users the lock is the abstract one: readers never overlap a writer and
\* writers never overlap, although load and cmpxchg are separate steps.
RW == INSTANCE ReadersWriter WITH readers <- Readers, writers <- Writers
RefinesReadersWriter == RW!Spec

\* rwlock_read_lock says of its test: "Make sure we don't overflow into writer bit".
\* Readers alone must then never set the writer bit.
NoOverflowIntoWriterBit == WriterBit(lock) => Writers # {}
=============================================================================
