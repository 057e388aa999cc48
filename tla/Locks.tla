------------------------------- MODULE Locks -------------------------------
(***************************************************************************)
(* The three locks of spinlock.h.  They share no state, so a behaviour     *)
(* exercises one of them: the spinlock by preempted tasks, the others by   *)
(* tasks that run side by side.                                            *)
(***************************************************************************)
EXTENDS Spinlock, FiniteSets

CONSTANTS RWLOCK_WRITER_MASK, Trylockers, TICKET_MOD

ASSUME LocksAssumption ==
  /\ IsFiniteSet(Tasks) /\ Trylockers \subseteq Tasks
  /\ RWLOCK_WRITER_MASK \in Nat \ {0}
  /\ TICKET_MOD \in Nat /\ TICKET_MOD > Cardinality(Tasks)

VARIABLES
  kind,                                     \* the lock that is exercised
  rw_lock, rw_old_val, rw_pc,               \* of RWLock
  next_ticket, serving_ticket, my_ticket,   \* of TicketLock
  span, ticket_pc

R == INSTANCE RWLock WITH Threads <- Tasks, lock <- rw_lock, old_val <- rw_old_val, pc <- rw_pc
T == INSTANCE TicketLock WITH Threads <- Tasks, pc <- ticket_pc

rw_vars == <<rw_lock, rw_old_val, rw_pc>>
ticket_vars == <<next_ticket, serving_ticket, my_ticket, span, ticket_pc>>
all_vars == <<kind, vars, rw_vars, ticket_vars>>

LocksInit ==
  /\ kind \in {"spin", "rw", "ticket"}
  /\ Init /\ R!Init /\ T!Init
  /\ kind # "spin" => running = CHOOSE r \in [Cpus -> Tasks] : \A c \in Cpus : cpu_of[r[c]] = c
  /\ kind # "ticket" => next_ticket = 0

OnlySpin == kind = "spin" /\ UNCHANGED <<kind, rw_vars, ticket_vars>>
OnlyRw == kind = "rw" /\ UNCHANGED <<kind, vars, ticket_vars>>
OnlyTicket == kind = "ticket" /\ UNCHANGED <<kind, vars, rw_vars>>

LocksNext ==
  \/ Next /\ OnlySpin
  \/ R!Next /\ OnlyRw
  \/ T!Next /\ OnlyTicket

\* A processor executes the instructions of the task it runs, and a task that holds
\* a lock comes to release it (no code waits for anything else under a lock).
LocksSpec ==
  /\ LocksInit /\ [][LocksNext]_all_vars
  /\ \A t \in Tasks : /\ WF_all_vars(LockStep(t) /\ OnlySpin)
                      /\ WF_all_vars(R!Step(t) /\ OnlyRw)
                      /\ WF_all_vars(T!Step(t) /\ OnlyTicket)

-----------------------------------------------------------------------------
(* Properties *)

\* The readers-writer lock keeps its abstract promise (see RWLock).
RefinesReadersWriter == R!RefinesReadersWriter

\* The ticket lock is a first-come first-served queue (see TicketLock).
RefinesFifoLock == T!RefinesFifoLock

\* No task that calls ticket_spinlock_lock waits for ever, and while somebody waits
\* for the readers-writer lock, somebody gets it (which one is not promised: readers
\* can keep a writer out).
EveryoneIsServed ==
  /\ \A t \in Tasks : ticket_pc[t] = "wait" ~> ticket_pc[t] = "in"
  /\ (\E t \in Tasks : rw_pc[t] \in {"read_lock", "read_cas", "write_lock", "write_spin"})
       ~> R!Readers \cup R!Writers # {}

\* "Make sure we don't overflow into writer bit" (see RWLock).
NoOverflowIntoWriterBit == R!NoOverflowIntoWriterBit
=============================================================================
