----------------------------- MODULE TicketLock -----------------------------
(***************************************************************************)
(* The ticket spinlock of spinlock.h.  Tickets are ints and wrap around.   *)
(***************************************************************************)
EXTENDS Integers, Sequences

CONSTANTS
  Threads,
  Trylockers,    \* the threads that call ticket_spinlockrylock
  TICKET_MOD     \* 2^32 in the code

VARIABLES
  next_ticket, serving_ticket,
  my_ticket,     \* of each thread: its ticket, or in a trylock the value serving
                 \* (which next must equal); 0 when it is not going to be used
  span,          \* how far next_ticket has moved on during a trylock (bound)
  pc

vars == <<next_ticket, serving_ticket, my_ticket, span, pc>>

Ticket == 0 .. TICKET_MOD - 1
Plus1(n) == (n + 1) % TICKET_MOD
Minus(m, n) == (m - n) % TICKET_MOD

\* ticket_spinlock_init; the lock may have been used any number of times since.
Init ==
  /\ next_ticket \in Ticket
  /\ serving_ticket = next_ticket
  /\ my_ticket = [t \in Threads |-> 0]
  /\ span = [t \in Threads |-> 0]
  /\ pc = [t \in Threads |-> "out"]

Goto(t, l) == pc' = [pc EXCEPT ![t] = l]
Trying == {t \in Threads : pc[t] \in {"try_next", "try_cas"}}

\* Thread t takes the next ticket.  Fewer than TICKET_MOD tickets are taken while a
\* trylock runs: after 2^32 of them it could mistake the next one for the one it read.
TakeTicket(t) ==
  /\ next_ticket' = Plus1(next_ticket)
  /\ my_ticket' = [my_ticket EXCEPT ![t] = next_ticket]
  /\ \A u \in Trying \ {t} : span[u] < TICKET_MOD - 1
  /\ span' = [u \in Threads |-> IF u \in Trying \ {t} THEN span[u] + 1 ELSE 0]

\* ticket_spinlock_lock: atomic_add_return, and the wait.
Lock(t) ==
  /\ pc[t] = "out"
  /\ TakeTicket(t)
  /\ Goto(t, "wait")
  /\ UNCHANGED serving_ticket

Served_WhenFree(t) == \A u \in Threads : pc[u] # "in"

Served(t) == serving_ticket = my_ticket[t]

Wait(t) ==
  /\ pc[t] = "wait" /\ Served(t)
  /\ Goto(t, "in")
  /\ UNCHANGED <<next_ticket, serving_ticket, my_ticket, span>>

\* ticket_spinlockrylock: two loads, the comparison, the cmpxchg.
TryServing(t) ==
  /\ pc[t] = "out" /\ t \in Trylockers
  /\ my_ticket' = [my_ticket EXCEPT ![t] = serving_ticket]
  /\ span' = [span EXCEPT ![t] = Minus(next_ticket, serving_ticket)]
  /\ Goto(t, "try_next")
  /\ UNCHANGED <<next_ticket, serving_ticket>>

TryFails(t) ==
  /\ Goto(t, "out")
  /\ my_ticket' = [my_ticket EXCEPT ![t] = 0]
  /\ span' = [span EXCEPT ![t] = 0]
  /\ UNCHANGED <<next_ticket, serving_ticket>>

TryNext(t) ==
  /\ pc[t] = "try_next"
  /\ IF my_ticket[t] = next_ticket
       THEN Goto(t, "try_cas") /\ UNCHANGED <<next_ticket, serving_ticket, my_ticket, span>>
       ELSE TryFails(t)

Unmoved_Assumed(t) == TRUE

Unmoved(t) == next_ticket = my_ticket[t]

TryCas(t) ==
  /\ pc[t] = "try_cas"
  /\ IF Unmoved(t)
       THEN TakeTicket(t) /\ Goto(t, "in") /\ UNCHANGED serving_ticket
       ELSE TryFails(t)

\* ticket_spinlock_unlock: atomic_inc
Unlock(t) ==
  /\ pc[t] = "in"
  /\ serving_ticket' = Plus1(serving_ticket)
  /\ my_ticket' = [my_ticket EXCEPT ![t] = 0]
  /\ Goto(t, "out")
  /\ UNCHANGED <<next_ticket, span>>

Step(t) == Wait(t) \/ TryNext(t) \/ TryCas(t) \/ Unlock(t)

Next == \E t \in Threads : Lock(t) \/ TryServing(t) \/ Step(t)

-----------------------------------------------------------------------------
(* Properties *)

\* The threads with a ticket, in the order in which they will be served.
Distance(t) == Minus(my_ticket[t], serving_ticket)
Queueing == {t \in Threads : pc[t] \in {"wait", "in"}}
QueueOf(n) == [i \in 1 .. n |-> CHOOSE t \in Queueing : Distance(t) = i - 1]

\* The lock is a queue: threads enter one at a time and in the order in which
\* they took their tickets, also when the ticket numbers wrap around and when
\* trylock calls come in between.
Fifo == INSTANCE FifoLock WITH
  queue <- QueueOf(Minus(next_ticket, serving_ticket)),
  inside <- {t \in Threads : pc[t] = "in"}
RefinesFifoLock == Fifo!Spec
=============================================================================
