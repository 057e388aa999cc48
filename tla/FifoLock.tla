------------------------------ MODULE FifoLock ------------------------------
(***************************************************************************)
(* What a fair lock promises: callers queue up, and the lock passes to     *)
(* them in the order in which they came.  Only the first of the queue can  *)
(* be inside.                                                              *)
(***************************************************************************)
EXTENDS Sequences

CONSTANT Threads
VARIABLES queue, inside

Init == queue = <<>> /\ inside = {}

Join(t) ==
  /\ \A i \in DOMAIN queue : queue[i] # t
  /\ queue' = Append(queue, t)
  /\ UNCHANGED inside

Enter(t) == queue # <<>> /\ t = Head(queue) /\ inside' = {t} /\ UNCHANGED queue

\* A call that does not wait gets in only if nobody is queueing.
JoinAndEnter(t) == queue = <<>> /\ queue' = <<t>> /\ inside' = {t}

Leave(t) == inside = {t} /\ inside' = {} /\ queue' = Tail(queue)

Next == \E t \in Threads : Join(t) \/ Enter(t) \/ JoinAndEnter(t) \/ Leave(t)

Spec == Init /\ [][Next]_<<queue, inside>>
=============================================================================
