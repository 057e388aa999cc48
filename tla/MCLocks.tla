------------------------------- MODULE MCLocks -------------------------------
(* A small instance of Locks for TLC: two processors with two tasks and one. *)
EXTENDS Locks

CONSTANTS c1, c2, t1, t2, t3

MCCpuOf == [t \in Tasks |-> IF t = t3 THEN c2 ELSE c1]
=============================================================================
