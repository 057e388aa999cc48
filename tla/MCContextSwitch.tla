-------------------------- MODULE MCContextSwitch --------------------------
(* A small instance of ContextSwitch for TLC: one core with two tasks, one with one. *)
EXTENDS ContextSwitch

CONSTANTS c0, c1, t1, t2, t3

MCCores == {c0, c1}
MCTasks == {t1, t2, t3}
MCQueue == [c \in MCCores |-> IF c = c0 THEN {t1, t2} ELSE {t3}]
MCFirst == [c \in MCCores |-> IF c = c0 THEN t1 ELSE t3]
=============================================================================
