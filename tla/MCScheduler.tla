---------------------------- MODULE MCScheduler ----------------------------
(* Small instances of Scheduler for TLC. *)
EXTENDS Scheduler

CONSTANTS p0, p1, t1, t2, t3, t4

Silent == [eax |-> 0, ebx |-> 0, ecx |-> 0]
Machine(leaf15, leaf16, second) ==
  [leaf15 |-> leaf15, leaf16 |-> leaf16, second |-> second, per_count |-> 160, hz |-> 960000000]

\* Every source in turn, with the later ones silent or wrong; a leaf 0x15 below one
\* megahertz; a timer that does not count.
Machines1 ==
  LET crystal == [eax |-> 2, ebx |-> 80, ecx |-> 24000000]
      none == Machine(Silent, 0, 5000000) IN
  { Machine(crystal, 0, 5000000), Machine([crystal EXCEPT !.ecx = 0], 960, 2000000000),
    Machine(Silent, 0, 960000000), [Machine(Silent, 0, 960999999) EXCEPT !.hz = 960999999],
    Machine([eax |-> 80, ebx |-> 2, ecx |-> 24000000], 0, 960000000), none,
    [none EXCEPT !.per_count = 0] }
=============================================================================
