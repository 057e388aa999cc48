---------------------------- MODULE ReadersWriter ----------------------------
(***************************************************************************)
(* What a readers-writer lock promises: a writer is alone, readers are     *)
(* together.                                                               *)
(***************************************************************************)
CONSTANT Threads
VARIABLES readers, writers

Init == readers = {} /\ writers = {}

EnterRead(t) == writers = {} /\ readers' = readers \cup {t} /\ UNCHANGED writers
LeaveRead(t) == t \in readers /\ readers' = readers \ {t} /\ UNCHANGED writers
EnterWrite(t) == readers = {} /\ writers = {} /\ writers' = {t} /\ UNCHANGED readers
LeaveWrite(t) == t \in writers /\ writers' = {} /\ UNCHANGED readers

Next ==
  \E t \in Threads : EnterRead(t) \/ LeaveRead(t) \/ EnterWrite(t) \/ LeaveWrite(t)

Spec == Init /\ [][Next]_<<readers, writers>>
=============================================================================
