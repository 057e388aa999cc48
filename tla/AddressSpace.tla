---------------------------- MODULE AddressSpace ----------------------------
(***************************************************************************)
(* What the virtual memory manager promises its callers: an address space *)
(* is a table from virtual pages to physical pages.  A range is mapped as  *)
(* a whole or not at all, only where nothing was mapped, onto consecutive  *)
(* physical pages; unmapping takes a whole range away.  A call that fails  *)
(* changes no translation of any space.                                    *)
(***************************************************************************)
EXTENDS Integers

CONSTANTS Spaces,   \* the address spaces
          Kernel,   \* the one that always exists
          VPages,   \* the virtual pages
          PPages,   \* the physical pages, consecutive numbers
          None      \* no translation

VARIABLES live,     \* the spaces that exist
          trans,    \* what each virtual page of each space translates to
          call      \* the call in progress, or NoCall

vars == <<live, trans, call>>

Nothing == [v \in VPages |-> None]
NoCall == [does |-> "nothing"]

Init ==
  /\ live = {Kernel}
  /\ trans = [s \in Spaces |-> Nothing]
  /\ call = NoCall

Create(s) ==
  /\ call = NoCall /\ s \notin live
  /\ live' = live \cup {s}
  /\ UNCHANGED <<trans, call>>

Destroy(s) ==
  /\ call = NoCall /\ s \in live \ {Kernel}
  /\ live' = live \ {s}
  /\ trans' = [trans EXCEPT ![s] = Nothing]
  /\ UNCHANGED call

Map(s, first, last, p) ==
  /\ call = NoCall /\ s \in live
  /\ call' = [does |-> "map", as |-> s, first |-> first, last |-> last, p |-> p]
  /\ UNCHANGED <<live, trans>>

\* The range was free: all of it is mapped.
MapDone ==
  /\ call.does = "map"
  /\ \A v \in call.first .. call.last : trans[call.as][v] = None
  /\ trans' = [trans EXCEPT ![call.as] = [v \in VPages |->
                 IF v \in call.first .. call.last THEN call.p + (v - call.first) ELSE @[v]]]
  /\ call' = NoCall
  /\ UNCHANGED live

\* It was not, or memory for the tables is short: nothing is mapped.
MapFails ==
  /\ call.does = "map"
  /\ call' = NoCall
  /\ UNCHANGED <<live, trans>>

Unmap(s, first, last) ==
  /\ call = NoCall /\ s \in live
  /\ trans' = [trans EXCEPT ![s] = [v \in VPages |->
                 IF v \in first .. last THEN None ELSE @[v]]]
  /\ call' = [does |-> "unmap", as |-> s, first |-> first, last |-> last]
  /\ UNCHANGED live

UnmapDone ==
  /\ call.does = "unmap"
  /\ call' = NoCall
  /\ UNCHANGED <<live, trans>>

Next ==
  \/ \E s \in Spaces :
       \/ Create(s)
       \/ Destroy(s)
       \/ \E first, last \in VPages :
            \/ Unmap(s, first, last)
            \/ \E p \in PPages : Map(s, first, last, p)
  \/ MapDone \/ MapFails \/ UnmapDone

Spec == Init /\ [][Next]_vars
=============================================================================
