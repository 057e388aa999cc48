---------------------------- MODULE PageAllocator ----------------------------
(***************************************************************************)
(* What a physical memory allocator promises its callers: memory is put    *)
(* into the pool before the pool opens; from then on each piece of it is   *)
(* handed out to one holder at a time and comes back, whole, when that     *)
(* holder releases it.                                                     *)
(***************************************************************************)
EXTENDS Integers

VARIABLES
  open,   \* the pool has been filled
  avail,  \* the bytes nobody holds
  held    \* the pieces handed out: address and size

pool == <<open, avail, held>>

Piece(x) == x.addr .. x.addr + x.size - 1

Init == open = FALSE /\ avail = {} /\ held = {}

Fill ==
  /\ ~open
  /\ open' \in BOOLEAN
  /\ avail \subseteq avail'
  /\ UNCHANGED held

Grant(x) ==
  /\ open
  /\ Piece(x) \subseteq avail
  /\ avail' = avail \ Piece(x)
  /\ held' = held \cup {x}
  /\ UNCHANGED open

Release(x) ==
  /\ open
  /\ avail' = avail \cup Piece(x)
  /\ held' = held \ {x}
  /\ UNCHANGED open

Next ==
  \/ Fill
  \/ \E x \in held' \ held : Grant(x)
  \/ \E x \in held \ held' : Release(x)

Spec == Init /\ [][Next]_pool
=============================================================================
