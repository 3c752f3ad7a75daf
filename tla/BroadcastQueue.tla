--------------------------- MODULE BroadcastQueue ---------------------------
(***************************************************************************)
(* What the ring of examples promises its users, with no ring in it: a     *)
(* bounded queue that every reader reads completely and in order.  An      *)
(* entry is a number; it leaves the queue when every reader has released   *)
(* it, and the writer never gets more than Capacity entries ahead of the   *)
(* slowest reader.                                                         *)
(***************************************************************************)
EXTENDS Integers

CONSTANTS Readers, Capacity

VARIABLES
  written,   \* entries 1..written have been published
  taken,     \* taken[r]: reader r has taken the entries 1..taken[r]
  released,  \* released[r]: reader r is through with 1..released[r]
  closed     \* the writer will publish nothing more

queue == <<written, taken, released, closed>>

Init ==
  /\ written = 0
  /\ taken = [r \in Readers |-> 0]
  /\ released = [r \in Readers |-> 0]
  /\ closed = FALSE

Write ==
  /\ ~closed
  /\ \A r \in Readers : written - released[r] < Capacity
  /\ written' = written + 1
  /\ UNCHANGED <<taken, released, closed>>

\* A reader takes one entry at a time.
Take(r) ==
  /\ taken[r] < written
  /\ taken[r] = released[r]
  /\ taken' = [taken EXCEPT ![r] = @ + 1]
  /\ UNCHANGED <<written, released, closed>>

Release(r) ==
  /\ released[r] < taken[r]
  /\ released' = [released EXCEPT ![r] = @ + 1]
  /\ UNCHANGED <<written, taken, closed>>

Close ==
  /\ ~closed
  /\ closed' = TRUE
  /\ UNCHANGED <<written, taken, released>>

Next ==
  \/ Write
  \/ Close
  \/ \E r \in Readers : Take(r) \/ Release(r)

Spec == Init /\ [][Next]_queue
=============================================================================
