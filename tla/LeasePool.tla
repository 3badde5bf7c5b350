------------------------------ MODULE LeasePool ------------------------------
(***************************************************************************)
(* What the broker promises about leases, without queues, handlers or      *)
(* sandboxes: sessions enter a pool that never holds more than Cap of them *)
(* and leave it in any order.                                              *)
(***************************************************************************)
EXTENDS Integers, FiniteSets

CONSTANTS Sessions, Cap

VARIABLE held  \* the sessions that hold a lease

TypeInv == held \subseteq Sessions

Init == held = {}

\* A lease is granted, at once or through a ticket.
Admit(s) ==
  /\ s \notin held /\ Cardinality(held) < Cap
  /\ held' = held \cup {s}

\* A lease ends: released when the session is idle or deleted.
Leave(s) == s \in held /\ held' = held \ {s}

Next == \E s \in Sessions : Admit(s) \/ Leave(s)

Spec == Init /\ [][Next]_held
=============================================================================
