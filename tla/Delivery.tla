------------------------------- MODULE Delivery -------------------------------
(***************************************************************************)
(* What the transactional outbox promises, without relays, leases or       *)
(* retries: a message committed with its transaction is delivered at least *)
(* once, and is confirmed in the table only after it was delivered.        *)
(***************************************************************************)
CONSTANT Rows

VARIABLES requested, delivered, confirmed

vars == <<requested, delivered, confirmed>>

Init == requested = {} /\ delivered = {} /\ confirmed = {}

Request(x) ==
  /\ x \notin requested
  /\ requested' = requested \cup {x}
  /\ UNCHANGED <<delivered, confirmed>>

Deliver(x) ==
  /\ x \in requested
  /\ delivered' = delivered \cup {x}
  /\ UNCHANGED <<requested, confirmed>>

Confirm(x) ==
  /\ x \in delivered
  /\ confirmed' = confirmed \cup {x}
  /\ UNCHANGED <<requested, delivered>>

Next == \E x \in Rows : Request(x) \/ Deliver(x) \/ Confirm(x)

Safety == Init /\ [][Next]_vars

Spec == Safety /\ \A x \in Rows : WF_vars(Deliver(x)) /\ WF_vars(Confirm(x))
===============================================================================
