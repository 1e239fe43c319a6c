---------------------------- MODULE IdentityOutbox ----------------------------
(***************************************************************************)
(* The relay of Identity's audit events (kafka/publisher.go, started by    *)
(* cmd/api): every replica of the service polls the same table             *)
(* outbox_events, takes no lease, and publishes in created_at order until  *)
(* a publication fails.  attempts and last_error are written and never     *)
(* read, so they are left out.                                             *)
(***************************************************************************)
EXTENDS Naturals, FiniteSets

CONSTANTS Rows,         \* outbox rows, numbered by created_at
          Relays,       \* replicas of the Identity service
          BatchSize,    \* 100 in the code
          MaxMishaps    \* bound on failed calls and stops

ASSUME OutboxAssumption ==
  /\ Rows \subseteq Nat
  /\ BatchSize \in Nat \ {0}
  /\ MaxMishaps \in Nat
  /\ IsFiniteSet(Relays)

VARIABLES table,      \* outbox_events: published_at
          late,       \* rows committed after a row with a later created_at
          relay,      \* publishBatch in each replica: pc and events not handled
          copies,     \* how often the row's message is in Kafka
          mishaps

vars == <<table, late, relay, copies, mishaps>>

(* A row is absent, pending or published, and a replica works on rows: the *)
(* table has no state for a row that failed.                               *)
TypeOK ==
  /\ table \in [Rows -> {"absent", "pending", "published"}]
  /\ late \subseteq Rows
  /\ relay \in [Relays -> [pc : {"down", "poll", "publish", "mark", "failed"},
                           events : SUBSET Rows]]
  /\ copies \in [Rows -> Nat]
  /\ mishaps \in 0 .. MaxMishaps

Init ==
  /\ table = [x \in Rows |-> "absent"] /\ late = {}
  /\ relay = [r \in Relays |-> [pc |-> "poll", events |-> {}]]
  /\ copies = [x \in Rows |-> 0]
  /\ mishaps = 0

Mishap == mishaps < MaxMishaps /\ mishaps' = mishaps + 1

Goto(r, pc, events) == relay' = [relay EXCEPT ![r] = [pc |-> pc, events |-> events]]

IsHead(r, x) == x \in relay[r].events /\ \A y \in relay[r].events : x <= y

-------------------------------------------------------------------------------
RecordOutbox(x) ==
  /\ table[x] = "absent"
  /\ table' = [table EXCEPT ![x] = "pending"]
  /\ late' = IF \E y \in Rows : y > x /\ table[y] # "absent" THEN late \cup {x} ELSE late
  /\ UNCHANGED <<relay, copies, mishaps>>

Pending == {x \in Rows : table[x] = "pending"}

(* Mutant: no ORDER BY.                                                    *)
IsAnyBatch(events) ==
  /\ events \subseteq Pending
  /\ Cardinality(events) <= BatchSize

(* WHERE published_at IS NULL ORDER BY created_at LIMIT.                   *)
ListPendingOutbox(events) ==
  /\ events \subseteq Pending
  /\ \A x \in events, y \in Pending \ events : x < y
  /\ Cardinality(events) <= BatchSize
  /\ Cardinality(events) < BatchSize => events = Pending

PendingOutbox(r) ==
  /\ relay[r].pc = "poll"
  /\ \E events \in SUBSET Pending :
       events # {} /\ ListPendingOutbox(events) /\ Goto(r, "publish", events)
  /\ UNCHANGED <<table, late, copies, mishaps>>

Delivered(x) == copies' = [copies EXCEPT ![x] = copies[x] + 1]

Publish(r, x) ==
  /\ relay[r].pc = "publish"
  /\ IsHead(r, x)
  /\ Delivered(x)
  /\ Goto(r, "mark", relay[r].events)
  /\ UNCHANGED <<table, late, mishaps>>

(* Mutant: the loop goes on after an error.                                *)
PublishErrorIgnored(r, x) ==
  /\ relay[r].pc = "publish"
  /\ IsHead(r, x)
  /\ Mishap
  /\ UNCHANGED copies \/ Delivered(x)
  /\ Goto(r, "mark", relay[r].events)
  /\ UNCHANGED <<table, late>>

(* An error of the writer does not say whether the broker has the message. *)
PublishError(r, x) ==
  /\ relay[r].pc = "publish"
  /\ IsHead(r, x)
  /\ Mishap
  /\ UNCHANGED copies \/ Delivered(x)
  /\ Goto(r, "failed", relay[r].events)
  /\ UNCHANGED <<table, late>>

(* The rest of the batch is dropped, whether or not the mark succeeds.     *)
MarkOutboxFailed(r) ==
  /\ relay[r].pc = "failed"
  /\ Goto(r, "poll", {})
  /\ UNCHANGED <<table, late, copies, mishaps>>

(* Mutant: the row is not marked.                                          *)
MarkNothing(r, x) ==
  /\ relay[r].pc = "mark"
  /\ IsHead(r, x)
  /\ LET rest == relay[r].events \ {x}
     IN Goto(r, IF rest = {} THEN "poll" ELSE "publish", rest)
  /\ UNCHANGED <<table, late, copies, mishaps>>

MarkOutboxPublished(r, x) ==
  /\ relay[r].pc = "mark"
  /\ IsHead(r, x)
  /\ table' = [table EXCEPT ![x] = "published"]
  /\ LET rest == relay[r].events \ {x}
     IN Goto(r, IF rest = {} THEN "poll" ELSE "publish", rest)
  /\ UNCHANGED <<late, copies, mishaps>>

MarkOutboxPublishedError(r) ==
  /\ relay[r].pc = "mark"
  /\ Mishap
  /\ Goto(r, "poll", {})
  /\ UNCHANGED <<table, late, copies>>

-------------------------------------------------------------------------------
(* A signal cancels the context of the relay, a crash ends the process:    *)
(* the batch in memory is gone either way, what was published is not.      *)
Stop(r) ==
  /\ relay[r].pc # "down"
  /\ Mishap
  /\ Goto(r, "down", {})
  /\ UNCHANGED <<table, late, copies>>

Run(r) ==
  /\ relay[r].pc = "down"
  /\ Goto(r, "poll", {})
  /\ UNCHANGED <<table, late, copies, mishaps>>

RelayStep(r) ==
  \/ PendingOutbox(r) \/ MarkOutboxFailed(r) \/ Run(r)
  \/ \E x \in Rows : Publish(r, x) \/ MarkOutboxPublished(r, x)

RelayFault(r) ==
  MarkOutboxPublishedError(r) \/ Stop(r) \/ \E x \in Rows : PublishError(r, x)

Next ==
  \/ \E x \in Rows : RecordOutbox(x)
  \/ \E r \in Relays : RelayStep(r) \/ RelayFault(r)

(* The ticker polls every two seconds and an orchestrator restarts the     *)
(* process, so a replica keeps going.                                      *)
Fairness == \A r \in Relays : WF_vars(RelayStep(r))

Spec == Init /\ [][Next]_vars /\ Fairness

-------------------------------------------------------------------------------
(* Without leases the replicas duplicate each other's work, but boundedly: *)
(* a message is in Kafka at most once per replica and once more for every  *)
(* failed call or stop.                                                    *)
CopiesBounded == \A x \in Rows : copies[x] <= Cardinality(Relays) + mishaps

(* A row is delivered for the first time only after every row that was     *)
(* committed in created_at order before it: publishBatch stops at the      *)
(* first failure and never skips a row.                                    *)
FirstDeliveriesInOrder ==
  \A x, y \in Rows :
    /\ x < y /\ copies[y] > 0 /\ table[x] # "absent" /\ x \notin late
    => copies[x] > 0

AtLeastOnce == INSTANCE Delivery WITH
  requested <- {x \in Rows : table[x] # "absent"},
  delivered <- {x \in Rows : copies[x] > 0},
  confirmed <- {x \in Rows : table[x] = "published"}

(* Polling replicas without leases still implement at-least-once delivery: *)
(* confirmed only after delivered, and every committed row is eventually   *)
(* both.                                                                   *)
ImplementsDelivery == AtLeastOnce!Spec
===============================================================================
