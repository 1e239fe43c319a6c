------------------------------ MODULE OutboxRelay ------------------------------
(***************************************************************************)
(* The outbox side of the Orders relay (cmd/relay/main.go, publishBatch)   *)
(* with the table outbox_events: replicas lease batches of rows, write them*)
(* to Kafka and mark them.  Timestamps are kept as the time that is left,  *)
(* which Tick counts down, so time itself has no bound.                    *)
(***************************************************************************)
EXTENDS Naturals, Sequences, FiniteSets

CONSTANTS Rows,         \* outbox rows, numbered by created_at
          Relays,       \* relay replicas
          BatchSize,    \* LIMIT of the claim; 100 in the code
          Lease,        \* length of a lease in ticks; 2 minutes in the code
          Delays,       \* delays of outboxBackoff in ticks
          MaxMishaps    \* bound on failed calls and crashes

ASSUME RelayAssumption ==
  /\ Rows \subseteq Nat
  /\ BatchSize \in Nat \ {0}
  /\ Lease \in Nat \ {0}
  /\ Delays \in Seq(Nat) /\ Len(Delays) > 0
  /\ MaxMishaps \in Nat

VARIABLES table,     \* outbox_events
          relay,     \* state of publishBatch in each replica
          copies,    \* how often the row's message is in Kafka, up to Many
          mishaps

vars == <<table, relay, copies, mishaps>>

Many == 2

(* wait: time until next_attempt_at; lease: time until lease_until, 0 when *)
(* it has passed or is NULL.  The owner column is written and never read.  *)
TableRow == [state : {"absent", "pending", "published"}, wait : Nat,
             lease : Nat, attempts : 0 .. Len(Delays)]

(* The rows of a batch that are not yet handled, with the attempts each    *)
(* had when it was claimed.                                                *)
Batch == UNION {[xs -> 0 .. Len(Delays)] : xs \in SUBSET Rows}

(* sent, unsent: WriteMessages returned for the row, without or with error.*)
(* lease: what is left of the lease this replica took.                     *)
RelayState == [pc : {"idle", "batch", "sent", "unsent"}, batch : Batch, row : Nat,
               lease : Nat]

TypeOK ==
  /\ table \in [Rows -> TableRow]
  /\ relay \in [Relays -> RelayState]
  /\ \A r \in Relays :
       relay[r].pc \in {"sent", "unsent"} => relay[r].row \in DOMAIN relay[r].batch
  /\ copies \in [Rows -> 0 .. Many]
  /\ mishaps \in 0 .. MaxMishaps

Idle == [pc |-> "idle", batch |-> [x \in {} |-> 0], row |-> 0, lease |-> 0]

Init ==
  /\ table = [x \in Rows |-> [state |-> "absent", wait |-> 0, lease |-> 0,
                              attempts |-> 0]]
  /\ relay = [r \in Relays |-> Idle]
  /\ copies = [x \in Rows |-> 0]
  /\ mishaps = 0

Mishap == mishaps < MaxMishaps /\ mishaps' = mishaps + 1

Decrement(n) == IF n > 0 THEN n - 1 ELSE 0

(* attempts counts from 0 and the last delay repeats.                      *)
outboxBackoff(attempts) ==
  IF attempts >= Len(Delays) THEN Delays[Len(Delays)] ELSE Delays[attempts + 1]

Bump(attempts) == IF attempts < Len(Delays) THEN attempts + 1 ELSE attempts

-------------------------------------------------------------------------------
InsertOutbox(x) ==
  /\ table[x].state = "absent"
  /\ table' = [table EXCEPT ![x].state = "pending"]
  /\ UNCHANGED <<relay, copies, mishaps>>

(* Mutant: the claim ignores the leases.                                   *)
ClaimableWhileLeased ==
  {x \in Rows : table[x].state = "pending" /\ table[x].wait = 0}

(* Mutant: a row is given up after its last delay.                         *)
ClaimableUntilLastDelay ==
  {x \in Rows : /\ table[x].state = "pending" /\ table[x].wait = 0
                /\ table[x].lease = 0 /\ table[x].attempts < Len(Delays)}

Claimable ==
  {x \in Rows : table[x].state = "pending" /\ table[x].wait = 0 /\ table[x].lease = 0}

(* ORDER BY created_at ... FOR UPDATE SKIP LOCKED LIMIT.                   *)
IsBatch(batch) ==
  /\ batch \subseteq Claimable
  /\ \A x \in batch, y \in Claimable \ batch : x < y
  /\ Cardinality(batch) <= BatchSize
  /\ Cardinality(batch) < BatchSize => batch = Claimable

ClaimPendingOutbox(r) ==
  /\ relay[r].pc = "idle"
  /\ \E batch \in SUBSET Claimable :
       /\ batch # {} /\ IsBatch(batch)
       /\ table' = [x \in Rows |->
            IF x \in batch THEN [table[x] EXCEPT !.lease = Lease] ELSE table[x]]
       /\ relay' = [relay EXCEPT ![r] =
            [pc |-> "batch", batch |-> [x \in batch |-> table[x].attempts],
             row |-> 0, lease |-> Lease]]
  /\ UNCHANGED <<copies, mishaps>>

Step(r, pc, x) ==
  relay' = [relay EXCEPT ![r] = [pc |-> pc, batch |-> relay[r].batch, row |-> x,
                                 lease |-> relay[r].lease]]

Written(x) ==
  copies' = [copies EXCEPT ![x] = IF copies[x] < Many THEN copies[x] + 1 ELSE Many]

WriteMessages(r, x) ==
  /\ relay[r].pc = "batch"
  /\ x \in DOMAIN relay[r].batch
  /\ Written(x)
  /\ Step(r, "sent", x)
  /\ UNCHANGED <<table, mishaps>>

(* An error of the writer does not say whether the broker has the message. *)
WriteMessagesError(r, x) ==
  /\ relay[r].pc = "batch"
  /\ x \in DOMAIN relay[r].batch
  /\ Mishap
  /\ UNCHANGED copies \/ Written(x)
  /\ Step(r, "unsent", x)
  /\ UNCHANGED table

(* The loop moves to the next row, or returns after the last.              *)
NextRow(r) ==
  LET rest == DOMAIN relay[r].batch \ {relay[r].row}
  IN relay' = [relay EXCEPT ![r] =
       IF rest = {} THEN Idle
                    ELSE [pc |-> "batch", row |-> 0, lease |-> relay[r].lease,
                          batch |-> [x \in rest |-> relay[r].batch[x]]]]

(* Neither statement looks at the owner of the lease it clears.            *)
MarkOutboxPublished(r) ==
  /\ relay[r].pc = "sent"
  /\ LET x == relay[r].row
     IN table' = [table EXCEPT ![x] =
          IF table[x].state = "pending"
            THEN [table[x] EXCEPT !.state = "published", !.lease = 0,
                                  !.attempts = Bump(table[x].attempts)]
            ELSE table[x]]
  /\ NextRow(r)
  /\ UNCHANGED <<copies, mishaps>>

MarkOutboxFailed(r) ==
  /\ relay[r].pc = "unsent"
  /\ LET x == relay[r].row
     IN table' = [table EXCEPT ![x] =
          IF table[x].state = "pending"
            THEN [table[x] EXCEPT !.lease = 0, !.attempts = Bump(table[x].attempts),
                                  !.wait = outboxBackoff(relay[r].batch[x])]
            ELSE table[x]]
  /\ NextRow(r)
  /\ UNCHANGED <<copies, mishaps>>

(* The mark itself fails: after a write the batch is given up, after a     *)
(* failed write the loop continues.                                        *)
MarkError(r) ==
  /\ Mishap
  /\ \/ relay[r].pc = "sent" /\ relay' = [relay EXCEPT ![r] = Idle]
     \/ relay[r].pc = "unsent" /\ NextRow(r)
  /\ UNCHANGED <<table, copies>>

Crash(r) ==
  /\ relay[r].pc # "idle"
  /\ Mishap
  /\ relay' = [relay EXCEPT ![r] = Idle]
  /\ UNCHANGED <<table, copies>>

Tick ==
  /\ table' = [x \in Rows |-> [table[x] EXCEPT !.wait = Decrement(table[x].wait),
                                               !.lease = Decrement(table[x].lease)]]
  /\ relay' = [r \in Relays |-> [relay[r] EXCEPT !.lease = Decrement(relay[r].lease)]]
  /\ UNCHANGED <<copies, mishaps>>

Publish(r) ==
  \/ ClaimPendingOutbox(r)
  \/ \E x \in Rows : WriteMessages(r, x)
  \/ MarkOutboxPublished(r)
  \/ MarkOutboxFailed(r)

Next ==
  \/ \E x \in Rows : InsertOutbox(x)
  \/ \E r \in Relays : Publish(r)
  \/ \E r \in Relays, x \in Rows : WriteMessagesError(r, x)
  \/ \E r \in Relays : MarkError(r) \/ Crash(r)
  \/ Tick

Spec == Init /\ [][Next]_vars

(* publish polls every 500 ms until the process stops, and time passes.    *)
Fairness == WF_vars(Tick) /\ \A r \in Relays : WF_vars(Publish(r))

FairSpec == Spec /\ Fairness

-------------------------------------------------------------------------------
(* A row is marked published only after its message was written to Kafka,  *)
(* by whichever replica, and every handled row of a batch was written.     *)
PublishedWasWritten ==
  /\ \A x \in Rows : table[x].state = "published" => copies[x] > 0
  /\ \A r \in Relays : relay[r].pc = "sent" => copies[relay[r].row] > 0

(* published_at is set once: nothing but the passing of time touches a     *)
(* published row, not even a replica whose lease ran out.                  *)
PublishedIsFinal ==
  [][\A x \in Rows : table[x].state = "published" =>
       /\ table'[x] = [table[x] EXCEPT !.wait = table'[x].wait]
       /\ table'[x].wait <= table[x].wait]_vars

(* The relay implements at-least-once delivery.                            *)
AtLeastOnce == INSTANCE Delivery WITH
  requested <- {x \in Rows : table[x].state # "absent"},
  delivered <- {x \in Rows : copies[x] > 0},
  confirmed <- {x \in Rows : table[x].state = "published"}

ImplementsDelivery == AtLeastOnce!Spec

(* "ClaimPendingOutbox leases a bounded batch so multiple relay replicas   *)
(* cannot publish the same row concurrently": while their leases run, two  *)
(* replicas do not both hold a row.                                        *)
LeaseExcludes ==
  \A r, q \in Relays :
    /\ r # q
    /\ relay[r].lease > 0 /\ relay[q].lease > 0
    => DOMAIN relay[r].batch \cap DOMAIN relay[q].batch = {}

(* The lease does what its comment says as long as no call of a relay      *)
(* fails and none stops.                                                   *)
LeaseExcludesUndisturbed == mishaps = 0 => LeaseExcludes
===============================================================================
