---------------------------- MODULE OrderSagaProofs ----------------------------
(* Theorems about OrderSaga, for any sets of orders, replicas, requests    *)
(* and facts and any bounds.                                               *)
EXTENDS SagaConsumerProofs

LEMMA InitInv == Init => Inv
<1> SUFFICES ASSUME Init PROVE Inv
  OBVIOUS
<1>1. StoreTypeOK
  BY NoRowType DEF Init, StoreInit, StoreTypeOK, Phase, Many
<1>2. ConsumerTypeOK
  BY NoRowType, ConsumerAssumption
  DEF Init, ConsumerInit, ConsumerTypeOK, Thread, PCs
<1>3. TypeOK
  BY <1>1, <1>2 DEF Init, TypeOK, Call, Replies
<1>4. MessageInLog /\ FailureRecorded /\ VersionIdentifiesRow
  BY DEF Init, ConsumerInit, MessageInLog, FailureRecorded, VersionIdentifiesRow, PC
<1>5. AbsentRows
  BY DEF Init, StoreInit, AbsentRows
<1> QED
  BY <1>3, <1>4, <1>5 DEF Inv

-------------------------------------------------------------------------------
(* The other steps.                                                        *)

(* A step that leaves the consumers alone, may advance orders and may      *)
(* append facts to the topics preserves what is known of the consumers.    *)
LEMMA ConsumersUntouched ==
  ASSUME Inv, OrdersAdvance,
         UNCHANGED <<thread, inbox>>,
         log' \in [Topics -> Seq(Fact)],
         \A u \in Topics : /\ Len(log'[u]) >= Len(log[u])
                           /\ \A i \in 1 .. Len(log[u]) : log'[u][i] = log[u][i]
  PROVE  MessageInLog' /\ FailureRecorded' /\ AbsentRows' /\ VersionIdentifiesRow'
<1>1. ASSUME NEW r \in Replicas, NEW u \in Topics, PC(r, u) # "idle"
      PROVE  /\ thread[r][u].at \in 1 .. Len(log'[u])
             /\ log'[u][thread[r][u].at] = Message(r, u)
  <2>1. thread[r][u].at \in 1 .. Len(log[u])
    BY <1>1, MessageIsFact
  <2>2. log[u] \in Seq(Fact) /\ log'[u] \in Seq(Fact)
    BY DEF Inv, TypeOK, ConsumerTypeOK
  <2>3. Len(log[u]) \in Nat /\ Len(log'[u]) \in Nat
    BY <2>2
  <2>4. thread[r][u].at \in 1 .. Len(log'[u])
    BY <2>1, <2>3
  <2> QED
    BY <2>1, <2>4 DEF Message
<1>2. MessageInLog'
  BY <1>1 DEF MessageInLog, PC
<1>3. FailureRecorded'
  BY <1>1, SMTT(60) DEF Inv, FailureRecorded, PC, Message
<1>4. VersionIdentifiesRow'
  <2> SUFFICES ASSUME NEW q \in Replicas, NEW u \in Topics, thread'[q][u].pc = "loaded"
               PROVE  LET s == thread'[q][u].snap
                          row == order'[log'[u][thread'[q][u].at].order]
                      IN s.version <= row.version /\ (s.version = row.version => s = row)
    BY ZenonT(60) DEF VersionIdentifiesRow, PC, Message
  <2>1. thread'[q][u] = thread[q][u] /\ log'[u][thread[q][u].at] = Message(q, u)
    BY <1>1 DEF PC
  <2> QED
    BY <2>1, VersionsKept, ZenonT(60)
<1>5. AbsentRows'
  BY AbsentKept DEF Inv
<1> QED
  BY <1>2, <1>3, <1>4, <1>5

(* Publishing a fact appends it to its topic.                              *)
LEMMA Appended ==
  ASSUME ConsumerTypeOK, NEW t \in Topics, NEW f \in Fact,
         log' = [log EXCEPT ![t] = Append(log[t], f)]
  PROVE  /\ log' \in [Topics -> Seq(Fact)]
         /\ \A u \in Topics : /\ Len(log'[u]) >= Len(log[u])
                              /\ \A i \in 1 .. Len(log[u]) : log'[u][i] = log[u][i]
<1>1. \A u \in Topics : log[u] \in Seq(Fact) /\ Len(log[u]) \in Nat
  BY DEF ConsumerTypeOK
<1>2. \A u \in Topics : log'[u] = IF u = t THEN Append(log[t], f) ELSE log[u]
  BY DEF ConsumerTypeOK
<1>3. /\ Append(log[t], f) \in Seq(Fact)
      /\ Len(Append(log[t], f)) = Len(log[t]) + 1
      /\ \A i \in 1 .. Len(log[t]) : Append(log[t], f)[i] = log[t][i]
  BY <1>1
<1>4. log' \in [Topics -> Seq(Fact)]
  BY <1>3 DEF ConsumerTypeOK
<1> QED
  BY <1>1, <1>2, <1>3, <1>4

(* A step of the dependencies is a published fact.                         *)
LEMMA AnnounceInv ==
  ASSUME Inv, NEW t \in Topics, NEW type \in FactTypes, NEW o \in Orders,
         Announce(t, type, o)
  PROVE  StoreTypeOK' /\ ConsumerTypeOK' /\ MessageInLog' /\ FailureRecorded'
         /\ AbsentRows' /\ VersionIdentifiesRow'
<1>0. StoreTypeOK /\ ConsumerTypeOK
  BY DEF Inv, TypeOK
<1>1. PICK v \in BOOLEAN : log' = [log EXCEPT ![t] = Append(log[t],
                     [type |-> type, order |-> o, n |-> 1, valid |-> v])]
  BY FactsAssumption, ZenonT(60) DEF Announce
<1> DEFINE f == [type |-> type, order |-> o, n |-> 1, valid |-> v]
<1>2. f \in Fact
  BY DEF Fact
<1> HIDE DEF f
<1>3. /\ log' \in [Topics -> Seq(Fact)]
      /\ \A u \in Topics : /\ Len(log'[u]) >= Len(log[u])
                           /\ \A i \in 1 .. Len(log[u]) : log'[u][i] = log[u][i]
  BY <1>0, <1>1, <1>2, Appended, ZenonT(60) DEF f
<1>4. UNCHANGED <<committed, assigned, thread, inbox, dlq, mishaps, storeVars>>
  BY DEF Announce
<1>5. MessageInLog' /\ FailureRecorded' /\ AbsentRows' /\ VersionIdentifiesRow'
  BY <1>0, <1>3, <1>4, ConsumersUntouched, SameOrders DEF storeVars
<1> QED
  BY <1>0, <1>3, <1>4, <1>5 DEF storeVars, StoreTypeOK, ConsumerTypeOK

LEMMA DependenciesInv ==
  ASSUME Inv, NEW o \in Orders, Dependencies(o)
  PROVE  Inv'
<1>0. TypeOK
  BY DEF Inv
<1>1. CASE InventoryStep(o)
  <2>1. PICK type \in {"inventory.reserved", "inventory.rejected",
                    "inventory.released"},
             to \in {"reserved", "rejected", "released"} :
          /\ Announce("inventory", type, o)
          /\ inventory' = [inventory EXCEPT ![o] = to]
    BY <1>1 DEF InventoryStep, Inventory
  <2>3. StoreTypeOK' /\ ConsumerTypeOK' /\ MessageInLog' /\ FailureRecorded'
        /\ AbsentRows' /\ VersionIdentifiesRow'
    BY <2>1, AnnounceInv DEF Topics, FactTypes, SupportedFacts, FailureFacts
  <2>4. /\ inventory' \in [Orders -> {"idle", "reserved", "rejected", "released"}]
        /\ UNCHANGED <<payment, fulfillment, call>>
    BY <1>0, <1>1, <2>1, ZenonT(60) DEF InventoryStep, Inventory, TypeOK, Announce
  <2> QED
    BY <1>0, <2>3, <2>4 DEF Inv, TypeOK
<1>2. CASE PaymentStep(o)
  <2>1. PICK type \in {"payment.authorized", "payment.failed",
                    "payment.refunded", "payment.refund_failed"},
             to \in {"authorized", "failed", "refunded", "refund_failed"} :
          /\ Announce("payment", type, o)
          /\ payment' = [payment EXCEPT ![o] = to]
    BY <1>2 DEF PaymentStep, Payments
  <2>3. StoreTypeOK' /\ ConsumerTypeOK' /\ MessageInLog' /\ FailureRecorded'
        /\ AbsentRows' /\ VersionIdentifiesRow'
    BY <2>1, AnnounceInv DEF Topics, FactTypes, SupportedFacts, FailureFacts
  <2>4. /\ payment' \in [Orders -> {"idle", "authorized", "failed", "refunded",
                                    "refund_failed"}]
        /\ UNCHANGED <<inventory, fulfillment, call>>
    BY <1>0, <1>2, <2>1, ZenonT(60) DEF PaymentStep, Payments, TypeOK, Announce
  <2> QED
    BY <1>0, <2>3, <2>4 DEF Inv, TypeOK
<1>3. CASE FulfillmentStep(o)
  <2>1. PICK type \in {"fulfillment.created", "fulfillment.completed",
                    "fulfillment.failed"},
             to \in {"created", "completed", "failed"} :
          /\ Announce("fulfillment", type, o)
          /\ fulfillment' = [fulfillment EXCEPT ![o] = to]
    BY <1>3 DEF FulfillmentStep, Fulfillment
  <2>3. StoreTypeOK' /\ ConsumerTypeOK' /\ MessageInLog' /\ FailureRecorded'
        /\ AbsentRows' /\ VersionIdentifiesRow'
    BY <2>1, AnnounceInv DEF Topics, FactTypes, SupportedFacts, FailureFacts
  <2>4. /\ fulfillment' \in [Orders -> {"idle", "created", "completed", "failed"}]
        /\ UNCHANGED <<inventory, payment, call>>
    BY <1>0, <1>3, <2>1, ZenonT(60) DEF FulfillmentStep, Fulfillment, TypeOK, Announce
  <2> QED
    BY <1>0, <2>3, <2>4 DEF Inv, TypeOK
<1> QED
  BY <1>1, <1>2, <1>3 DEF Dependencies

(* The transactions of the API advance the order they are about.           *)
LEMMA ApiStore ==
  ASSUME StoreTypeOK, AbsentRows, NEW q \in Requests, NEW o \in Orders, NEW version,
         \/ Create(q.key, q.body, o)
         \/ RequestCancellation(q.key, q.body, o, version)
  PROVE  StoreTypeOK' /\ OrdersAdvance
<1>0. q.key \in Keys /\ q.body \in Bodies
      /\ order[o] \in Row /\ order[o].version \in Nat
  BY RequestsAssumption DEF StoreTypeOK, Row
<1>1. outbox' \in [Orders -> [Messages -> 0 .. Many]]
  BY InsertOutboxType DEF Create, RequestCancellation
<1>2. saga' \in [Orders -> Phase]
  BY DEF Create, RequestCancellation, StoreTypeOK, Phase
<1>3. idempotency' \subseteq IdempotencyRecord
  <2>1. PICK op \in Operations : idempotency' = idempotency \cup
          {[operation |-> op, key |-> q.key, body |-> q.body, order |-> o]}
    BY DEF Create, RequestCancellation, Operations
  <2>2. [operation |-> op, key |-> q.key, body |-> q.body, order |-> o]
          \in IdempotencyRecord
    BY <1>0 DEF IdempotencyRecord
  <2> QED
    BY <2>1, <2>2 DEF StoreTypeOK
<1>4. ASSUME Create(q.key, q.body, o) PROVE OrdersAdvance
  <2> DEFINE row == [NoRow EXCEPT !.status = "PENDING", !.version = 1]
  <2>1. row \in Row /\ row.version = 1 /\ row.status = "PENDING"
    BY ZenonT(60) DEF NoRow, Row, Status
  <2>2. order[o].version = 0
    BY <1>4 DEF Create, AbsentRows, NoRow
  <2>3. order' = [order EXCEPT ![o] = row]
    BY <1>4 DEF Create
  <2> HIDE DEF row
  <2> QED
    BY <2>1, <2>2, <2>3 DEF OrdersAdvance, StoreTypeOK
<1>5. ASSUME RequestCancellation(q.key, q.body, o, version) PROVE OrdersAdvance
  <2> DEFINE row == Workflow(order[o], "CANCEL_REQUESTED", {})
  <2>1. row \in Row /\ row.version = order[o].version + 1
        /\ row.status = "CANCEL_REQUESTED"
    BY <1>0, WorkflowRow, SMTT(60) DEF Status
  <2>2. order' = [order EXCEPT ![o] = row]
    BY <1>5 DEF RequestCancellation
  <2> HIDE DEF row
  <2> QED
    BY <1>0, <2>1, <2>2 DEF OrdersAdvance, StoreTypeOK
<1>6. OrdersAdvance
  BY <1>4, <1>5
<1> QED
  BY <1>1, <1>2, <1>3, <1>6 DEF StoreTypeOK, OrdersAdvance

LEMMA ApiInv == ASSUME Inv, Api PROVE Inv' /\ OrdersAdvance
<1>0. StoreTypeOK /\ ConsumerTypeOK /\ TypeOK /\ AbsentRows
  BY DEF Inv, TypeOK
<1>1. UNCHANGED <<consumerVars, dependencyVars>>
  BY DEF Api, CreateOrder, FindForCancel, CancelOrder, CancelRefused, KeyReused
<1>2. StoreTypeOK' /\ OrdersAdvance
  <2>1. CASE UNCHANGED storeVars
    BY <1>0, <2>1, SameOrders DEF storeVars, StoreTypeOK
  <2>2. ASSUME NEW q \in Requests, NEW o \in Orders, CreateOrder(q, o) \/ CancelOrder(q, o)
        PROVE  StoreTypeOK' /\ OrdersAdvance
    BY <1>0, <2>2, ApiStore DEF CreateOrder, CancelOrder
  <2> QED
    BY <2>1, <2>2 DEF Api, FindForCancel, CancelRefused, KeyReused
<1>3. call' \in [Requests -> Call]
  <2>1. ASSUME NEW q \in Requests, NEW o \in Orders, NEW reply \in Replies,
               Reply(q, o, reply)
        PROVE  call' \in [Requests -> Call]
    <3>1. [pc |-> "done", order |-> {o}, version |-> 0, reply |-> reply] \in Call
      BY DEF Call
    <3> QED
      BY <1>0, <2>1, <3>1 DEF Reply, TypeOK
  <2>2. ASSUME NEW q \in Requests, NEW o \in Orders, FindForCancel(q, o)
        PROVE  call' \in [Requests -> Call]
    <3>1. order[o].version \in Nat
      BY <1>0 DEF StoreTypeOK, Row
    <3>2. [pc |-> "found", order |-> {o}, version |-> order[o].version,
           reply |-> "none"] \in Call
      BY <3>1 DEF Call, Replies
    <3> QED
      BY <1>0, <2>2, <3>2 DEF FindForCancel, TypeOK
  <2>3. ASSUME NEW q \in Requests, KeyReused(q)
        PROVE  call' \in [Requests -> Call]
    <3>1. PICK rec \in RecordOf(q.operation, q.key) :
            Reply(q, rec.order, "accepted") \/ Reply(q, rec.order, "conflict")
      BY <2>3 DEF KeyReused
    <3>2. rec.order \in Orders
      BY <1>0 DEF RecordOf, StoreTypeOK, IdempotencyRecord
    <3> QED
      BY <2>1, <3>1, <3>2 DEF Replies
  <2> QED
    BY <2>1, <2>2, <2>3 DEF Api, CreateOrder, CancelOrder, CancelRefused, Replies
<1>4. ConsumerTypeOK'
  BY <1>0, <1>1 DEF consumerVars, ConsumerTypeOK
<1>5. MessageInLog' /\ FailureRecorded' /\ AbsentRows' /\ VersionIdentifiesRow'
  <2>1. UNCHANGED <<thread, inbox, log>> /\ log \in [Topics -> Seq(Fact)]
    BY <1>0, <1>1 DEF consumerVars, ConsumerTypeOK
  <2>2. \A u \in Topics : Len(log[u]) \in Nat
    BY <2>1
  <2> QED
    BY <1>2, <2>1, <2>2, ConsumersUntouched
<1> QED
  BY <1>0, <1>1, <1>2, <1>3, <1>4, <1>5 DEF Inv, TypeOK, dependencyVars

LEMMA MalformedInv ==
  ASSUME Inv, NEW t \in Topics, NEW o \in Orders, PublishMalformed(t, o)
  PROVE  Inv'
<1>0. StoreTypeOK /\ ConsumerTypeOK /\ TypeOK
  BY DEF Inv, TypeOK
<1> DEFINE f == [type |-> "malformed", order |-> o, n |-> 1, valid |-> FALSE]
<1>1. f \in Fact
  BY DEF Fact, FactTypes
<1>2. log' = [log EXCEPT ![t] = Append(log[t], f)]
  BY DEF PublishMalformed
<1> HIDE DEF f
<1>3. /\ log' \in [Topics -> Seq(Fact)]
      /\ \A u \in Topics : /\ Len(log'[u]) >= Len(log[u])
                           /\ \A i \in 1 .. Len(log[u]) : log'[u][i] = log[u][i]
  BY <1>0, <1>1, <1>2, Appended, ZenonT(60)
<1>4. /\ UNCHANGED <<committed, assigned, thread, inbox, dlq, storeVars, call,
                     dependencyVars>>
      /\ mishaps' \in 0 .. MaxMishaps
  BY <1>0, ConsumerAssumption DEF PublishMalformed, Mishap, ConsumerTypeOK
<1>5. MessageInLog' /\ FailureRecorded' /\ AbsentRows' /\ VersionIdentifiesRow'
  BY <1>0, <1>3, <1>4, ConsumersUntouched, SameOrders DEF storeVars
<1> QED
  BY <1>0, <1>3, <1>4, <1>5
  DEF Inv, TypeOK, storeVars, dependencyVars, StoreTypeOK, ConsumerTypeOK

(* A step that only sends threads back (to fetch, to retry or to record a  *)
(* failure of the message they hold) preserves what is known of them.      *)
LEMMA ThreadsSentBack ==
  ASSUME Inv, OrdersAdvance, log' = log, DOMAIN inbox \subseteq DOMAIN inbox',
         \A q \in Replicas, u \in Topics :
           \/ thread'[q][u] = thread[q][u]
           \/ thread'[q][u].pc = "idle"
           \/ /\ thread'[q][u].pc \in {"failed", "retry"}
              /\ thread'[q][u].at = thread[q][u].at
              /\ PC(q, u) # "idle" \/ Holds(q, u)
  PROVE  MessageInLog' /\ FailureRecorded' /\ AbsentRows' /\ VersionIdentifiesRow'
<1>1. MessageInLog'
  BY MessageIsFact DEF Inv, MessageInLog, PC
<1>2. FailureRecorded'
  BY SMTT(30) DEF Inv, FailureRecorded, PC, Message
<1>3. AbsentRows'
  BY AbsentKept DEF Inv
<1>4. VersionIdentifiesRow'
  <2> SUFFICES ASSUME NEW q \in Replicas, NEW u \in Topics, thread'[q][u].pc = "loaded"
               PROVE  LET s == thread'[q][u].snap
                          row == order'[log'[u][thread'[q][u].at].order]
                      IN s.version <= row.version /\ (s.version = row.version => s = row)
    BY ZenonT(60) DEF VersionIdentifiesRow, PC, Message
  <2>1. thread'[q][u] = thread[q][u] /\ log'[u][thread[q][u].at] = Message(q, u)
    BY DEF Message
  <2> QED
    BY <2>1, VersionsKept, ZenonT(60)
<1> QED
  BY <1>1, <1>2, <1>3, <1>4

LEMMA DisturbInv ==
  ASSUME Inv, Disturb
  PROVE  /\ StoreTypeOK' /\ ConsumerTypeOK' /\ MessageInLog' /\ FailureRecorded'
         /\ AbsentRows' /\ VersionIdentifiesRow'
<1> USE DEF PCs
<1>0. StoreTypeOK /\ ConsumerTypeOK /\ AbsentRows
  BY DEF Inv, TypeOK
<1>1. Mishap => mishaps' \in 0 .. MaxMishaps
  BY <1>0, ConsumerAssumption DEF Mishap, ConsumerTypeOK
<1>2. UNCHANGED storeVars => StoreTypeOK' /\ OrdersAdvance
  BY <1>0, SameOrders DEF storeVars, StoreTypeOK
<1>3. ASSUME NEW r \in Replicas, NEW t \in Topics, CallFails(r, t)
      PROVE  /\ StoreTypeOK' /\ ConsumerTypeOK' /\ MessageInLog' /\ FailureRecorded'
             /\ AbsentRows' /\ VersionIdentifiesRow'
  <2>1. PICK pc \in {"failed", "retry"} : Goto(r, t, pc)
    BY <1>3 DEF CallFails
  <2>2. ThreadStep(r, t) /\ thread'[r][t].pc = pc /\ thread'[r][t].at = thread[r][t].at
    BY <1>0, <2>1, GotoStep
  <2>3. PC(r, t) # "idle" \/ Holds(r, t)
    BY <1>3 DEF CallFails, InTransaction
  <2>4. MessageInLog' /\ FailureRecorded' /\ AbsentRows' /\ VersionIdentifiesRow'
    BY <1>2, <1>3, <2>2, <2>3, ThreadsSentBack DEF CallFails, ThreadStep
  <2>5. ConsumerTypeOK'
    BY <1>0, <1>1, <1>3, <2>2 DEF CallFails, ConsumerTypeOK, ThreadStep
  <2> QED
    BY <1>2, <1>3, <2>4, <2>5 DEF CallFails
<1>4. ASSUME NEW r \in Replicas, NEW t \in Topics, CommitUnacknowledged(r, t)
      PROVE  /\ StoreTypeOK' /\ ConsumerTypeOK' /\ MessageInLog' /\ FailureRecorded'
             /\ AbsentRows' /\ VersionIdentifiesRow'
  <2>1. ThreadStep(r, t) /\ thread'[r][t].pc = "failed"
        /\ thread'[r][t].at = thread[r][t].at
    BY <1>0, <1>4, GotoStep DEF CommitUnacknowledged
  <2>2. StoreTypeOK' /\ OrdersAdvance /\ Message(r, t) \in Fact
    BY <1>0, <1>4, LoadedRow, ApplyFactType, OrderStepAdvances DEF CommitUnacknowledged
  <2>3. DOMAIN inbox \subseteq DOMAIN inbox'
    BY <1>4, InboxGrows DEF CommitUnacknowledged, MarkInboxProcessed
  <2>4. DOMAIN inbox' \subseteq Fact /\ inbox' \in [DOMAIN inbox' -> InboxRow]
    <3> DEFINE f == Message(r, t)
               n == IF f \in DOMAIN inbox THEN inbox[f].attempts ELSE 1
               row == [status |-> "PROCESSED", processedAt |-> TRUE, attempts |-> n]
    <3>1. n \in Nat
      BY <1>0 DEF ConsumerTypeOK, InboxRow
    <3>2. row \in InboxRow
      BY <3>1 DEF InboxRow
    <3>3. WriteInbox(f, row)
      BY <1>4 DEF CommitUnacknowledged, MarkInboxProcessed
    <3> HIDE DEF row
    <3> QED
      BY <1>0, <2>2, <3>2, <3>3, WriteInboxType
  <2>5. MessageInLog' /\ FailureRecorded' /\ AbsentRows' /\ VersionIdentifiesRow'
    BY <1>4, <2>1, <2>2, <2>3, ThreadsSentBack DEF CommitUnacknowledged, ThreadStep, PC
  <2>6. ConsumerTypeOK'
    BY <1>0, <1>1, <1>4, <2>1, <2>4 DEF CommitUnacknowledged, ConsumerTypeOK, ThreadStep
  <2> QED
    BY <2>2, <2>5, <2>6
<1>5. ASSUME NEW r \in Replicas, NEW t \in Topics, Rebalance(r, t)
      PROVE  /\ StoreTypeOK' /\ ConsumerTypeOK' /\ MessageInLog' /\ FailureRecorded'
             /\ AbsentRows' /\ VersionIdentifiesRow'
  <2> DEFINE th == [pc |-> "idle", at |-> committed[t] + 1, snap |-> thread[r][t].snap]
  <2>1. th \in Thread
    BY <1>0 DEF ConsumerTypeOK, Thread
  <2>2. thread[r][t] \in Thread /\ thread[r][t].pc = "idle"
    BY <1>0, <1>5 DEF ConsumerTypeOK, Rebalance, PC
  <2>3. [thread[r][t] EXCEPT !.at = committed[t] + 1] = th
    BY <2>2 DEF Thread
  <2>4. thread' = [thread EXCEPT ![r][t] = [thread[r][t] EXCEPT !.at = committed[t] + 1]]
    BY <1>0, <1>5 DEF Rebalance, ConsumerTypeOK
  <2>5. thread' = [thread EXCEPT ![r][t] = th] /\ th.pc = "idle"
    BY <2>3, <2>4, ZenonT(60)
  <2> HIDE DEF th
  <2>6. ThreadStep(r, t) /\ thread'[r][t].pc = "idle"
    BY <1>0, <2>1, <2>5, ThreadUpdate, ZenonT(60)
  <2>7. MessageInLog' /\ FailureRecorded' /\ AbsentRows' /\ VersionIdentifiesRow'
    BY <1>2, <1>5, <2>6, ThreadsSentBack DEF Rebalance, ThreadStep
  <2>8. ConsumerTypeOK'
    BY <1>0, <1>1, <1>5, <2>6 DEF Rebalance, ConsumerTypeOK, ThreadStep
  <2> QED
    BY <1>2, <1>5, <2>7, <2>8 DEF Rebalance
<1>6. ASSUME NEW r \in Replicas, Restart(r)
      PROVE  /\ StoreTypeOK' /\ ConsumerTypeOK' /\ MessageInLog' /\ FailureRecorded'
             /\ AbsentRows' /\ VersionIdentifiesRow'
  <2> DEFINE threads == [t \in Topics |-> [pc |-> "idle", at |-> committed[t] + 1,
                                           snap |-> NoRow]]
  <2>1. threads \in [Topics -> Thread] /\ \A u \in Topics : threads[u].pc = "idle"
    BY <1>0, NoRowType DEF ConsumerTypeOK, Thread
  <2>2. thread' = [thread EXCEPT ![r] = threads]
    BY <1>6 DEF Restart
  <2> HIDE DEF threads
  <2>3. /\ thread' \in [Replicas -> [Topics -> Thread]]
        /\ \A q \in Replicas, u \in Topics :
             thread'[q][u] = thread[q][u] \/ thread'[q][u].pc = "idle"
    BY <1>0, <2>1, <2>2 DEF ConsumerTypeOK
  <2>4. MessageInLog' /\ FailureRecorded' /\ AbsentRows' /\ VersionIdentifiesRow'
    BY <1>2, <1>6, <2>3, ThreadsSentBack DEF Restart
  <2>5. ConsumerTypeOK'
    BY <1>0, <1>1, <1>6, <2>3 DEF Restart, ConsumerTypeOK
  <2> QED
    BY <1>2, <1>6, <2>4, <2>5 DEF Restart
<1>7. ASSUME NEW t \in Topics, Republish(t)
      PROVE  /\ StoreTypeOK' /\ ConsumerTypeOK' /\ MessageInLog' /\ FailureRecorded'
             /\ AbsentRows' /\ VersionIdentifiesRow'
  <2>1. PICK f \in Fact : log' = [log EXCEPT ![t] = Append(log[t], f)]
    <3>1. log[t] \in Seq(Fact)
      BY <1>0 DEF ConsumerTypeOK
    <3>2. PICK i \in 1 .. Len(log[t]) :
            \E f \in {log[t][i], [log[t][i] EXCEPT !.n = log[t][i].n + 1]} :
              log' = [log EXCEPT ![t] = Append(log[t], f)]
      BY <1>7, ZenonT(60) DEF Republish
    <3>3. log[t][i] \in Fact
      BY <3>1
    <3>4. [log[t][i] EXCEPT !.n = log[t][i].n + 1] \in Fact
      BY <3>3 DEF Fact
    <3> QED
      BY <3>2, <3>3, <3>4, ZenonT(60)
  <2>2. /\ log' \in [Topics -> Seq(Fact)]
        /\ \A u \in Topics : /\ Len(log'[u]) >= Len(log[u])
                             /\ \A i \in 1 .. Len(log[u]) : log'[u][i] = log[u][i]
    BY <1>0, <2>1, Appended, ZenonT(60)
  <2>3. MessageInLog' /\ FailureRecorded' /\ AbsentRows' /\ VersionIdentifiesRow'
    BY <1>2, <1>7, <2>2, ConsumersUntouched DEF Republish
  <2>4. ConsumerTypeOK'
    BY <1>0, <1>1, <1>7, <2>2 DEF Republish, ConsumerTypeOK
  <2> QED
    BY <1>2, <1>7, <2>3, <2>4 DEF Republish
<1> QED
  BY <1>3, <1>4, <1>5, <1>6, <1>7 DEF Disturb

LEMMA NextInv == ASSUME Inv, [Next]_vars PROVE Inv'
<1>0. TypeOK
  BY DEF Inv
<1>1. CASE Api
  BY <1>1, ApiInv
<1>2. CASE \E o \in Orders : Dependencies(o)
  BY <1>2, DependenciesInv
<1>3. CASE /\ \E r \in Replicas, t \in Topics : Consume(r, t)
           /\ UNCHANGED <<call, dependencyVars>>
  BY <1>0, <1>3, ConsumeType, ConsumeRecorded, ConsumeVersions, AbsentKept
  DEF Inv, TypeOK, dependencyVars
<1>4. CASE Disturb /\ UNCHANGED <<call, dependencyVars>>
  BY <1>0, <1>4, DisturbInv DEF Inv, TypeOK, dependencyVars
<1>5. CASE \E t \in Topics, o \in Orders : PublishMalformed(t, o)
  BY <1>5, MalformedInv
<1>6. CASE UNCHANGED vars
  BY <1>6, ZenonT(60)
  DEF vars, storeVars, consumerVars, dependencyVars, Inv, TypeOK, StoreTypeOK,
              ConsumerTypeOK, MessageInLog, FailureRecorded, AbsentRows,
              VersionIdentifiesRow, PC, Message, Exists
<1> QED
  BY <1>1, <1>2, <1>3, <1>4, <1>5, <1>6 DEF Next

(* Inv is an invariant of the saga.                                        *)
THEOREM SagaInvariant == Spec => []Inv
<1>1. Init => Inv
  BY InitInv
<1>2. Inv /\ [Next]_vars => Inv'
  BY NextInv
<1> QED
  BY <1>1, <1>2, PTL DEF Spec

(* Every variable keeps its type, for any orders, replicas and requests.   *)
THEOREM SagaTypes == Spec => []TypeOK
<1>1. Inv => TypeOK
  BY DEF Inv
<1> QED
  BY <1>1, SagaInvariant, PTL

(* The version check of the UPDATEs is enough under READ COMMITTED: equal  *)
(* versions mean equal rows, with any number of replicas, retries, crashes *)
(* and duplicates.                                                         *)
THEOREM OptimisticLocking == Spec => []VersionIdentifiesRow
<1>1. Inv => VersionIdentifiesRow
  BY DEF Inv
<1> QED
  BY <1>1, SagaInvariant, PTL

-------------------------------------------------------------------------------
(* The outcome an order announces.                                         *)

Outcomes == {"order.cancelled", "order.completed", "order.failed"}

LEMMA OutcomeNames ==
  /\ \A st \in Terminal : OutcomeOf[st] \in Outcomes /\ OutcomeOf[st] \in Messages
  /\ \A st, tt \in Terminal : OutcomeOf[st] = OutcomeOf[tt] => st = tt
  /\ OutcomeOf["CANCELLED"] = "order.cancelled"
  /\ OutcomeOf["COMPLETED"] = "order.completed"
  /\ OutcomeOf["FAILED"] = "order.failed"
BY SMTT(60) DEF Terminal, OutcomeOf, Outcomes, Messages

LEMMA NoOutcomeInCompensation ==
  ASSUME NEW s, NEW event
  PROVE  CompensationCommands(s, event) \cap Outcomes = {}
BY DEF CompensationCommands, Outcomes

(* A transaction that writes no outcome and leaves the set of finished     *)
(* orders alone.                                                           *)
LEMMA NoOutcome ==
  ASSUME StoreTypeOK, OutcomeAnnouncedOnce, NEW o \in Orders, NEW msgs,
         InsertOutbox(o, msgs), msgs \cap Outcomes = {},
         \A p \in Orders, st \in Terminal :
           order'[p].status = st <=> order[p].status = st
  PROVE  OutcomeAnnouncedOnce'
<1> SUFFICES ASSUME NEW p \in Orders, NEW st \in Terminal
             PROVE  outbox'[p][OutcomeOf[st]] = IF order'[p].status = st THEN 1 ELSE 0
  BY DEF OutcomeAnnouncedOnce
<1>1. OutcomeOf[st] \in Messages /\ OutcomeOf[st] \notin msgs
  BY OutcomeNames
<1>2. outbox'[p][OutcomeOf[st]] = outbox[p][OutcomeOf[st]]
  BY <1>1 DEF InsertOutbox, StoreTypeOK
<1> QED
  BY <1>2, SMTT(60) DEF OutcomeAnnouncedOnce

(* A transaction that finishes an order and writes its outcome.            *)
LEMMA NewOutcome ==
  ASSUME StoreTypeOK, OutcomeAnnouncedOnce, NEW o \in Orders, NEW msgs,
         NEW st \in Terminal,
         InsertOutbox(o, msgs), msgs \cap Outcomes = {OutcomeOf[st]},
         order[o].status \notin Terminal, order'[o].status = st,
         \A p \in Orders \ {o} : order'[p] = order[p]
  PROVE  OutcomeAnnouncedOnce'
<1> SUFFICES ASSUME NEW p \in Orders, NEW tt \in Terminal
             PROVE  outbox'[p][OutcomeOf[tt]] = IF order'[p].status = tt THEN 1 ELSE 0
  BY DEF OutcomeAnnouncedOnce
<1>1. OutcomeOf[tt] \in Messages /\ (OutcomeOf[tt] \in msgs <=> tt = st)
  BY OutcomeNames
<1>2. outbox[p][OutcomeOf[tt]] = IF order[p].status = tt THEN 1 ELSE 0
  BY DEF OutcomeAnnouncedOnce
<1>3. CASE p = o
  <2>1. outbox[p][OutcomeOf[tt]] = 0
    BY <1>2, <1>3
  <2>2. outbox'[p][OutcomeOf[tt]] = IF tt = st THEN 1 ELSE 0
    BY <1>1, <1>3, <2>1, SMTT(60) DEF InsertOutbox, StoreTypeOK, Many
  <2> QED
    BY <1>3, <2>2
<1>4. CASE p # o
  BY <1>2, <1>4 DEF InsertOutbox, StoreTypeOK
<1> QED
  BY <1>3, <1>4

(* What no update of an order row may take back.                           *)
RowKept(old, new) ==
  /\ IsTerminal(old.status) => new.status = old.status
  /\ old.totalMinor => new.totalMinor
  /\ old.reservationID => new.reservationID
  /\ old.paymentID => new.paymentID

LEMMA WorkflowKeeps ==
  ASSUME NEW row \in Row, NEW status \in Status, NEW columns, ~IsTerminal(row.status)
  PROVE  RowKept(row, Workflow(row, status, columns))
BY DEF Workflow, RowKept, Row

LEMMA MarkedKeeps ==
  ASSUME NEW f, NEW row \in Row
  PROVE  RowKept(row, Marked(f, row))
BY SMTT(60) DEF Marked, RowKept, Row

(* Applying a fact takes nothing back and announces an outcome exactly     *)
(* when it finishes the order: its decisions are taken on the row it       *)
(* updates, because the versions agree.                                    *)
LEMMA ApplyFactOutcome ==
  ASSUME StoreTypeOK, OutcomeAnnouncedOnce, NEW f \in Fact, NEW s \in Row, Current(f, s),
         ApplyFact(f, s)
  PROVE  OutcomeAnnouncedOnce' /\ \A o \in Orders : RowKept(order[o], order'[o])
<1> DEFINE o == f.order
           row == order[o]
<1>0. o \in Orders /\ row \in Row
  BY DEF StoreTypeOK, Fact
<1>1. ASSUME order' = order
      PROVE  \A p \in Orders : RowKept(order[p], order'[p])
  BY <1>1, SMTT(60) DEF RowKept
<1>2. ASSUME NEW status \in Status, NEW columns, NEW r \in {row, Marked(f, row)},
             UpdateOrder(o, s, Workflow(r, status, columns)), ~IsTerminal(s.status)
      PROVE  /\ s = row
             /\ order'[o].status = status
             /\ \A p \in Orders \ {o} : order'[p] = order[p]
             /\ \A p \in Orders : RowKept(order[p], order'[p])
  <2> DEFINE new == Workflow(r, status, columns)
  <2>1. s = row
    BY <1>2 DEF UpdateOrder, Current
  <2>2. r \in Row /\ ~IsTerminal(r.status) /\ RowKept(row, r) /\ r.status = row.status
    <3>1. ~IsTerminal(row.status) /\ RowKept(row, row)
      BY <1>2, <2>1 DEF RowKept
    <3>2. CASE r = row
      BY <1>0, <3>1, <3>2
    <3>3. CASE r = Marked(f, row)
      <4>1. /\ Marked(f, row) \in Row
            /\ Marked(f, row).status = row.status
            /\ RowKept(row, Marked(f, row))
        BY <1>0, MarkedRow, MarkedKeeps, SMTT(60)
      <4> QED
        BY <3>1, <3>3, <4>1
    <3> QED
      BY <1>2, <3>2, <3>3
  <2>3. new \in Row /\ new.status = status /\ RowKept(r, new)
    BY <2>2, WorkflowRow, WorkflowKeeps, SMTT(60)
  <2> HIDE DEF new
  <2>4. order'[o] = new /\ \A p \in Orders \ {o} : order'[p] = order[p]
    BY <1>0, <1>2, <2>3, UpdateOrderType, SMTT(60) DEF new
  <2>5. RowKept(row, new)
    BY <2>2, <2>3 DEF RowKept
  <2> QED
    BY <2>1, <2>3, <2>4, <2>5, SMTT(60) DEF RowKept
<1>3. ASSUME NEW status \in Status \ Terminal, NEW columns, NEW msgs,
             UpdateOrder(o, s, Workflow(row, status, columns)), ~IsTerminal(s.status),
             InsertOutbox(o, msgs), msgs \cap Outcomes = {}
      PROVE  OutcomeAnnouncedOnce' /\ \A p \in Orders : RowKept(order[p], order'[p])
  <2>1. /\ s = row
        /\ order'[o].status = status
        /\ \A p \in Orders \ {o} : order'[p] = order[p]
        /\ \A p \in Orders : RowKept(order[p], order'[p])
    BY <1>2, <1>3
  <2>2. \A p \in Orders, st \in Terminal :
          order'[p].status = st <=> order[p].status = st
    BY <1>3, <2>1 DEF IsTerminal
  <2> QED
    BY <1>0, <1>3, <2>1, <2>2, NoOutcome, SMTT(60)
<1>4. ASSUME NEW st \in Terminal, NEW columns, NEW msgs, NEW r \in {row, Marked(f, row)},
             UpdateOrder(o, s, Workflow(r, st, columns)), ~IsTerminal(s.status),
             InsertOutbox(o, msgs), msgs \cap Outcomes = {OutcomeOf[st]}
      PROVE  OutcomeAnnouncedOnce' /\ \A p \in Orders : RowKept(order[p], order'[p])
  <2>1. /\ s = row
        /\ order'[o].status = st
        /\ \A p \in Orders \ {o} : order'[p] = order[p]
        /\ \A p \in Orders : RowKept(order[p], order'[p])
    BY <1>2, <1>4, ZenonT(60) DEF Status
  <2> QED
    BY <1>0, <1>4, <2>1, NewOutcome DEF IsTerminal
<1>5. CASE IgnoreFact(f, s)
  BY <1>1, <1>5 DEF IgnoreFact, OutcomeAnnouncedOnce
<1>6. CASE ReservedWhilePending(f, s)
  BY <1>3, <1>6 DEF ReservedWhilePending, Status, Terminal, IsTerminal, Outcomes
<1>7. CASE ReservedWhileCancelling(f, s)
  BY <1>3, <1>7, NoOutcomeInCompensation
  DEF ReservedWhileCancelling, Status, Terminal, IsTerminal
<1>8. CASE AuthorizedWhilePending(f, s)
  BY <1>3, <1>8 DEF AuthorizedWhilePending, Status, Terminal, IsTerminal, Outcomes
<1>9. CASE AuthorizedWhileCancelling(f, s)
  BY <1>3, <1>9, NoOutcomeInCompensation, SMTT(60)
  DEF AuthorizedWhileCancelling, Status, Terminal, IsTerminal
<1>10. CASE DependencyFailed(f, s)
  <2>1. ({"order.failed"} \cup CompensationCommands(s, f.type)) \cap Outcomes
          = {OutcomeOf["FAILED"]}
    BY NoOutcomeInCompensation, OutcomeNames, SMTT(60) DEF Outcomes
  <2> QED
    BY <1>4, <1>10, <2>1 DEF DependencyFailed, Terminal, IsTerminal
<1>11. CASE FulfillmentCompleted(f, s)
  <2>1. {"order.completed"} \cap Outcomes = {OutcomeOf["COMPLETED"]}
    BY OutcomeNames DEF Outcomes
  <2> QED
    BY <1>4, <1>11, <2>1 DEF FulfillmentCompleted, Terminal
<1>12. CASE CancellationCompleted(f, s)
  <2>1. ({"order.cancelled"} \cup CompensationCommands(s, f.type)) \cap Outcomes
          = {OutcomeOf["CANCELLED"]}
    BY NoOutcomeInCompensation, OutcomeNames DEF Outcomes
  <2>2. s.status = "CANCEL_REQUESTED"
    BY <1>12, MarkedRow DEF CancellationCompleted, CancellationComplete
  <2> QED
    BY <1>4, <1>12, <2>1, <2>2, SMTT(60) DEF CancellationCompleted, Terminal, IsTerminal
<1>13. CASE CompensationReported(f, s)
  <2>1. CompensationCommands(s, f.type) \cap Outcomes = {}
    BY NoOutcomeInCompensation, SMTT(60)
  <2>2. CASE order' = order
    BY <1>0, <1>1, <1>13, <2>1, <2>2, NoOutcome DEF CompensationReported
  <2>3. CASE UpdateOrder(o, s, Marked(f, row))
    <3>1. /\ order'[o] = Marked(f, row)
          /\ \A p \in Orders \ {o} : order'[p] = order[p]
      <4>1. Marked(f, row) \in Row
        BY <1>0, MarkedRow
      <4> QED
        BY <1>0, <2>3, <4>1, ZenonT(60) DEF UpdateOrder, StoreTypeOK
    <3>2. Marked(f, row).status = row.status /\ RowKept(row, Marked(f, row))
      BY <1>0, MarkedRow, MarkedKeeps
    <3>3. \A p \in Orders : order'[p].status = order[p].status
      BY <3>1, <3>2, SMTT(60)
    <3> QED
      <4>1. InsertOutbox(o, CompensationCommands(s, f.type))
        BY <1>13 DEF CompensationReported
      <4>2. OutcomeAnnouncedOnce'
        BY <1>0, <2>1, <3>3, <4>1, NoOutcome, ZenonT(60)
      <4>3. \A p \in Orders : RowKept(order[p], order'[p])
        BY <1>0, <3>1, <3>2, ZenonT(60) DEF RowKept
      <4> QED
        BY <4>2, <4>3
  <2> QED
    BY <1>13, <2>2, <2>3 DEF CompensationReported
<1> QED
  BY <1>5, <1>6, <1>7, <1>8, <1>9, <1>10, <1>11, <1>12, <1>13 DEF ApplyFact

LEMMA ApiOutcome ==
  ASSUME Inv, OutcomeAnnouncedOnce, Api
  PROVE  OutcomeAnnouncedOnce' /\ \A p \in Orders : RowKept(order[p], order'[p])
<1>0. StoreTypeOK
  BY DEF Inv, TypeOK
<1>1. CASE UNCHANGED storeVars
  BY <1>1 DEF storeVars, OutcomeAnnouncedOnce, RowKept
<1>2. ASSUME NEW o \in Orders, NEW row, NEW msgs, row.status \notin Terminal,
             RowKept(order[o], row), ~IsTerminal(order[o].status),
             order' = [order EXCEPT ![o] = row],
             InsertOutbox(o, msgs), msgs \cap Outcomes = {}
      PROVE  OutcomeAnnouncedOnce' /\ \A p \in Orders : RowKept(order[p], order'[p])
  <2>1. order'[o] = row /\ \A p \in Orders \ {o} : order'[p] = order[p]
    BY <1>0, <1>2 DEF StoreTypeOK
  <2>2. \A p \in Orders, st \in Terminal :
          order'[p].status = st <=> order[p].status = st
    BY <1>2, <2>1 DEF IsTerminal
  <2> QED
    BY <1>0, <1>2, <2>1, <2>2, NoOutcome DEF RowKept
<1>3. ASSUME NEW q \in Requests, NEW o \in Orders, CreateOrder(q, o)
      PROVE  OutcomeAnnouncedOnce' /\ \A p \in Orders : RowKept(order[p], order'[p])
  <2> DEFINE row == [NoRow EXCEPT !.status = "PENDING", !.version = 1]
  <2>1. order[o] = NoRow
    BY <1>3 DEF CreateOrder, Create, Inv, AbsentRows
  <2>2. row.status \notin Terminal /\ RowKept(order[o], row) /\ ~IsTerminal(order[o].status)
    BY <2>1 DEF NoRow, RowKept, Terminal, IsTerminal
  <2>3. /\ order' = [order EXCEPT ![o] = row]
        /\ InsertOutbox(o, {"order.created", "inventory.reserve"})
        /\ {"order.created", "inventory.reserve"} \cap Outcomes = {}
    BY <1>3 DEF CreateOrder, Create, Outcomes
  <2> HIDE DEF row
  <2> QED
    BY <1>2, <2>2, <2>3, ZenonT(60)
<1>4. ASSUME NEW q \in Requests, NEW o \in Orders, CancelOrder(q, o)
      PROVE  OutcomeAnnouncedOnce' /\ \A p \in Orders : RowKept(order[p], order'[p])
  <2> DEFINE row == Workflow(order[o], "CANCEL_REQUESTED", {})
             msgs == {"order.cancellation_requested"} \cup
                     CompensationCommands(order[o], "order.cancellation_requested")
  <2>1. order[o] \in Row /\ ~IsTerminal(order[o].status)
    BY <1>0, <1>4 DEF CancelOrder, RequestCancellation, StoreTypeOK, IsTerminal, Terminal
  <2>2. row.status \notin Terminal /\ RowKept(order[o], row)
    BY <2>1, WorkflowRow, WorkflowKeeps, SMTT(60) DEF Terminal, Status
  <2>3. order' = [order EXCEPT ![o] = row] /\ InsertOutbox(o, msgs)
    BY <1>4 DEF CancelOrder, RequestCancellation
  <2>4. msgs \cap Outcomes = {}
    BY NoOutcomeInCompensation, SMTT(60) DEF Outcomes
  <2> HIDE DEF row, msgs
  <2> QED
    BY <1>2, <2>1, <2>2, <2>3, <2>4, ZenonT(60)
<1> QED
  BY <1>1, <1>3, <1>4 DEF Api, FindForCancel, CancelRefused, KeyReused

(* Every step of the saga announces outcomes as it should and takes        *)
(* nothing back.                                                           *)
LEMMA NextOutcome ==
  ASSUME Inv, OutcomeAnnouncedOnce, [Next]_vars
  PROVE  OutcomeAnnouncedOnce' /\ \A p \in Orders : RowKept(order[p], order'[p])
<1>0. StoreTypeOK
  BY DEF Inv, TypeOK
<1>1. CASE UNCHANGED storeVars
  BY <1>1, SMTT(60) DEF storeVars, OutcomeAnnouncedOnce, RowKept
<1>2. CASE Api
  BY <1>2, ApiOutcome
<1>3. ASSUME NEW r \in Replicas, NEW t \in Topics,
             CommitFact(r, t) \/ CommitUnacknowledged(r, t)
      PROVE  OutcomeAnnouncedOnce' /\ \A p \in Orders : RowKept(order[p], order'[p])
  BY <1>0, <1>3, LoadedRow, ApplyFactOutcome DEF CommitFact, CommitUnacknowledged
<1>4. ASSUME NEW o \in Orders, Dependencies(o)
      PROVE  UNCHANGED storeVars
  BY <1>4, ZenonT(60)
  DEF Dependencies, InventoryStep, PaymentStep, FulfillmentStep, Inventory,
              Payments, Fulfillment, Announce
<1>5. ASSUME NEW r \in Replicas, NEW t \in Topics, Consume(r, t)
      PROVE  UNCHANGED storeVars \/ CommitFact(r, t)
  BY <1>5 DEF Consume, InvalidIdentity, InsertInbox, AlreadySettled, LoadOrder,
              ProcessFactError, RecordFactFailure, NoInboxIdentity, PublishDLQ,
              MarkFactDeadLetter, CommitMessages
<1>6. ASSUME Disturb
      PROVE  UNCHANGED storeVars \/ \E r \in Replicas, t \in Topics :
                                      CommitUnacknowledged(r, t)
  BY <1>6 DEF Disturb, CallFails, Restart, Rebalance, Republish
<1>7. ASSUME NEW t \in Topics, NEW o \in Orders, PublishMalformed(t, o)
      PROVE  UNCHANGED storeVars
  BY <1>7 DEF PublishMalformed
<1>8. CASE UNCHANGED vars
  BY <1>1, <1>8 DEF vars
<1> QED
  BY <1>1, <1>2, <1>3, <1>4, <1>5, <1>6, <1>7, <1>8 DEF Next

LEMMA InitOutcome == Init => OutcomeAnnouncedOnce
<1> SUFFICES ASSUME Init, NEW o \in Orders, NEW st \in Terminal
             PROVE  outbox[o][OutcomeOf[st]] = IF order[o].status = st THEN 1 ELSE 0
  BY DEF OutcomeAnnouncedOnce
<1>1. outbox[o][OutcomeOf[st]] = 0
  BY OutcomeNames DEF Init, StoreInit
<1>2. order[o].status = "ABSENT"
  BY DEF Init, StoreInit, NoRow
<1> QED
  BY <1>1, <1>2 DEF Terminal

(* A finished order has announced exactly one outcome, the one its row     *)
(* shows, and an unfinished one none: cancellation and completion racing   *)
(* each other, and facts applied twice, never produce a second.            *)
THEOREM OneOutcome == Spec => []OutcomeAnnouncedOnce
<1>1. Init => OutcomeAnnouncedOnce
  BY InitOutcome
<1>2. Inv /\ OutcomeAnnouncedOnce /\ [Next]_vars => OutcomeAnnouncedOnce'
  BY NextOutcome
<1> QED
  BY <1>1, <1>2, SagaInvariant, PTL DEF Spec

(* No step leaves a terminal status or unsets a price or a reference.      *)
THEOREM OutcomeIsFinal == Spec => TerminalIsFinal
<1>1. Inv /\ OutcomeAnnouncedOnce /\ [Next]_vars =>
        [\A o \in Orders :
           /\ IsTerminal(order[o].status) => order'[o].status = order[o].status
           /\ order[o].totalMinor => order'[o].totalMinor
           /\ order[o].reservationID => order'[o].reservationID
           /\ order[o].paymentID => order'[o].paymentID]_order
  BY NextOutcome DEF RowKept
<1> QED
  BY <1>1, SagaInvariant, OneOutcome, PTL DEF Spec, TerminalIsFinal
===============================================================================
