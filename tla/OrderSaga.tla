------------------------------- MODULE OrderSaga -------------------------------
(***************************************************************************)
(* The order saga: callers of the Orders API, the consumers of the relay   *)
(* and the three services that answer its commands, over one database.     *)
(*                                                                         *)
(* Inventory, Payments and Fulfillment are not part of the repository.     *)
(* They are modelled by what Orders relies on: a command is answered once, *)
(* by one deterministic result, however often it is delivered.  A command  *)
(* can be answered as soon as its outbox row is committed and arbitrarily  *)
(* later, which covers every delay of the outbox relay.                    *)
(***************************************************************************)
EXTENDS FactConsumer

CONSTANTS Requests,   \* [id, operation, key, body] requests sent to the API
          FactKinds,  \* the types of fact the dependencies announce
          Validity    \* the values of `valid` those facts may carry

ASSUME RequestsAssumption ==
  Requests \subseteq [id : Nat, operation : Operations, key : Keys, body : Bodies]

ASSUME FactsAssumption == FactKinds \subseteq FactTypes /\ Validity \subseteq BOOLEAN

VARIABLES call,        \* request -> progress and answer
          inventory, payment, fulfillment   \* order -> state of the dependency

dependencyVars == <<inventory, payment, fulfillment>>

vars == <<storeVars, consumerVars, call, dependencyVars>>

Replies == {"none", "accepted", "conflict", "not_found"}

Call == [pc : {"ready", "found", "done"}, order : SUBSET Orders, version : Nat,
         reply : Replies]

TypeOK ==
  /\ StoreTypeOK
  /\ ConsumerTypeOK
  /\ call \in [Requests -> Call]
  /\ inventory \in [Orders -> {"idle", "reserved", "rejected", "released"}]
  /\ payment \in [Orders -> {"idle", "authorized", "failed", "refunded",
                             "refund_failed"}]
  /\ fulfillment \in [Orders -> {"idle", "created", "completed", "failed"}]

Init ==
  /\ StoreInit
  /\ ConsumerInit
  /\ call = [q \in Requests |-> [pc |-> "ready", order |-> {}, version |-> 0,
                                 reply |-> "none"]]
  /\ inventory = [o \in Orders |-> "idle"]
  /\ payment = [o \in Orders |-> "idle"]
  /\ fulfillment = [o \in Orders |-> "idle"]

-------------------------------------------------------------------------------
(* The API.  The order a call is about is a set of at most one element.    *)

Reply(q, o, reply) ==
  call' = [call EXCEPT ![q] = [pc |-> "done", order |-> {o}, version |-> 0,
                               reply |-> reply]]

CreateOrder(q, o) ==
  /\ q.operation = "create"
  /\ call[q].pc = "ready"
  /\ Create(q.key, q.body, o)
  /\ Reply(q, o, "accepted")
  /\ UNCHANGED <<consumerVars, dependencyVars>>

(* FindByID, before and outside the transaction that cancels.              *)
FindForCancel(q, o) ==
  /\ q.operation = "cancel"
  /\ call[q].pc = "ready"
  /\ Exists(o)
  /\ call' = [call EXCEPT ![q] = [pc |-> "found", order |-> {o},
                                  version |-> order[o].version, reply |-> "none"]]
  /\ UNCHANGED <<storeVars, consumerVars, dependencyVars>>

CancelOrder(q, o) ==
  /\ call[q].pc = "found"
  /\ o \in call[q].order
  /\ RequestCancellation(q.key, q.body, o, call[q].version)
  /\ Reply(q, o, "accepted")
  /\ UNCHANGED <<consumerVars, dependencyVars>>

(* UpdateOrderCancellation matched no row: sql.ErrNoRows, mapped to        *)
(* ErrNotFound.  The inserted key is rolled back.                          *)
CancelRefused(q, o) ==
  /\ call[q].pc = "found"
  /\ o \in call[q].order
  /\ RecordOf("cancel", q.key) = {}
  /\ \/ order[o].version # call[q].version
     \/ order[o].status \notin {"PENDING", "CONFIRMED"}
  /\ Reply(q, o, "not_found")
  /\ UNCHANGED <<storeVars, consumerVars, dependencyVars>>

(* The key is taken: replay, or 409 when the request hash differs.  The    *)
(* hash of a cancellation covers the order identifier.                     *)
KeyReused(q) ==
  /\ call[q].pc = (IF q.operation = "create" THEN "ready" ELSE "found")
  /\ \E rec \in RecordOf(q.operation, q.key) :
       IF rec.body = q.body /\ (q.operation = "cancel" => rec.order \in call[q].order)
         THEN Reply(q, rec.order, "accepted")
         ELSE Reply(q, rec.order, "conflict")
  /\ UNCHANGED <<storeVars, consumerVars, dependencyVars>>

Api ==
  \/ \E q \in Requests, o \in Orders :
       \/ CreateOrder(q, o)
       \/ FindForCancel(q, o)
       \/ CancelOrder(q, o)
       \/ CancelRefused(q, o)
  \/ \E q \in Requests : KeyReused(q)

-------------------------------------------------------------------------------
(* The dependencies.                                                       *)

(* The facts whose contents a handler checks against the order.            *)
CheckedFacts == {"inventory.reserved", "payment.authorized", "fulfillment.completed"}

Announce(t, type, o) ==
  /\ type \in FactKinds
  /\ \E v \in (IF type \in CheckedFacts THEN Validity ELSE {TRUE}) :
       log' = [log EXCEPT ![t] =
                 Append(log[t], [type |-> type, order |-> o, n |-> 1, valid |-> v])]
  /\ UNCHANGED <<committed, assigned, thread, inbox, dlq, mishaps, storeVars, call>>

Issued(o, command) == outbox[o][command] > 0

Inventory(o, command, from, to, type) ==
  /\ Issued(o, command)
  /\ inventory[o] = from
  /\ inventory' = [inventory EXCEPT ![o] = to]
  /\ Announce("inventory", type, o)
  /\ UNCHANGED <<payment, fulfillment>>

Payments(o, command, from, to, type) ==
  /\ Issued(o, command)
  /\ payment[o] = from
  /\ payment' = [payment EXCEPT ![o] = to]
  /\ Announce("payment", type, o)
  /\ UNCHANGED <<inventory, fulfillment>>

Fulfillment(o, command, from, to, type) ==
  /\ Issued(o, command)
  /\ fulfillment[o] = from
  /\ fulfillment' = [fulfillment EXCEPT ![o] = to]
  /\ Announce("fulfillment", type, o)
  /\ UNCHANGED <<inventory, payment>>

InventoryStep(o) ==
  \/ Inventory(o, "inventory.reserve", "idle", "reserved", "inventory.reserved")
  \/ Inventory(o, "inventory.reserve", "idle", "rejected", "inventory.rejected")
  \/ Inventory(o, "inventory.release", "reserved", "released", "inventory.released")

PaymentStep(o) ==
  \/ Payments(o, "payment.authorize", "idle", "authorized", "payment.authorized")
  \/ Payments(o, "payment.authorize", "idle", "failed", "payment.failed")
  \/ Payments(o, "payment.refund", "authorized", "refunded", "payment.refunded")
  \/ Payments(o, "payment.refund", "authorized", "refund_failed",
              "payment.refund_failed")

FulfillmentStep(o) ==
  \/ Fulfillment(o, "fulfillment.create", "idle", "created", "fulfillment.created")
  \/ \E from \in {"idle", "created"} :
       \/ Fulfillment(o, "fulfillment.create", from, "completed",
                      "fulfillment.completed")
       \/ Fulfillment(o, "fulfillment.create", from, "failed", "fulfillment.failed")

(* A producer writes a payload without an event identity.                  *)
PublishMalformed(t, o) ==
  /\ "malformed" \in FactKinds
  /\ Mishap
  /\ log' = [log EXCEPT ![t] = Append(log[t],
                [type |-> "malformed", order |-> o, n |-> 1, valid |-> FALSE])]
  /\ UNCHANGED <<committed, assigned, thread, inbox, dlq, storeVars, call,
                 dependencyVars>>

Dependencies(o) == InventoryStep(o) \/ PaymentStep(o) \/ FulfillmentStep(o)

-------------------------------------------------------------------------------
Next ==
  \/ Api
  \/ \E o \in Orders : Dependencies(o)
  \/ /\ \E r \in Replicas, t \in Topics : Consume(r, t)
     /\ UNCHANGED <<call, dependencyVars>>
  \/ Disturb /\ UNCHANGED <<call, dependencyVars>>
  \/ \E t \in Topics, o \in Orders : PublishMalformed(t, o)

Spec == Init /\ [][Next]_vars

(* A consumer that can take a step takes one: consumeMessages loops until  *)
(* its context ends, and a stopped relay is started again.  A dependency   *)
(* answers the commands it is given.  No caller has to send a request.     *)
Fairness ==
  /\ \A r \in Replicas, t \in Topics :
       WF_vars(Consume(r, t) /\ UNCHANGED <<call, dependencyVars>>)
  /\ \A o \in Orders : /\ WF_vars(InventoryStep(o))
                       /\ WF_vars(PaymentStep(o))
                       /\ WF_vars(FulfillmentStep(o))

FairSpec == Spec /\ Fairness

-------------------------------------------------------------------------------
(* Safety.                                                                 *)

(* Optimistic concurrency is sound: a transaction that holds an order row  *)
(* whose version is still the current one holds the current row, whatever  *)
(* committed since loadOrder read it.                                      *)
VersionIdentifiesRow ==
  \A r \in Replicas, t \in Topics : PC(r, t) = "loaded" =>
    LET s == thread[r][t].snap
        row == order[Message(r, t).order]
    IN s.version <= row.version /\ (s.version = row.version => s = row)

(* The outbox announces exactly one outcome per finished order, the one    *)
(* the row shows, and none before (ProcessFact, maybeCompleteCancellation).*)
OutcomeAnnouncedOnce ==
  \A o \in Orders, st \in Terminal :
    outbox[o][OutcomeOf[st]] = IF order[o].status = st THEN 1 ELSE 0

(* No forward step of the saga is commanded twice, whatever is delivered   *)
(* twice, retried or processed by two replicas.                            *)
ForwardStepsOnce ==
  \A o \in Orders, m \in {"inventory.reserve", "payment.authorize",
                          "order.confirmed", "fulfillment.create"} :
    outbox[o][m] <= 1

(* Payment is commanded only for a stored, priced reservation, and         *)
(* shipment only for a payment that Payments did authorize.                *)
StepsInOrder ==
  \A o \in Orders :
    /\ Issued(o, "payment.authorize") =>
         /\ order[o].reservationID /\ order[o].totalMinor
         /\ inventory[o] \in {"reserved", "released"}
    /\ Issued(o, "fulfillment.create") =>
         /\ order[o].paymentID
         /\ payment[o] \in {"authorized", "refunded", "refund_failed"}

(* Once an order is on its way to CANCELLED or FAILED, every reservation   *)
(* and payment its row refers to has its compensation in the outbox        *)
(* (insertCompensationCommands is called wherever it is needed).           *)
CompensationIssued ==
  \A o \in Orders : order[o].status \in {"CANCEL_REQUESTED", "CANCELLED", "FAILED"} =>
    /\ order[o].reservationID => Issued(o, "inventory.release")
    /\ order[o].paymentID => Issued(o, "payment.refund")

(* inventory_released and payment_refunded tell the truth about the        *)
(* services they describe, and CANCELLED is reached only when every        *)
(* reservation and payment on record was given back.                       *)
CompensationConfirmed ==
  \A o \in Orders :
    /\ order[o].inventoryReleased => inventory[o] \in {"released", "rejected"}
    /\ order[o].paymentRefunded => payment[o] \in {"refunded", "failed"}
    /\ order[o].status = "CANCELLED" =>
         /\ order[o].reservationID => inventory[o] = "released"
         /\ order[o].paymentID => payment[o] = "refunded"

(* A cancellation that was answered 202 is never undone: no late fact puts *)
(* the order back to PENDING or CONFIRMED.                                 *)
CancellationSticks ==
  \A q \in Requests, o \in Orders :
    /\ q.operation = "cancel"
    /\ call[q].reply = "accepted"
    /\ o \in call[q].order
    => order[o].status \in {"CANCEL_REQUESTED"} \cup Terminal

(* Requests that share an operation and a key and are both accepted are    *)
(* one request: same body, same order; and no order exists without a       *)
(* create key of its own.                                                  *)
KeysIdentifyRequests ==
  /\ \A p, q \in Requests :
       /\ p.operation = q.operation /\ p.key = q.key
       /\ call[p].reply = "accepted" /\ call[q].reply = "accepted"
       => p.body = q.body /\ call[p].order = call[q].order
  /\ \A o \in Orders : Exists(o) =>
       \E rec \in idempotency : rec.operation = "create" /\ rec.order = o
         /\ RecordOf("create", rec.key) = {rec}

(* An offset is committed only past facts that were applied or published   *)
(* to the DLQ, also by a replica that lost the partition meanwhile.        *)
AcknowledgedAreSettled ==
  \A t \in Topics : \A i \in 1 .. committed[t] :
    LET f == log[t][i]
    IN f \in dlq \/ (f \in DOMAIN inbox /\ inbox[f].processedAt)

(* A terminal status is final, and so are the price and the references of  *)
(* an order once they are set.                                             *)
TerminalIsFinal ==
  [][\A o \in Orders :
       /\ IsTerminal(order[o].status) => order'[o].status = order[o].status
       /\ order[o].totalMinor => order'[o].totalMinor
       /\ order[o].reservationID => order'[o].reservationID
       /\ order[o].paymentID => order'[o].paymentID]_order

allowedTransition(from, to) ==
  \/ from = "PENDING" /\ to \in {"CONFIRMED", "CANCEL_REQUESTED", "FAILED"}
  \/ from = "CONFIRMED" /\ to \in {"CANCEL_REQUESTED", "COMPLETED", "FAILED"}
  \/ from = "CANCEL_REQUESTED" /\ to \in {"CANCELLED", "FAILED"}

(* Although the store never calls allowedTransition, facts and requests in *)
(* any order move a status only as it allows, with one exception that the  *)
(* code makes: a shipment completes an order that is being cancelled.      *)
TransitionsAreAllowed ==
  [][\A o \in Orders :
       Exists(o) /\ order'[o].status # order[o].status =>
         \/ allowedTransition(order[o].status, order'[o].status)
         \/ <<order[o].status, order'[o].status>> = <<"CANCEL_REQUESTED", "COMPLETED">>]_order

-------------------------------------------------------------------------------
(* Liveness, under FairSpec.                                               *)

Quarantined(o) == \E f \in dlq : f.order = o

(* An accepted order ends in a terminal state unless one of its facts was  *)
(* quarantined for an operator.                                            *)
OrderSettles ==
  \A o \in Orders :
    Exists(o) ~> (IsTerminal(order[o].status) \/ Quarantined(o))

(* Every fact is eventually acknowledged: a poison message does not hold   *)
(* its partition for ever.                                                 *)
FactsAcknowledged ==
  \A t \in Topics : <>[](committed[t] = Len(log[t]))

-------------------------------------------------------------------------------
(* What the documents say and the code does not do.                        *)

(* CANCELLED waits for every required release and refund: Inventory holds  *)
(* no stock and Payments no money for a cancelled order.                   *)
CancelledHoldsNothing ==
  \A o \in Orders : order[o].status = "CANCELLED" =>
    inventory[o] # "reserved" /\ payment[o] # "authorized"
===============================================================================
