------------------------------ MODULE OrderStore ------------------------------
(***************************************************************************)
(* The Orders database and the transactions of its PostgreSQL store        *)
(* (internal/adapters/outbound/postgres/store.go with the statements of    *)
(* database/orders/queries/orders.sql).                                    *)
(*                                                                         *)
(* A transaction that works on an order row it has read earlier takes that *)
(* row as the parameter s (the Go value `order`).  Its decisions look at s,*)
(* its UPDATE looks at the current row and is conditional on the version:  *)
(* READ COMMITTED lets any other transaction commit in between.  A nullable*)
(* column is modelled by whether it is set; amounts, identifiers of the    *)
(* dependencies, reasons and timestamps are left out.                      *)
(***************************************************************************)
EXTENDS Naturals

CONSTANTS Orders,   \* order identifiers the service may hand out
          Keys,     \* idempotency keys, one actor's
          Bodies    \* request bodies that hash differently

VARIABLES order,        \* table orders
          saga,         \* table saga_instances: the phase of the order's saga
          outbox,       \* table outbox_events: rows written, per order and type
          idempotency   \* table idempotency_records

storeVars == <<order, saga, outbox, idempotency>>

Terminal == {"CANCELLED", "COMPLETED", "FAILED"}

Status == {"PENDING", "CONFIRMED", "CANCEL_REQUESTED"} \cup Terminal

Row == [status : Status \cup {"ABSENT"}, version : Nat,
        totalMinor : BOOLEAN, reservationID : BOOLEAN, paymentID : BOOLEAN,
        inventoryReleased : BOOLEAN, paymentRefunded : BOOLEAN]

NoRow == [status |-> "ABSENT", version |-> 0,
          totalMinor |-> FALSE, reservationID |-> FALSE, paymentID |-> FALSE,
          inventoryReleased |-> FALSE, paymentRefunded |-> FALSE]

Phase == {"NONE", "INVENTORY_RESERVATION_PENDING", "CANCELLATION_REQUESTED",
          "CANCELLED"}

Commands == {"inventory.reserve", "inventory.release", "payment.authorize",
             "payment.refund", "fulfillment.create"}

OutcomeOf == [CANCELLED |-> "order.cancelled", COMPLETED |-> "order.completed",
              FAILED |-> "order.failed"]

Messages == Commands \cup {OutcomeOf[st] : st \in Terminal}
              \cup {"order.created", "order.confirmed",
                    "order.cancellation_requested"}

(* Rows of one type are counted up to Many: no property tells two rows     *)
(* from three.                                                             *)
Many == 2

Operations == {"create", "cancel"}

IdempotencyRecord == [operation : Operations, key : Keys, body : Bodies,
                      order : Orders]

StoreTypeOK ==
  /\ order \in [Orders -> Row]
  /\ saga \in [Orders -> Phase]
  /\ outbox \in [Orders -> [Messages -> 0 .. Many]]
  /\ idempotency \subseteq IdempotencyRecord

StoreInit ==
  /\ order = [o \in Orders |-> NoRow]
  /\ saga = [o \in Orders |-> "NONE"]
  /\ outbox = [o \in Orders |-> [m \in Messages |-> 0]]
  /\ idempotency = {}

Exists(o) == order[o].status # "ABSENT"

IsTerminal(status) == status \in Terminal

-------------------------------------------------------------------------------
(* Statements.                                                             *)

InsertOutbox(o, msgs) ==
  outbox' = [outbox EXCEPT ![o] =
               [m \in Messages |-> IF m \in msgs /\ outbox[o][m] < Many
                                     THEN outbox[o][m] + 1
                                     ELSE outbox[o][m]]]

(* Mutant: the UPDATE is not conditional on the version.                   *)
UpdateOrderUnversioned(o, s, row) == order' = [order EXCEPT ![o] = row]

(* Every UPDATE of an order row carries WHERE aggregate_version = $n.      *)
UpdateOrder(o, s, row) ==
  /\ order[o].version = s.version
  /\ order' = [order EXCEPT ![o] = row]

(* UPDATE ... SET status, COALESCE(columns), aggregate_version + 1.        *)
Workflow(row, status, columns) ==
  [status |-> status,
   version |-> row.version + 1,
   totalMinor |-> row.totalMinor \/ "totalMinor" \in columns,
   reservationID |-> row.reservationID \/ "reservationID" \in columns,
   paymentID |-> row.paymentID \/ "paymentID" \in columns,
   inventoryReleased |-> row.inventoryReleased,
   paymentRefunded |-> row.paymentRefunded]

RecordOf(op, key) ==
  {rec \in idempotency : rec.operation = op /\ rec.key = key}

-------------------------------------------------------------------------------
(* The transactions behind the HTTP API.  Both begin with INSERT ... ON    *)
(* CONFLICT DO NOTHING on the idempotency key, which makes a second        *)
(* transaction with the key wait for the first.                            *)

(* Mutant: a key that exists is not noticed.                               *)
CreateAgain(key, body, o) ==
  /\ ~Exists(o)
  /\ idempotency' = idempotency \cup
       {[operation |-> "create", key |-> key, body |-> body, order |-> o]}
  /\ order' = [order EXCEPT ![o] =
                 [NoRow EXCEPT !.status = "PENDING", !.version = 1]]
  /\ saga' = [saga EXCEPT ![o] = "INVENTORY_RESERVATION_PENDING"]
  /\ InsertOutbox(o, {"order.created", "inventory.reserve"})

Create(key, body, o) ==
  /\ RecordOf("create", key) = {}
  /\ ~Exists(o)
  /\ idempotency' = idempotency \cup
       {[operation |-> "create", key |-> key, body |-> body, order |-> o]}
  /\ order' = [order EXCEPT ![o] =
                 [NoRow EXCEPT !.status = "PENDING", !.version = 1]]
  /\ saga' = [saga EXCEPT ![o] = "INVENTORY_RESERVATION_PENDING"]
  /\ InsertOutbox(o, {"order.created", "inventory.reserve"})

(* Mutant: a failed payment releases nothing.                              *)
CompensationAfterFulfillment(s, event) ==
  LET undo == event \in {"fulfillment.failed", "order.cancellation_requested"}
  IN {c \in {"inventory.release"} : undo /\ s.reservationID}
     \cup {c \in {"payment.refund"} : undo /\ s.paymentID /\ s.totalMinor}

(* insertCompensationCommands: what must be undone after the event, given  *)
(* the references the row s holds.                                         *)
CompensationCommands(s, event) ==
  {c \in {"inventory.release"} :
     /\ event \in {"payment.failed", "fulfillment.failed",
                   "order.cancellation_requested"}
     /\ s.reservationID}
  \cup
  {c \in {"payment.refund"} :
     /\ event \in {"fulfillment.failed", "order.cancellation_requested"}
     /\ s.paymentID /\ s.totalMinor}

RequestCancellation(key, body, o, version) ==
  /\ RecordOf("cancel", key) = {}
  /\ order[o].version = version
  /\ order[o].status \in {"PENDING", "CONFIRMED"}
  /\ idempotency' = idempotency \cup
       {[operation |-> "cancel", key |-> key, body |-> body, order |-> o]}
  /\ order' = [order EXCEPT ![o] = Workflow(order[o], "CANCEL_REQUESTED", {})]
  /\ saga' = [saga EXCEPT ![o] = "CANCELLATION_REQUESTED"]
  /\ InsertOutbox(o, {"order.cancellation_requested"} \cup
                     CompensationCommands(order[o], "order.cancellation_requested"))

-------------------------------------------------------------------------------
(* ProcessFact.  A fact is [type, order, n, valid]: n tells two            *)
(* announcements of one type apart (their event ids), valid says that the  *)
(* quote (inventory.reserved), payment reference, amount and currency      *)
(* (payment.authorized) or shipment (fulfillment.completed) it carries     *)
(* passes the handler's checks.  The quote is verified for a PENDING order *)
(* only.  Reservation references are always well formed here.              *)

FailureFacts == {"inventory.rejected", "payment.failed", "fulfillment.failed"}

SupportedFacts == FailureFacts \cup
  {"inventory.reserved", "inventory.released", "payment.authorized",
   "payment.refunded", "fulfillment.completed"}

(* The handler's errors that depend on the fact and the row alone.         *)
Rejected(f, s) ==
  \/ /\ f.type = "inventory.reserved"
     /\ s.status = "PENDING"
     /\ ~f.valid \/ s.totalMinor
  \/ /\ f.type = "payment.authorized"
     /\ s.status \in {"PENDING", "CANCEL_REQUESTED"}
     /\ ~f.valid \/ ~s.totalMinor \/ (s.status = "PENDING" /\ ~s.reservationID)
  \/ f.type = "inventory.released" /\ ~s.reservationID
  \/ f.type = "payment.refunded" /\ ~s.paymentID
  \/ f.type = "fulfillment.completed" /\ ~IsTerminal(s.status) /\ ~f.valid

(* The early returns that leave every table but the inbox alone.           *)
Ignorable(f, s) ==
  \/ f.type \in SupportedFacts \ {"inventory.released", "payment.refunded"}
     /\ IsTerminal(s.status)
  \/ f.type \in {"inventory.reserved", "payment.authorized"}
     /\ s.status = "CONFIRMED"
  \/ f.type = "inventory.released" /\ s.reservationID
     /\ IsTerminal(s.status) /\ s.inventoryReleased
  \/ f.type = "payment.refunded" /\ s.paymentID
     /\ IsTerminal(s.status) /\ s.paymentRefunded

IgnoreFact(f, s) ==
  /\ Ignorable(f, s)
  /\ UNCHANGED <<order, saga, outbox>>

(* Mutant: the price is stored without the reservation.                    *)
ReservedWithoutReference(f, s) ==
  /\ f.type = "inventory.reserved"
  /\ s.status = "PENDING"
  /\ ~Rejected(f, s)
  /\ UpdateOrder(f.order, s, Workflow(order[f.order], "PENDING", {"totalMinor"}))
  /\ InsertOutbox(f.order, {"payment.authorize"})
  /\ UNCHANGED saga

ReservedWhilePending(f, s) ==
  /\ f.type = "inventory.reserved"
  /\ s.status = "PENDING"
  /\ ~Rejected(f, s)
  /\ UpdateOrder(f.order, s, Workflow(order[f.order], "PENDING",
                                      {"reservationID", "totalMinor"}))
  /\ InsertOutbox(f.order, {"payment.authorize"})
  /\ UNCHANGED saga

(* Mutant: a reservation that arrives after the cancellation is kept.      *)
ReservedAndKept(f, s) ==
  /\ f.type = "inventory.reserved"
  /\ s.status = "CANCEL_REQUESTED"
  /\ UpdateOrder(f.order, s, Workflow(order[f.order], "CANCEL_REQUESTED",
                                      {"reservationID"}))
  /\ UNCHANGED <<outbox, saga>>

ReservedWhileCancelling(f, s) ==
  /\ f.type = "inventory.reserved"
  /\ s.status = "CANCEL_REQUESTED"
  /\ UpdateOrder(f.order, s, Workflow(order[f.order], "CANCEL_REQUESTED",
                                      {"reservationID"}))
  /\ InsertOutbox(f.order, CompensationCommands([s EXCEPT !.reservationID = TRUE],
                                                "order.cancellation_requested"))
  /\ UNCHANGED saga

AuthorizedWhilePending(f, s) ==
  /\ f.type = "payment.authorized"
  /\ s.status = "PENDING"
  /\ ~Rejected(f, s)
  /\ UpdateOrder(f.order, s, Workflow(order[f.order], "CONFIRMED", {"paymentID"}))
  /\ InsertOutbox(f.order, {"order.confirmed", "fulfillment.create"})
  /\ UNCHANGED saga

AuthorizedWhileCancelling(f, s) ==
  /\ f.type = "payment.authorized"
  /\ s.status = "CANCEL_REQUESTED"
  /\ ~Rejected(f, s)
  /\ UpdateOrder(f.order, s, Workflow(order[f.order], "CANCEL_REQUESTED",
                                      {"paymentID"}))
  /\ InsertOutbox(f.order, CompensationCommands([s EXCEPT !.paymentID = TRUE],
                                                "order.cancellation_requested"))
  /\ UNCHANGED saga

(* Mutant: no look at the terminal states.                                 *)
DependencyFailedLate(f, s) ==
  /\ f.type \in FailureFacts
  /\ s.status # "CANCEL_REQUESTED"
  /\ UpdateOrder(f.order, s, Workflow(order[f.order], "FAILED", {}))
  /\ InsertOutbox(f.order, {"order.failed"} \cup CompensationCommands(s, f.type))
  /\ UNCHANGED saga

DependencyFailed(f, s) ==
  /\ f.type \in FailureFacts
  /\ s.status \in {"PENDING", "CONFIRMED"}
  /\ UpdateOrder(f.order, s, Workflow(order[f.order], "FAILED", {}))
  /\ InsertOutbox(f.order, {"order.failed"} \cup CompensationCommands(s, f.type))
  /\ UNCHANGED saga

FulfillmentCompleted(f, s) ==
  /\ f.type = "fulfillment.completed"
  /\ ~IsTerminal(s.status)
  /\ ~Rejected(f, s)
  /\ UpdateOrder(f.order, s, Workflow(order[f.order], "COMPLETED", {}))
  /\ InsertOutbox(f.order, {"order.completed"})
  /\ UNCHANGED saga

(* Mutant: the marks do not move the version.                              *)
MarkedSameVersion(f, row) ==
  [row EXCEPT
     !.inventoryReleased = @ \/ f.type \in {"inventory.released", "inventory.rejected"},
     !.paymentRefunded = @ \/ f.type \in {"payment.refunded", "payment.failed"}]

(* markInventoryReleased, markPaymentRefunded: a rejection counts as a     *)
(* release, a failed authorization as a refund.                            *)
Marked(f, row) ==
  LET released == f.type \in {"inventory.released", "inventory.rejected"}
      refunded == f.type \in {"payment.refunded", "payment.failed"}
      marks    == \/ released /\ ~row.inventoryReleased
                  \/ refunded /\ ~row.paymentRefunded
  IN [status |-> row.status,
      version |-> IF marks THEN row.version + 1 ELSE row.version,
      totalMinor |-> row.totalMinor,
      reservationID |-> row.reservationID,
      paymentID |-> row.paymentID,
      inventoryReleased |-> row.inventoryReleased \/ released,
      paymentRefunded |-> row.paymentRefunded \/ refunded]

(* Mutant: one of the two compensations is enough.                         *)
CancellationHalfComplete(row) ==
  /\ row.status = "CANCEL_REQUESTED"
  /\ \/ row.reservationID => row.inventoryReleased
     \/ row.paymentID => row.paymentRefunded

CancellationComplete(row) ==
  /\ row.status = "CANCEL_REQUESTED"
  /\ row.reservationID => row.inventoryReleased
  /\ row.paymentID => row.paymentRefunded

ReportsCompensation(f, s) ==
  \/ f.type = "inventory.released" /\ s.reservationID /\ ~Ignorable(f, s)
  \/ f.type = "payment.refunded" /\ s.paymentID /\ ~Ignorable(f, s)
  \/ f.type \in FailureFacts /\ s.status = "CANCEL_REQUESTED"

CompensationReported(f, s) ==
  /\ ReportsCompensation(f, s)
  /\ ~CancellationComplete(Marked(f, s))
  /\ \/ Marked(f, s) = s /\ UNCHANGED order
     \/ Marked(f, s) # s /\ UpdateOrder(f.order, s, Marked(f, order[f.order]))
  /\ InsertOutbox(f.order, CompensationCommands(s, f.type))
  /\ UNCHANGED saga

CancellationCompleted(f, s) ==
  /\ ReportsCompensation(f, s)
  /\ CancellationComplete(Marked(f, s))
  /\ UpdateOrder(f.order, s,
                 Workflow(Marked(f, order[f.order]), "CANCELLED", {}))
  /\ InsertOutbox(f.order, {"order.cancelled"} \cup CompensationCommands(s, f.type))
  /\ saga' = [saga EXCEPT ![f.order] = "CANCELLED"]

ApplyFact(f, s) ==
  /\ \/ IgnoreFact(f, s)
     \/ ReservedWhilePending(f, s)
     \/ ReservedWhileCancelling(f, s)
     \/ AuthorizedWhilePending(f, s)
     \/ AuthorizedWhileCancelling(f, s)
     \/ DependencyFailed(f, s)
     \/ FulfillmentCompleted(f, s)
     \/ CompensationReported(f, s)
     \/ CancellationCompleted(f, s)
  /\ UNCHANGED idempotency

(* rows != 1: the order row changed after the transaction read it.         *)
StaleVersion(f, s) ==
  /\ ~Rejected(f, s)
  /\ ~Ignorable(f, s)
  /\ ~(/\ ReportsCompensation(f, s)
       /\ Marked(f, s) = s
       /\ ~CancellationComplete(s))
  /\ order[f.order].version # s.version
===============================================================================
