------------------------------- MODULE OrdersApi ------------------------------
(***************************************************************************)
(* The Orders HTTP API over the orders tables: authentication of the       *)
(* gateway and of the actor it speaks for, ownership, creation, reading,   *)
(* cursor pagination and cancellation, every SQL statement of a handler a  *)
(* step of its own, while facts price orders and move their status.        *)
(*                                                                         *)
(* Idempotency keys and the saga behind create and cancel are OrderSaga's: *)
(* here every key is fresh, and a fact is one step (FactConsumer has its   *)
(* interleavings).  Order ids are random, so that their order says nothing *)
(* of the order of creation.                                               *)
(***************************************************************************)
EXTENDS OrderPricing, SequencesExt

CONSTANTS Requests,         \* the requests the server works on at a time
          OrderIds,         \* ids orders may get, a bounded set of numbers
          Asks,             \* which operations each of them may be
          Headers,          \* what the requests present
          Customers, ItemLists, Quotes, Limits,
          Statuses,         \* the filters asked for
          FactStatuses,     \* the statuses facts give
          ProductIds, Prices,       \* what the arithmetic is checked on
          StaticToken,      \* is a static gateway token configured?
          MaxTime

ASSUME ApiAssumption ==
  /\ OrderIds \subseteq Nat
  /\ Asks \in [Requests -> SUBSET {"create", "list", "read", "cancel"}]
  /\ "" \in Statuses                  \* no filter
  /\ FactStatuses \subseteq {"CONFIRMED", "CANCELLED", "COMPLETED", "FAILED"}
  /\ Limits \subseteq 1 .. 100
  /\ StaticToken \in BOOLEAN /\ MaxTime \in Nat

VARIABLES orders,           \* the rows: a function on the ids in use
          clock, req

vars == <<orders, clock, req>>

Rank == [PENDING |-> 0, CONFIRMED |-> 1, CANCEL_REQUESTED |-> 2,
         CANCELLED |-> 3, COMPLETED |-> 3, FAILED |-> 3]

(* prices are the line totals written on the items, <<>> before that.      *)
Row == [customer : Customers, created : Nat, status : DOMAIN Rank, version : Nat,
        items : ItemLists, total : Int, prices : Seq(Nat)]

NoCursor == [customer |-> "", status |-> "", created |-> 0, id |-> 0]

(* Its first three fields are what the request asked, ids the rows still   *)
(* to load, page the orders loaded, next the cursor sent back.  seen and   *)
(* must follow a listing over its pages: the ids returned, and the orders  *)
(* that matched its filter from its start until now.                       *)
Fresh == [op |-> "", headers |-> CHOOSE h \in Headers : TRUE,
          filter |-> NoCursor, limit |-> 1, now |-> 0, items |-> <<>>, version |-> 0,
          pc |-> "done", ids |-> <<>>, page |-> <<>>, more |-> FALSE,
          next |-> NoCursor, seen |-> <<>>, must |-> {}, reply |-> FALSE]

Statements == {"insert", "select", "row", "items", "cancel"}

Init ==
  /\ orders = <<>>
  /\ clock = 1
  /\ req = [r \in Requests |-> Fresh]

-------------------------------------------------------------------------------
(* Who asks.  headers is [token, kind, subject, machine, scopes, actor,    *)
(* type]: the bearer token and its claims, and the forwarded actor.        *)

hasOrdersMachineScope(h) == h.machine \cap {"orders:read", "orders:write"} # {}

trustedActor(h) == h.actor \in Customers /\ h.type = "human"

(* The signature, expiry and audience of a token are KeyCache's and the    *)
(* JWT library's; token = "valid" says they hold.                          *)
Authenticate(h) ==
  /\ IF StaticToken THEN h.token = "static"
     ELSE /\ h.token = "valid" /\ h.kind = "service"
          /\ h.subject = "gateway" /\ hasOrdersMachineScope(h)
  /\ trustedActor(h)

(* Mutant: a scope on one's own orders is a scope on all orders.           *)
MayAnySelf(h, verb, customer) == {<<verb, "self">>, <<verb, "any">>} \cap h.scopes # {}

May(h, verb, customer) ==
  \/ <<verb, "any">> \in h.scopes
  \/ h.actor = customer /\ <<verb, "self">> \in h.scopes

(* Someone else's order looks like no order.                               *)
Denied(h, customer) == IF h.actor = customer THEN 403 ELSE 404

-------------------------------------------------------------------------------
(* Steps of a request.                                                     *)

(* No property tells one refusal from another, so none is remembered.      *)
Refuse(status) == Fresh

(* A reply keeps what the properties are about, which leaves out the       *)
(* status an order is shown with.                                          *)
Reply(rec) ==
  [Fresh EXCEPT !.op = rec.op, !.headers = rec.headers, !.filter = rec.filter,
                !.must = rec.must, !.reply = TRUE,
                !.page = [i \in DOMAIN rec.page |-> [rec.page[i] EXCEPT !.status = ""]],
                !.seen = rec.seen \o [i \in DOMAIN rec.page |-> rec.page[i].id]]

Set(r, rec) == req' = [req EXCEPT ![r] = rec]

(* A listing loses from must an order that no longer matches its filter.   *)
WriteOrder(o, row, reqs) ==
  /\ orders' = [orders EXCEPT ![o] = row]
  /\ req' = [q \in Requests |->
       IF reqs[q].filter.status \in {"", row.status} THEN reqs[q]
       ELSE [reqs[q] EXCEPT !.must = @ \ {o}]]

(* A request that the route, the Idempotency-Key, the query or the body    *)
(* disqualifies.                                                           *)
Malformed(r) ==
  /\ req[r].pc = "done"
  /\ \E status \in {400, 404, 405} : Set(r, Refuse(status))
  /\ UNCHANGED <<orders, clock>>

Begin(r, rec) ==
  /\ req[r].pc = "done"
  /\ Set(r, IF Authenticate(rec.headers) THEN rec ELSE Refuse(401))
  /\ UNCHANGED <<orders, clock>>

(* The handlers up to their first statement.                               *)

createOrder(r) ==
  \E h \in Headers, customer \in Customers, items \in ItemLists :
    LET rec == [Fresh EXCEPT !.op = "write", !.headers = h, !.items = items,
                             !.filter.customer = customer, !.now = clock]
    IN  Begin(r, IF ~May(h, "write", customer) THEN Refuse(403)
                 ELSE IF ~NewOrder(items) THEN Refuse(422)
                 ELSE [rec EXCEPT !.pc = "insert"])

(* Get and Cancel read the order first.                                    *)
findByID(r, op) ==
  \E h \in Headers, o \in OrderIds :
    Begin(r, [Fresh EXCEPT !.op = op, !.headers = h, !.ids = <<o>>, !.pc = "row"])

CursorFits(cursor, customer, status) ==
  cursor = NoCursor \/ (cursor.customer = customer /\ cursor.status = status)

(* With the cursor of the page before, the request continues its listing;  *)
(* the caller may ask for another customer or status with it.              *)
listOrders(r) ==
  \E h \in Headers, customer \in Customers, status \in Statuses, limit \in Limits,
     cursor \in {NoCursor, req[r].next} :
    LET rec == [Fresh EXCEPT !.op = "read", !.headers = h, !.limit = limit,
                  !.filter = [cursor EXCEPT !.customer = customer, !.status = status],
                  !.seen = IF cursor = NoCursor THEN <<>> ELSE req[r].seen,
                  !.must = IF cursor = NoCursor THEN {} ELSE req[r].must]
    IN  Begin(r, IF ~May(h, "read", customer) THEN Refuse(403)
                 ELSE IF ~CursorFits(cursor, customer, status) THEN Refuse(400)
                 ELSE [rec EXCEPT !.pc = "select"])

-------------------------------------------------------------------------------
(* The statements.                                                         *)

InsertOrder(r) ==
  /\ req[r].pc = "insert"
  /\ \E o \in OrderIds \ DOMAIN orders :
       orders' = (o :> [customer |-> req[r].filter.customer, created |-> req[r].now,
                        status |-> "PENDING", version |-> 1, items |-> req[r].items,
                        total |-> NULL, prices |-> <<>>]) @@ orders
  /\ Set(r, Fresh)
  /\ UNCHANGED clock

Matches(f) ==
  {o \in DOMAIN orders : /\ orders[o].customer = f.customer
                         /\ f.status \in {"", orders[o].status}}

(* (created_at, id) < (cursor's created_at, cursor's id)                   *)
Before(o, created, id) ==
  orders[o].created < created \/ (orders[o].created = created /\ o < id)

(* Mutant: the keyset compares the time of creation alone.                 *)
AfterCursorByTime(f) ==
  {o \in Matches(f) : f.id = 0 \/ orders[o].created < f.created}

AfterCursor(f) ==
  {o \in Matches(f) : f.id = 0 \/ Before(o, f.created, f.id)}

(* Mutant: the row fetched to see whether there is more is returned too.   *)
PageWithExtra(rows, limit) == SubSeq(rows, 1, Min({Len(rows), limit + 1}))

PageOf(rows, limit) == SubSeq(rows, 1, Min({Len(rows), limit}))

(* The page and one row more, newest first.                                *)
ListOrders(r) ==
  LET f    == req[r].filter
      rows == SetToSortSeq(AfterCursor(f),
                LAMBDA a, b : Before(b, orders[a].created, a))
      page == PageOf(rows, req[r].limit)
      must == IF f.id = 0 THEN Matches(f) ELSE req[r].must
  IN  /\ req[r].pc = "select"
      /\ Set(r, IF page = <<>> THEN [Reply(req[r]) EXCEPT !.must = must]
                ELSE [req[r] EXCEPT !.pc = "row", !.ids = page, !.must = must,
                                    !.more = Len(rows) > req[r].limit])
      /\ UNCHANGED <<orders, clock>>

ViewOf(o) == [id |-> o, customer |-> orders[o].customer, created |-> orders[o].created,
              status |-> orders[o].status, total |-> orders[o].total, prices |-> <<>>]

(* loadOrder is two statements with no transaction around them.            *)
GetOrder(r) ==
  LET o == Head(req[r].ids)
  IN  /\ req[r].pc = "row"
      /\ Set(r, IF o \notin DOMAIN orders THEN Refuse(404)
                ELSE [req[r] EXCEPT !.pc = "items",
                        !.version = orders[o].version,
                        !.page = Append(@, ViewOf(o))])
      /\ UNCHANGED <<orders, clock>>

(* The order of the loaded rows, or what the handler makes of it.          *)
Answer(rec) ==
  LET last == rec.page[Len(rec.page)]
  IN  IF rec.filter.customer # ""     \* a listing
      THEN [Reply(rec) EXCEPT
              !.next = IF ~rec.more THEN NoCursor
                       ELSE [rec.filter EXCEPT !.created = last.created, !.id = last.id]]
      ELSE IF ~May(rec.headers, rec.op, last.customer)
      THEN Refuse(Denied(rec.headers, last.customer))
      ELSE IF rec.op = "read" THEN Reply(rec)
      ELSE [rec EXCEPT !.pc = "cancel"]

(* Mutant: the items are read first, and then their order.                 *)
WithItemsFirst(view) ==
  [view EXCEPT !.total = orders[view.id].total,
               !.prices = IF view.total = NULL THEN <<>> ELSE orders[view.id].prices]

WithItems(view) == [view EXCEPT !.prices = orders[view.id].prices]

GetOrderItems(r) ==
  LET rec == [req[r] EXCEPT !.ids = Tail(@), !.page[Len(req[r].page)] = WithItems(@)]
  IN  /\ req[r].pc = "items"
      /\ Set(r, IF rec.ids # <<>> THEN [rec EXCEPT !.pc = "row"] ELSE Answer(rec))
      /\ UNCHANGED <<orders, clock>>

(* Mutant: the order is cancelled at whatever version it has by now.       *)
CancelledAnyway(o, version) == orders[o].status \in {"PENDING", "CONFIRMED"}

Cancellable(o, version) ==
  orders[o].version = version /\ orders[o].status \in {"PENDING", "CONFIRMED"}

(* The update finds no row when the order moved on: not found.             *)
RequestCancellation(r) ==
  LET o   == req[r].page[1].id
      row == [orders[o] EXCEPT !.status = "CANCEL_REQUESTED", !.version = @ + 1]
  IN  /\ req[r].pc = "cancel"
      /\ IF Cancellable(o, req[r].version)
         THEN WriteOrder(o, row, [req EXCEPT ![r] = Fresh])
         ELSE Set(r, Refuse(404)) /\ UNCHANGED orders
      /\ UNCHANGED clock

DependencyError(r) ==
  /\ req[r].pc \in Statements
  /\ Set(r, Refuse(503))
  /\ UNCHANGED <<orders, clock>>

-------------------------------------------------------------------------------
(* The consumer, and time.                                                 *)

(* A quote is [lines, signed, expires].                                    *)
Verify(quote) == quote.signed /\ quote.expires > clock

Pricing(row, lines) ==
  [row EXCEPT !.total = RunningTotal(row.items, lines), !.version = @ + 1,
              !.prices = [i \in DOMAIN row.items |-> LineTotal(row.items[i], lines)]]

applyInventoryReserved(o, quote) ==
  /\ orders[o].status = "PENDING" /\ orders[o].total = NULL
  /\ Verify(quote)
  /\ QuoteMatches(orders[o].items, quote.lines)
  /\ RunningTotal(orders[o].items, quote.lines) # NULL
  /\ WriteOrder(o, Pricing(orders[o], quote.lines), req)
  /\ UNCHANGED clock

(* Every other fact that changes the status moves it forward (OrderSaga    *)
(* has the conditions); an order is confirmed once it has its total.       *)
ProcessFact(o) ==
  \E st \in FactStatuses :
    /\ Rank[st] > Rank[orders[o].status]
    /\ st = "CONFIRMED" => orders[o].total # NULL
    /\ WriteOrder(o, [orders[o] EXCEPT !.status = st, !.version = @ + 1], req)
    /\ UNCHANGED clock

Tick ==
  /\ clock < MaxTime
  /\ clock' = clock + 1
  /\ UNCHANGED <<orders, req>>

Next ==
  \/ \E r \in Requests :
       \/ Malformed(r)
       \/ "create" \in Asks[r] /\ createOrder(r)
       \/ "list" \in Asks[r] /\ listOrders(r)
       \/ \E op \in {"read", "cancel"} \cap Asks[r] : findByID(r, op)
       \/ InsertOrder(r) \/ ListOrders(r) \/ GetOrder(r) \/ GetOrderItems(r)
       \/ RequestCancellation(r)
       \/ DependencyError(r)
  \/ \E o \in DOMAIN orders :
       (\E quote \in Quotes : applyInventoryReserved(o, quote)) \/ ProcessFact(o)
  \/ Tick

Spec == Init /\ [][Next]_vars

-------------------------------------------------------------------------------
(* Properties.                                                             *)

View == [id : OrderIds, customer : Customers, created : Nat,
         status : DOMAIN Rank \cup {""}, total : Int, prices : Seq(Nat)]

(* The rows and the requests are records of their types; the rows a        *)
(* request still has to load are ids it was given or selected, none twice. *)
TypeOK ==
  /\ DOMAIN orders \subseteq OrderIds
  /\ \A o \in DOMAIN orders : orders[o] \in Row
  /\ clock \in 1 .. MaxTime
  /\ \A r \in Requests :
       /\ req[r].pc \in Statements \cup {"done"}
       /\ req[r].headers \in Headers
       /\ req[r].ids \in Seq(OrderIds) /\ req[r].page \in Seq(View)
       /\ Len(req[r].page) + Len(req[r].ids) <= req[r].limit + 1
       /\ req[r].must \subseteq DOMAIN orders

(* No order of another customer is returned or cancelled without the scope *)
(* on any customer's orders, whatever cursor or id the request names and   *)
(* whatever happened since the authorisation was decided.                  *)
NoForeignOrders ==
  \A r \in Requests : \A i \in DOMAIN req[r].page :
    LET h == req[r].headers
    IN  (req[r].pc \in {"cancel", "done"} /\ req[r].page[i].customer # h.actor)
          => <<req[r].op, "any">> \in h.scopes

(* An order that shows its total shows the prices of its items too, and    *)
(* they add up to it.  loadOrder reads the two with two statements outside *)
(* a transaction, so an order may show prices without a total: the row is  *)
(* read first, which makes this direction hold.                            *)
TotalsComeWithPrices ==
  \A r \in Requests : \A i \in DOMAIN req[r].page :
    LET view == req[r].page[i]
    IN  (req[r].pc = "done" /\ view.total # NULL) =>
          /\ Len(view.prices) = Len(orders[view.id].items)
          /\ view.total = FoldSeq(+, 0, view.prices)

(* Of the items NewOrder accepts, the checked int64 arithmetic of          *)
(* ApplyQuote finds the exact total, and refuses exactly the quotes worth  *)
(* more than MaxTotalMinor, for every assignment of prices.  No variable   *)
(* matters to it, so the initial state is enough.                          *)
PricingIsExact == Init =>
  \A items \in UNION {[1 .. n -> [product : ProductIds, quantity : 0 .. MaxQuantity + 1]] :
                       n \in 0 .. MaxItems + 1} : \A p \in [DOMAIN items -> Prices] :
    LET lines == [i \in DOMAIN items |->
                    [product |-> items[i].product, quantity |-> items[i].quantity,
                     price |-> p[i], total |-> int64(p[i] * items[i].quantity)]]
        exact == ExactTotal(items, lines)
        total == RunningTotal(items, lines)
    IN  NewOrder(items) =>
          /\ QuoteMatches(items, lines) /\ total # NULL <=> exact <= MaxTotalMinor
          /\ exact <= MaxTotalMinor => total = exact

(* A listing followed to its last page returned every order that was there *)
(* when it began and matched its filter ever since, none twice and none of *)
(* another customer, though orders are created, priced and moved between   *)
(* its pages and creation times tie.                                       *)
ListingIsComplete ==
  \A r \in Requests :
    LET seen == req[r].seen
    IN  (req[r].pc = "done" /\ req[r].reply /\ req[r].filter.customer # "") =>
          /\ IsInjective(seen)
          /\ \A i \in DOMAIN seen : orders[seen[i]].customer = req[r].filter.customer
          /\ req[r].next = NoCursor => req[r].must \subseteq ToSet(seen)

(* A cancellation takes effect on the order as its caller was authorised   *)
(* on it, with the status, the total and the prices Cancel read: what has  *)
(* to be compensated is not decided on an order that has moved.            *)
CancelsWhatWasRead ==
  [][\A o \in DOMAIN orders :
       (orders[o].status # "CANCEL_REQUESTED" /\ orders'[o].status = "CANCEL_REQUESTED")
         => \E r \in Requests : /\ req[r].pc = "cancel"
                                /\ req[r].page[1] = [ViewOf(o) EXCEPT !.prices = orders[o].prices]]_vars

===============================================================================
