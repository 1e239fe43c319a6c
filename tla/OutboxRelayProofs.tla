--------------------------- MODULE OutboxRelayProofs ---------------------------
(* Theorems about OutboxRelay, for any rows, replicas, batch size, lease,  *)
(* delays and number of mishaps.                                           *)
EXTENDS OutboxRelay, TLAPS

(* What a replica holds was committed to the outbox.                       *)
BatchRequested ==
  \A r \in Relays : \A x \in DOMAIN relay[r].batch : table[x].state # "absent"

(* Only committed rows reach Kafka.                                        *)
WrittenWasRequested ==
  \A x \in Rows : copies[x] > 0 => table[x].state # "absent"

Inv == TypeOK /\ BatchRequested /\ WrittenWasRequested /\ PublishedWasWritten

-------------------------------------------------------------------------------
LEMMA BatchRows ==
  ASSUME NEW b \in Batch
  PROVE  DOMAIN b \subseteq Rows /\ \A x \in DOMAIN b : b[x] \in 0 .. Len(Delays)
BY DEF Batch

LEMMA IsABatch ==
  ASSUME NEW xs \in SUBSET Rows, NEW b \in [xs -> 0 .. Len(Delays)]
  PROVE  b \in Batch
BY DEF Batch

LEMMA IdleType == Idle \in RelayState /\ DOMAIN Idle.batch = {} /\ Idle.pc = "idle"
<1>1. [x \in {} |-> 0] \in Batch /\ DOMAIN [x \in {} |-> 0] = {}
  BY ZenonT(30) DEF Batch
<1> QED
  BY <1>1 DEF Idle, RelayState

LEMMA BackoffType ==
  ASSUME NEW n \in 0 .. Len(Delays)
  PROVE  outboxBackoff(n) \in Nat /\ Bump(n) \in 0 .. Len(Delays)
BY RelayAssumption DEF outboxBackoff, Bump

(* A replica's step replaces its own state by one that holds nothing new.  *)
RelayStep(r, new) ==
  /\ relay' = [relay EXCEPT ![r] = new]
  /\ new \in RelayState
  /\ DOMAIN new.batch \subseteq DOMAIN relay[r].batch
  /\ new.pc \in {"sent", "unsent"} => new.row \in DOMAIN new.batch

LEMMA NextRowStep ==
  ASSUME TypeOK, NEW r \in Relays, NextRow(r)
  PROVE  \E new : RelayStep(r, new) /\ new.pc \in {"idle", "batch"}
<1> DEFINE rest == DOMAIN relay[r].batch \ {relay[r].row}
           b == [x \in rest |-> relay[r].batch[x]]
           more == [pc |-> "batch", row |-> 0, lease |-> relay[r].lease, batch |-> b]
<1>1. relay[r] \in RelayState /\ relay[r].batch \in Batch
  BY DEF TypeOK, RelayState
<1>2. b \in Batch
  <2>1. rest \subseteq Rows /\ b \in [rest -> 0 .. Len(Delays)]
    BY <1>1, BatchRows
  <2> QED
    BY <2>1, IsABatch
<1>3. more \in RelayState /\ DOMAIN more.batch = rest /\ more.pc = "batch"
  BY <1>1, <1>2 DEF RelayState
<1>4. relay' = [relay EXCEPT ![r] = IF rest = {} THEN Idle ELSE more]
  BY DEF NextRow
<1> HIDE DEF more
<1>5. CASE rest = {}
  BY <1>4, <1>5, IdleType, ZenonT(30) DEF RelayStep
<1>6. CASE rest # {}
  BY <1>3, <1>4, <1>6, ZenonT(30) DEF RelayStep
<1> QED
  BY <1>5, <1>6

(* What the steps of a replica preserve, given how the table changes.      *)
LEMMA RelayStepInv ==
  ASSUME Inv, NEW r \in Relays, NEW new, RelayStep(r, new),
         table' \in [Rows -> TableRow],
         \A x \in Rows : table[x].state # "absent" => table'[x].state # "absent"
  PROVE  /\ relay' \in [Relays -> RelayState]
         /\ \A q \in Relays :
              relay'[q].pc \in {"sent", "unsent"} =>
                relay'[q].row \in DOMAIN relay'[q].batch
         /\ BatchRequested'
<1>1. /\ relay' \in [Relays -> RelayState]
      /\ relay'[r] = new /\ \A q \in Relays \ {r} : relay'[q] = relay[q]
  BY DEF Inv, TypeOK, RelayStep
<1>2. \A q \in Relays : DOMAIN relay'[q].batch \subseteq DOMAIN relay[q].batch
  BY <1>1 DEF RelayStep
<1>3. \A q \in Relays : DOMAIN relay[q].batch \subseteq Rows
  BY BatchRows DEF Inv, TypeOK, RelayState
<1>4. BatchRequested'
  BY <1>2, <1>3 DEF Inv, BatchRequested
<1> QED
  BY <1>1, <1>4 DEF Inv, TypeOK, RelayStep

(* The row a replica has just handled is a row of the table.               *)
LEMMA HandledRow ==
  ASSUME Inv, NEW r \in Relays, relay[r].pc \in {"sent", "unsent"}
  PROVE  /\ relay[r].row \in Rows
         /\ relay[r].batch[relay[r].row] \in 0 .. Len(Delays)
         /\ table[relay[r].row].state # "absent"
<1>1. relay[r].batch \in Batch /\ relay[r].row \in DOMAIN relay[r].batch
  BY DEF Inv, TypeOK, RelayState
<1> QED
  BY <1>1, BatchRows DEF Inv, BatchRequested

LEMMA InitInv == Init => Inv
<1> SUFFICES ASSUME Init PROVE Inv
  OBVIOUS
<1>1. table \in [Rows -> TableRow] /\ copies \in [Rows -> 0 .. Many]
      /\ mishaps \in 0 .. MaxMishaps
  BY RelayAssumption DEF Init, TableRow, Many
<1>2. relay \in [Relays -> RelayState]
      /\ \A r \in Relays : relay[r].pc = "idle" /\ DOMAIN relay[r].batch = {}
  BY IdleType DEF Init
<1> QED
  BY <1>1, <1>2 DEF Init, Inv, TypeOK, BatchRequested, WrittenWasRequested,
                    PublishedWasWritten

LEMMA WrittenCopies ==
  ASSUME TypeOK, NEW x \in Rows, Written(x)
  PROVE  /\ copies' \in [Rows -> 0 .. Many]
         /\ copies'[x] > 0
         /\ \A y \in Rows \ {x} : copies'[y] = copies[y]
BY DEF TypeOK, Written, Many

LEMMA MishapType == ASSUME TypeOK, Mishap PROVE mishaps' \in 0 .. MaxMishaps
BY RelayAssumption DEF TypeOK, Mishap

LEMMA NextInv == ASSUME Inv, [Next]_vars PROVE Inv'
<1>0. TypeOK
  BY DEF Inv
<1>1. ASSUME NEW x \in Rows, InsertOutbox(x) PROVE Inv'
  <2>1. /\ table' \in [Rows -> TableRow]
        /\ table'[x].state = "pending" /\ \A y \in Rows \ {x} : table'[y] = table[y]
    BY <1>0, <1>1, ZenonT(30) DEF InsertOutbox, TypeOK, TableRow
  <2>2. \A r \in Relays : DOMAIN relay[r].batch \subseteq Rows
    BY <1>0, BatchRows DEF TypeOK, RelayState
  <2>3. TypeOK'
    BY <1>0, <1>1, <2>1 DEF InsertOutbox, TypeOK
  <2> QED
    BY <1>1, <2>1, <2>2, <2>3 DEF InsertOutbox, Inv, BatchRequested, WrittenWasRequested,
                                 PublishedWasWritten
<1>2. ASSUME NEW r \in Relays, ClaimPendingOutbox(r) PROVE Inv'
  <2>1. PICK batch \in SUBSET Claimable :
          /\ table' = [x \in Rows |->
               IF x \in batch THEN [table[x] EXCEPT !.lease = Lease] ELSE table[x]]
          /\ relay' = [relay EXCEPT ![r] =
               [pc |-> "batch", batch |-> [x \in batch |-> table[x].attempts],
                row |-> 0, lease |-> Lease]]
    BY <1>2, ZenonT(30) DEF ClaimPendingOutbox
  <2> DEFINE b == [x \in batch |-> table[x].attempts]
             new == [pc |-> "batch", batch |-> b, row |-> 0, lease |-> Lease]
  <2>2. batch \subseteq Rows /\ \A x \in batch : table[x].state = "pending"
    BY DEF Claimable
  <2>3. b \in Batch
    <3>1. b \in [batch -> 0 .. Len(Delays)]
      BY <1>0, <2>2 DEF TypeOK, TableRow
    <3> QED
      BY <2>2, <3>1, IsABatch
  <2>4. new \in RelayState /\ new.pc = "batch" /\ DOMAIN new.batch = batch
    BY <2>3, RelayAssumption DEF RelayState
  <2>5. /\ table' \in [Rows -> TableRow]
        /\ \A x \in Rows : table'[x].state = table[x].state
    BY <1>0, <2>1, RelayAssumption, ZenonT(30) DEF TypeOK, TableRow
  <2> HIDE DEF new
  <2>6. /\ relay' \in [Relays -> RelayState]
        /\ relay'[r] = new /\ \A q \in Relays \ {r} : relay'[q] = relay[q]
    BY <1>0, <2>1, <2>4 DEF TypeOK, new
  <2>7. \A q \in Relays : DOMAIN relay[q].batch \subseteq Rows
    BY <1>0, BatchRows DEF TypeOK, RelayState
  <2>8. BatchRequested'
    BY <2>2, <2>4, <2>5, <2>6, <2>7 DEF Inv, BatchRequested
  <2>9. TypeOK'
    BY <1>0, <1>2, <2>4, <2>5, <2>6 DEF TypeOK, ClaimPendingOutbox
  <2>10. WrittenWasRequested' /\ PublishedWasWritten'
    BY <1>2, <2>4, <2>5, <2>6
    DEF Inv, WrittenWasRequested, PublishedWasWritten, ClaimPendingOutbox
  <2> QED
    BY <2>8, <2>9, <2>10 DEF Inv
<1>3. ASSUME NEW r \in Relays, NEW x \in Rows,
             WriteMessages(r, x) \/ WriteMessagesError(r, x)
      PROVE  Inv'
  <2>1. PICK pc \in {"sent", "unsent"} :
          /\ Step(r, pc, x) /\ table' = table
          /\ pc = "sent" => Written(x)
          /\ copies' = copies \/ Written(x)
    BY <1>3 DEF WriteMessages, WriteMessagesError
  <2> DEFINE new == [pc |-> pc, batch |-> relay[r].batch, row |-> x,
                     lease |-> relay[r].lease]
  <2>2. x \in DOMAIN relay[r].batch /\ mishaps' \in 0 .. MaxMishaps
    BY <1>0, <1>3, MishapType DEF WriteMessages, WriteMessagesError, TypeOK
  <2>3. new \in RelayState /\ new.pc = pc /\ new.row = x /\ new.batch = relay[r].batch
    BY <1>0, RelayAssumption DEF TypeOK, RelayState
  <2>4. relay' = [relay EXCEPT ![r] = new]
    BY <2>1 DEF Step
  <2> HIDE DEF new
  <2>5. RelayStep(r, new)
    BY <2>2, <2>3, <2>4 DEF RelayStep
  <2>6. relay'[r] = new /\ \A q \in Relays \ {r} : relay'[q] = relay[q]
    BY <1>0, <2>4 DEF TypeOK
  <2>7. /\ relay' \in [Relays -> RelayState]
        /\ \A q \in Relays :
             relay'[q].pc \in {"sent", "unsent"} =>
               relay'[q].row \in DOMAIN relay'[q].batch
        /\ BatchRequested'
    BY <1>0, <2>1, <2>5, RelayStepInv DEF TypeOK
  <2>8. /\ copies' \in [Rows -> 0 .. Many]
        /\ \A y \in Rows : copies[y] > 0 => copies'[y] > 0
        /\ \A y \in Rows \ {x} : copies'[y] = copies[y]
        /\ pc = "sent" => copies'[x] > 0
    BY <1>0, <2>1, WrittenCopies DEF TypeOK
  <2>9. TypeOK'
    BY <1>0, <2>1, <2>2, <2>7, <2>8 DEF TypeOK
  <2>10. WrittenWasRequested'
    BY <2>1, <2>2, <2>8 DEF Inv, WrittenWasRequested, BatchRequested
  <2>11. PublishedWasWritten'
    <3>1. \A q \in Relays : relay[q].pc = "sent" => relay[q].row \in Rows
      BY HandledRow
    <3> QED
      BY <2>1, <2>3, <2>6, <2>8, <3>1 DEF Inv, PublishedWasWritten
  <2> QED
    BY <2>7, <2>9, <2>10, <2>11 DEF Inv
<1>4. ASSUME NEW r \in Relays, NEW new, RelayStep(r, new), new.pc \in {"idle", "batch"},
             table' \in [Rows -> TableRow], copies' = copies,
             mishaps' \in 0 .. MaxMishaps,
             \A x \in Rows : table'[x].state # table[x].state =>
               copies[x] > 0 /\ table'[x].state = "published"
      PROVE  Inv'
  <2>1. relay'[r] = new /\ \A q \in Relays \ {r} : relay'[q] = relay[q]
    BY <1>0, <1>4 DEF TypeOK, RelayStep
  <2>2. /\ relay' \in [Relays -> RelayState]
        /\ \A q \in Relays :
             relay'[q].pc \in {"sent", "unsent"} =>
               relay'[q].row \in DOMAIN relay'[q].batch
        /\ BatchRequested'
    BY <1>4, RelayStepInv
  <2>3. TypeOK'
    BY <1>0, <1>4, <2>2 DEF TypeOK
  <2> QED
    BY <1>4, <2>1, <2>2, <2>3 DEF Inv, WrittenWasRequested, PublishedWasWritten
<1>5. ASSUME NEW r \in Relays, MarkOutboxPublished(r) \/ MarkOutboxFailed(r) PROVE Inv'
  <2> DEFINE x == relay[r].row
  <2>1. /\ x \in Rows /\ relay[r].batch[x] \in 0 .. Len(Delays)
        /\ table[x] \in TableRow /\ table[x].attempts \in 0 .. Len(Delays)
    BY <1>0, <1>5, HandledRow DEF MarkOutboxPublished, MarkOutboxFailed, TypeOK, TableRow
  <2>2. outboxBackoff(relay[r].batch[x]) \in Nat /\ Bump(table[x].attempts) \in 0 .. Len(Delays)
    BY <2>1, BackoffType, ZenonT(30)
  <2>3. PICK new : RelayStep(r, new) /\ new.pc \in {"idle", "batch"}
    BY <1>0, <1>5, NextRowStep DEF MarkOutboxPublished, MarkOutboxFailed
  <2>4. CASE MarkOutboxPublished(r)
    <3>1. /\ table' \in [Rows -> TableRow]
          /\ \A y \in Rows : table'[y].state # table[y].state =>
               y = x /\ table'[y].state = "published"
      BY <1>0, <2>1, <2>2, <2>4, ZenonT(30) DEF MarkOutboxPublished, TypeOK, TableRow
    <3>2. copies[x] > 0
      BY <2>4 DEF MarkOutboxPublished, Inv, PublishedWasWritten
    <3> QED
      BY <1>0, <1>4, <2>3, <2>4, <3>1, <3>2 DEF MarkOutboxPublished, TypeOK
  <2>5. CASE MarkOutboxFailed(r)
    <3>1. /\ table' \in [Rows -> TableRow]
          /\ \A y \in Rows : table'[y].state = table[y].state
      BY <1>0, <2>1, <2>2, <2>5, ZenonT(30) DEF MarkOutboxFailed, TypeOK, TableRow
    <3> QED
      BY <1>0, <1>4, <2>3, <2>5, <3>1 DEF MarkOutboxFailed, TypeOK
  <2> QED
    BY <1>5, <2>4, <2>5
<1>6. ASSUME NEW r \in Relays, MarkError(r) \/ Crash(r) PROVE Inv'
  <2>1. PICK new : RelayStep(r, new) /\ new.pc \in {"idle", "batch"}
    BY <1>0, <1>6, NextRowStep, IdleType DEF MarkError, Crash, RelayStep
  <2> QED
    BY <1>0, <1>4, <1>6, <2>1, MishapType DEF MarkError, Crash, TypeOK
<1>7. CASE Tick
  <2>1. \A n \in Nat : Decrement(n) \in Nat
    BY DEF Decrement
  <2>2. /\ table' \in [Rows -> TableRow]
        /\ \A x \in Rows : table'[x].state = table[x].state
    BY <1>0, <1>7, <2>1, ZenonT(30) DEF Tick, TypeOK, TableRow
  <2>3. /\ relay' \in [Relays -> RelayState]
        /\ \A r \in Relays : /\ relay'[r].pc = relay[r].pc
                              /\ relay'[r].row = relay[r].row
                              /\ relay'[r].batch = relay[r].batch
    BY <1>0, <1>7, <2>1, ZenonT(30) DEF Tick, TypeOK, RelayState
  <2>4. TypeOK'
    BY <1>0, <1>7, <2>2, <2>3, ZenonT(30) DEF Tick, TypeOK
  <2>5. \A r \in Relays : DOMAIN relay[r].batch \subseteq Rows
    BY <1>0, BatchRows DEF TypeOK, RelayState
  <2>6. copies' = copies /\ BatchRequested /\ WrittenWasRequested /\ PublishedWasWritten
    BY <1>7, ZenonT(30) DEF Tick, Inv
  <2>7. BatchRequested'
    BY <2>2, <2>3, <2>5, <2>6 DEF BatchRequested
  <2>8. WrittenWasRequested'
    BY <2>2, <2>6, ZenonT(60) DEF WrittenWasRequested
  <2>9. PublishedWasWritten'
    BY <2>2, <2>3, <2>6, ZenonT(60) DEF PublishedWasWritten
  <2> QED
    BY <2>4, <2>7, <2>8, <2>9 DEF Inv
<1>8. CASE UNCHANGED vars
  BY <1>8 DEF vars, Inv, TypeOK, BatchRequested, WrittenWasRequested, PublishedWasWritten
<1> QED
  BY <1>1, <1>2, <1>3, <1>5, <1>6, <1>7, <1>8 DEF Next, Publish

(* Inv is an invariant of the relay.                                       *)
THEOREM RelayInvariant == Spec => []Inv
<1>1. Init => Inv
  BY InitInv
<1>2. Inv /\ [Next]_vars => Inv'
  BY NextInv
<1> QED
  BY <1>1, <1>2, PTL DEF Spec

(* No row is marked published whose message is not in Kafka, however       *)
(* leases expire, replicas crash and calls fail between write and mark.    *)
THEOREM NothingLost == Spec => []PublishedWasWritten
<1>1. Inv => PublishedWasWritten
  BY DEF Inv
<1> QED
  BY <1>1, RelayInvariant, PTL

-------------------------------------------------------------------------------
(* Marking a row published clears its lease, and it is not leased again.   *)
PublishedUnleased ==
  \A x \in Rows : table[x].state = "published" => table[x].lease = 0

(* A published row keeps everything but what is left of an old delay.      *)
Kept(old, new) == new = [old EXCEPT !.wait = new.wait] /\ new.wait <= old.wait

LEMMA SameRow == ASSUME NEW row \in TableRow PROVE Kept(row, row)
BY DEF Kept, TableRow

LEMMA PublishedRow ==
  ASSUME Inv, PublishedUnleased, [Next]_vars, NEW x \in Rows
  PROVE  /\ table[x].state = "published" => Kept(table[x], table'[x])
         /\ table'[x].state = "published" => table'[x].lease = 0
<1>0. TypeOK /\ table[x] \in TableRow
  BY DEF Inv, TypeOK
<1>1. ASSUME table'[x] = table[x]
      PROVE  /\ table[x].state = "published" => Kept(table[x], table'[x])
             /\ table'[x].state = "published" => table'[x].lease = 0
  BY <1>0, <1>1, SameRow DEF PublishedUnleased
<1>2. ASSUME NEW y \in Rows, InsertOutbox(y)
      PROVE  table'[x] = table[x] \/ (table[x].state = "absent" /\ table'[x].state = "pending")
  BY <1>0, <1>2 DEF InsertOutbox, TypeOK, TableRow
<1>3. ASSUME NEW r \in Relays, ClaimPendingOutbox(r)
      PROVE  table'[x] = table[x] \/ (table[x].state = "pending" /\ table'[x].state = "pending")
  BY <1>0, <1>3 DEF ClaimPendingOutbox, Claimable, TypeOK, TableRow
<1>4. ASSUME NEW r \in Relays, MarkOutboxPublished(r)
      PROVE  table'[x] = table[x] \/ (table[x].state = "pending" /\ table'[x].lease = 0)
  BY <1>0, <1>4 DEF MarkOutboxPublished, TypeOK, TableRow
<1>5. ASSUME NEW r \in Relays, MarkOutboxFailed(r)
      PROVE  table'[x] = table[x] \/ (table[x].state = "pending" /\ table'[x].lease = 0)
  BY <1>0, <1>5 DEF MarkOutboxFailed, TypeOK, TableRow
<1>6. CASE Tick
  <2>1. table'[x] = [table[x] EXCEPT !.wait = Decrement(table[x].wait),
                                     !.lease = Decrement(table[x].lease)]
    BY <1>6, ZenonT(30) DEF Tick
  <2>2. table'[x].state = table[x].state
        /\ table'[x].lease = Decrement(table[x].lease)
        /\ table'[x].wait = Decrement(table[x].wait)
    BY <1>0, <2>1 DEF TableRow
  <2>3. ASSUME table[x].state = "published"
        PROVE  Kept(table[x], table'[x]) /\ table'[x].lease = 0
    <3>1. table[x].lease = 0 /\ Decrement(table[x].lease) = 0
      BY <2>3 DEF PublishedUnleased, Decrement
    <3>2. Decrement(table[x].wait) <= table[x].wait
      BY <1>0 DEF TableRow, Decrement
    <3>3. table'[x] = [table[x] EXCEPT !.wait = table'[x].wait]
      BY <1>0, <2>1, <2>2, <3>1, ZenonT(30) DEF TableRow
    <3> QED
      BY <2>2, <3>1, <3>2, <3>3 DEF Kept
  <2> QED
    BY <2>2, <2>3
<1>7. ASSUME NEW r \in Relays, NEW y \in Rows,
             \/ WriteMessages(r, y) \/ WriteMessagesError(r, y)
             \/ MarkError(r) \/ Crash(r)
      PROVE  table'[x] = table[x]
  BY <1>7 DEF WriteMessages, WriteMessagesError, MarkError, Crash
<1>8. CASE UNCHANGED vars
  BY <1>1, <1>8 DEF vars
<1> QED
  BY <1>1, <1>2, <1>3, <1>4, <1>5, <1>6, <1>7, <1>8 DEF Next, Publish

(* published_at is set once: no late mark of a replica whose lease ran out *)
(* touches a published row.                                                *)
THEOREM PublishedForGood == Spec => PublishedIsFinal
<1>1. Init => PublishedUnleased
  BY DEF Init, PublishedUnleased
<1>2. Inv /\ PublishedUnleased /\ [Next]_vars => PublishedUnleased'
  BY PublishedRow DEF PublishedUnleased
<1>3. Inv /\ PublishedUnleased /\ [Next]_vars =>
        [\A x \in Rows : table[x].state = "published" =>
           /\ table'[x] = [table[x] EXCEPT !.wait = table'[x].wait]
           /\ table'[x].wait <= table[x].wait]_vars
  BY PublishedRow DEF Kept
<1> QED
  BY <1>1, <1>2, <1>3, RelayInvariant, PTL DEF Spec, PublishedIsFinal

-------------------------------------------------------------------------------
requestedRows == {x \in Rows : table[x].state # "absent"}
deliveredRows == {x \in Rows : copies[x] > 0}
confirmedRows == {x \in Rows : table[x].state = "published"}

(* Every step of the relay is a step of Delivery or a stutter.             *)
LEMMA DeliveryStep ==
  ASSUME Inv, [Next]_vars
  PROVE  \/ \E x \in Rows :
              \/ /\ x \notin requestedRows /\ requestedRows' = requestedRows \cup {x}
                 /\ UNCHANGED <<deliveredRows, confirmedRows>>
              \/ /\ x \in requestedRows /\ deliveredRows' = deliveredRows \cup {x}
                 /\ UNCHANGED <<requestedRows, confirmedRows>>
              \/ /\ x \in deliveredRows /\ confirmedRows' = confirmedRows \cup {x}
                 /\ UNCHANGED <<requestedRows, deliveredRows>>
         \/ UNCHANGED <<requestedRows, deliveredRows, confirmedRows>>
<1> USE DEF requestedRows, deliveredRows, confirmedRows
<1>0. TypeOK
  BY DEF Inv
<1>1. ASSUME NEW x \in Rows, InsertOutbox(x)
      PROVE  /\ x \notin requestedRows /\ requestedRows' = requestedRows \cup {x}
             /\ UNCHANGED <<deliveredRows, confirmedRows>>
  <2>1. table'[x].state = "pending" /\ \A y \in Rows \ {x} : table'[y] = table[y]
    BY <1>0, <1>1 DEF InsertOutbox, TypeOK, TableRow
  <2> QED
    BY <1>1, <2>1 DEF InsertOutbox
<1>2. ASSUME NEW r \in Relays, NEW x \in Rows,
             WriteMessages(r, x) \/ WriteMessagesError(r, x)
      PROVE  /\ x \in requestedRows
             /\ deliveredRows' = deliveredRows \cup {x} \/ UNCHANGED deliveredRows
             /\ UNCHANGED <<requestedRows, confirmedRows>>
  <2>1. table' = table /\ x \in requestedRows
    BY <1>2 DEF WriteMessages, WriteMessagesError, Inv, BatchRequested
  <2>2. CASE Written(x)
    <3>1. deliveredRows' = deliveredRows \cup {x}
      BY <1>0, <2>2, WrittenCopies
    <3> QED
      BY <2>1, <3>1
  <2>3. CASE copies' = copies
    BY <2>1, <2>3
  <2> QED
    BY <1>2, <2>2, <2>3 DEF WriteMessages, WriteMessagesError
<1>3. ASSUME NEW r \in Relays, MarkOutboxPublished(r)
      PROVE  \/ \E x \in Rows :
                  /\ x \in deliveredRows /\ confirmedRows' = confirmedRows \cup {x}
                  /\ UNCHANGED <<requestedRows, deliveredRows>>
             \/ UNCHANGED <<requestedRows, deliveredRows, confirmedRows>>
  <2> DEFINE x == relay[r].row
  <2>1. x \in deliveredRows /\ x \in requestedRows
    BY <1>3, HandledRow DEF MarkOutboxPublished, Inv, PublishedWasWritten
  <2>2. \A y \in Rows \ {x} : table'[y] = table[y]
    BY <1>0, <1>3 DEF MarkOutboxPublished, TypeOK
  <2>3. table'[x].state = "published"
    BY <1>0, <1>3, <2>1 DEF MarkOutboxPublished, TypeOK, TableRow
  <2>4. confirmedRows' = confirmedRows \cup {x} /\ requestedRows' = requestedRows
    BY <2>1, <2>2, <2>3
  <2> QED
    BY <1>3, <2>1, <2>4 DEF MarkOutboxPublished
<1>4. ASSUME copies' = copies, \A x \in Rows : table'[x].state = table[x].state
      PROVE  UNCHANGED <<requestedRows, deliveredRows, confirmedRows>>
  BY <1>4
<1>5. ASSUME NEW r \in Relays, ClaimPendingOutbox(r) \/ MarkOutboxFailed(r)
      PROVE  copies' = copies /\ \A x \in Rows : table'[x].state = table[x].state
  <2>1. CASE ClaimPendingOutbox(r)
    BY <1>0, <2>1 DEF ClaimPendingOutbox, TypeOK, TableRow
  <2>2. CASE MarkOutboxFailed(r)
    <3>1. relay[r].row \in Rows
      BY <2>2, HandledRow DEF MarkOutboxFailed
    <3> QED
      BY <1>0, <2>2, <3>1 DEF MarkOutboxFailed, TypeOK, TableRow
  <2> QED
    BY <1>5, <2>1, <2>2
<1>6. ASSUME NEW r \in Relays, MarkError(r) \/ Crash(r)
      PROVE  copies' = copies /\ table' = table
  BY <1>6 DEF MarkError, Crash
<1>7. CASE Tick
  <2>1. \A x \in Rows : table'[x].state = table[x].state
    BY <1>0, <1>7, ZenonT(30) DEF Tick, TypeOK, TableRow
  <2> QED
    BY <1>4, <1>7, <2>1, ZenonT(30) DEF Tick
<1>8. CASE UNCHANGED vars
  BY <1>4, <1>8 DEF vars
<1> QED
  BY <1>1, <1>2, <1>3, <1>4, <1>5, <1>6, <1>7, <1>8 DEF Next, Publish

(* The relay, with its leases, retries and crashes, only ever delivers     *)
(* what was committed and confirms what was delivered: it implements the   *)
(* safety part of Delivery.                                                *)
THEOREM RelayImplementsDelivery == Spec => AtLeastOnce!Safety
<1>1. Init => AtLeastOnce!Init
  BY DEF Init, AtLeastOnce!Init
<1>2. Inv /\ [Next]_vars => [AtLeastOnce!Next]_AtLeastOnce!vars
  BY DeliveryStep DEF requestedRows, deliveredRows, confirmedRows, AtLeastOnce!Next,
     AtLeastOnce!vars, AtLeastOnce!Request, AtLeastOnce!Deliver, AtLeastOnce!Confirm
<1> QED
  BY <1>1, <1>2, RelayInvariant, PTL DEF Spec, AtLeastOnce!Safety
===============================================================================
