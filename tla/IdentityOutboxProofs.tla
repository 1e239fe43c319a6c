------------------------ MODULE IdentityOutboxProofs ------------------------
(* Theorems about IdentityOutbox, for any rows, replicas, batch size and   *)
(* number of failures.                                                     *)
EXTENDS IdentityOutbox, FiniteSetTheorems, TLAPS

(* A replica works on committed rows, and marks what it has delivered.     *)
Work ==
  /\ \A r \in Relays :
       /\ relay[r].pc \in {"down", "poll"} => relay[r].events = {}
       /\ \A x \in relay[r].events : table[x] # "absent"
       /\ relay[r].pc = "mark" => \A x \in Rows : IsHead(r, x) => copies[x] > 0
  /\ \A x \in Rows : /\ table[x] = "published" => copies[x] > 0
                     /\ copies[x] > 0 => table[x] # "absent"

(* A batch skips no row: what comes before one of its rows and is not late *)
(* is in the batch or delivered.                                           *)
NoGaps ==
  \A r \in Relays, x, y \in Rows :
    y \in relay[r].events /\ x < y /\ table[x] # "absent" /\ x \notin late =>
      x \in relay[r].events \/ copies[x] > 0

OrderInv == TypeOK /\ Work /\ NoGaps /\ FirstDeliveriesInOrder

(* The replicas that may still deliver x although nothing fails.           *)
Owed(x) ==
  {r \in Relays : /\ ~(relay[r].pc = "mark" /\ IsHead(r, x))
                  /\ table[x] = "published" => x \in relay[r].events}

Budget ==
  \A x \in Rows : copies[x] + Cardinality(Owed(x)) <= Cardinality(Relays) + mishaps

USE OutboxAssumption

Relay == [pc : {"down", "poll", "publish", "mark", "failed"}, events : SUBSET Rows]

LEMMA GotoIs ==
  ASSUME TypeOK, NEW r \in Relays, NEW events \in SUBSET Rows,
         NEW pc \in {"down", "poll", "publish", "mark", "failed"}, Goto(r, pc, events)
  PROVE  /\ relay' \in [Relays -> Relay]
         /\ relay'[r].pc = pc /\ relay'[r].events = events
         /\ \A q \in Relays \ {r} : relay'[q] = relay[q]
  BY DEF Goto, TypeOK, Relay

LEMMA InitOrder == Init => OrderInv
<1> SUFFICES ASSUME Init PROVE OrderInv
  OBVIOUS
<1>1. TypeOK
  <2>1. 0 \in 0 .. MaxMishaps
    OBVIOUS
  <2> QED
    BY <2>1 DEF Init, TypeOK
<1>2. Work /\ NoGaps /\ FirstDeliveriesInOrder
  BY DEF Init, Work, NoGaps, FirstDeliveriesInOrder
<1> QED
  BY <1>1, <1>2 DEF OrderInv

LEMMA RecordOrder == ASSUME OrderInv, NEW x \in Rows, RecordOutbox(x) PROVE OrderInv'
<1>0. /\ TypeOK /\ Work /\ NoGaps /\ FirstDeliveriesInOrder
      /\ UNCHANGED <<relay, copies, mishaps>>
  BY DEF OrderInv, RecordOutbox
<1>1. /\ table' \in [Rows -> {"absent", "pending", "published"}]
      /\ table'[x] = "pending" /\ \A y \in Rows \ {x} : table'[y] = table[y]
      /\ late \subseteq late' /\ late' \subseteq Rows
      /\ (\E y \in Rows : y > x /\ table[y] # "absent") => x \in late'
      /\ table[x] = "absent"
  BY <1>0 DEF RecordOutbox, TypeOK
<1>2. TypeOK'
  BY <1>0, <1>1 DEF TypeOK
<1>3. Work'
  BY <1>0, <1>1 DEF Work, IsHead, TypeOK
<1>4. NoGaps'
  <2> SUFFICES ASSUME NEW r \in Relays, NEW z \in Rows, NEW y \in Rows,
                      y \in relay[r].events, z < y, table'[z] # "absent", z \notin late'
               PROVE  z \in relay[r].events \/ copies[z] > 0
    BY <1>0 DEF NoGaps
  <2>1. table[y] # "absent"
    BY <1>0 DEF Work
  <2>2. z # x
    BY <1>1, <2>1
  <2> QED
    BY <1>0, <1>1, <2>2 DEF NoGaps
<1>5. FirstDeliveriesInOrder'
  <2> SUFFICES ASSUME NEW z \in Rows, NEW y \in Rows,
                      z < y, copies[y] > 0, table'[z] # "absent", z \notin late'
               PROVE  copies[z] > 0
    BY <1>0 DEF FirstDeliveriesInOrder
  <2>1. table[y] # "absent"
    BY <1>0 DEF Work
  <2>2. z # x
    BY <1>1, <2>1
  <2> QED
    BY <1>0, <1>1, <2>2 DEF FirstDeliveriesInOrder
<1> QED
  BY <1>2, <1>3, <1>4, <1>5 DEF OrderInv

(* A replica takes nothing new on, or a batch without gaps.                *)
LEMMA MoveOrder ==
  ASSUME OrderInv, NEW r \in Relays, NEW pc \in {"down", "poll", "publish", "failed"},
         NEW events \in SUBSET Rows, Goto(r, pc, events),
         pc \in {"down", "poll"} => events = {},
         events \subseteq relay[r].events \/ ListPendingOutbox(events),
         \A y \in relay[r].events \ events : \A x \in events : x > y => copies[y] > 0,
         UNCHANGED <<table, late, copies>>, mishaps' \in 0 .. MaxMishaps
  PROVE  OrderInv'
<1>0. /\ TypeOK /\ Work /\ NoGaps /\ FirstDeliveriesInOrder
  BY DEF OrderInv
<1>1. /\ relay' \in [Relays -> Relay]
      /\ relay'[r].pc = pc /\ relay'[r].events = events
      /\ \A q \in Relays \ {r} : relay'[q] = relay[q]
  BY <1>0, GotoIs
<1>2. TypeOK'
  BY <1>0, <1>1 DEF TypeOK, Relay
<1>3. Work'
  <2>1. \A x \in events : table[x] # "absent"
    BY <1>0 DEF Work, ListPendingOutbox, Pending
  <2> QED
    BY <1>0, <1>1, <2>1 DEF Work, IsHead
<1>4. NoGaps'
  <2>1. ASSUME NEW x \in Rows, NEW y \in events, x < y, table[x] # "absent", x \notin late,
               x \notin events
        PROVE  copies[x] > 0
    <3>1. CASE events \subseteq relay[r].events
      BY <1>0, <2>1, <3>1 DEF NoGaps
    <3>2. CASE ListPendingOutbox(events)
      <4>0. x \in Nat /\ y \in Nat
        BY <2>1
      <4>1. x \notin Pending
        <5>1. x \in Pending => y < x
          BY <2>1, <3>2 DEF ListPendingOutbox
        <5> QED
          BY <2>1, <4>0, <5>1
      <4> QED
        BY <1>0, <2>1, <4>1 DEF Pending, Work, TypeOK
    <3> QED
      BY <3>1, <3>2
  <2> QED
    BY <1>0, <1>1, <2>1 DEF NoGaps
<1>5. FirstDeliveriesInOrder'
  BY <1>0 DEF FirstDeliveriesInOrder
<1> QED
  BY <1>2, <1>3, <1>4, <1>5 DEF OrderInv

(* The head of a batch is delivered.                                       *)
LEMMA DeliverOrder ==
  ASSUME OrderInv, NEW r \in Relays, NEW x \in Rows, IsHead(r, x), Delivered(x),
         NEW pc \in {"mark", "failed"}, Goto(r, pc, relay[r].events),
         UNCHANGED <<table, late>>, mishaps' \in 0 .. MaxMishaps
  PROVE  OrderInv'
<1>0. TypeOK /\ Work /\ NoGaps /\ FirstDeliveriesInOrder
  BY DEF OrderInv
<1>1. /\ relay' \in [Relays -> Relay]
      /\ relay'[r].pc = pc /\ relay'[r].events = relay[r].events
      /\ \A q \in Relays \ {r} : relay'[q] = relay[q]
  BY <1>0, GotoIs DEF TypeOK
<1>2. /\ copies' \in [Rows -> Nat] /\ copies'[x] = copies[x] + 1 /\ copies'[x] > 0
      /\ \A y \in Rows \ {x} : copies'[y] = copies[y]
  BY <1>0 DEF Delivered, TypeOK
<1>3. TypeOK'
  BY <1>0, <1>1, <1>2 DEF TypeOK, Relay
<1>4. \A y \in Rows : copies[y] > 0 => copies'[y] > 0
  BY <1>2
<1>5. \A y \in Rows : IsHead(r, y)' => y = x
  BY <1>1 DEF IsHead
<1>6. Work'
  <2>1. \A q \in Relays \ {r} : \A y \in Rows : IsHead(q, y)' <=> IsHead(q, y)
    BY <1>1 DEF IsHead
  <2>2. table[x] # "absent"
    BY <1>0 DEF Work, IsHead
  <2> QED
    BY <1>0, <1>1, <1>2, <1>4, <1>5, <2>1, <2>2 DEF Work
<1>7. NoGaps'
  BY <1>0, <1>1, <1>4 DEF NoGaps
<1>8. FirstDeliveriesInOrder'
  <2> SUFFICES ASSUME NEW z \in Rows, NEW y \in Rows,
                      z < y, copies'[y] > 0, table[z] # "absent", z \notin late
               PROVE  copies'[z] > 0
    BY DEF FirstDeliveriesInOrder
  <2>1. CASE y = x
    <3>1. z \notin relay[r].events
      BY <2>1 DEF IsHead
    <3> QED
      BY <1>0, <1>4, <2>1, <3>1 DEF NoGaps, IsHead
  <2>2. CASE y # x
    BY <1>0, <1>2, <1>4, <2>2 DEF FirstDeliveriesInOrder
  <2> QED
    BY <2>1, <2>2
<1> QED
  BY <1>3, <1>6, <1>7, <1>8 DEF OrderInv

LEMMA MarkOrder ==
  ASSUME OrderInv, NEW r \in Relays, NEW x \in Rows, MarkOutboxPublished(r, x)
  PROVE  OrderInv'
<1> DEFINE rest == relay[r].events \ {x}
           pc == IF rest = {} THEN "poll" ELSE "publish"
<1>0. /\ TypeOK /\ Work /\ NoGaps /\ FirstDeliveriesInOrder
      /\ UNCHANGED <<late, copies, mishaps>>
  BY DEF OrderInv, MarkOutboxPublished
<1>1. copies[x] > 0 /\ x \in relay[r].events /\ table[x] # "absent"
  BY <1>0 DEF MarkOutboxPublished, Work, IsHead
<1>2. rest \in SUBSET Rows /\ pc \in {"poll", "publish"} /\ Goto(r, pc, rest)
      /\ (pc = "poll" => rest = {})
  BY <1>0 DEF MarkOutboxPublished, TypeOK
<1> HIDE DEF pc
<1>3. /\ relay' \in [Relays -> Relay]
      /\ relay'[r].pc = pc /\ relay'[r].events = rest
      /\ \A q \in Relays \ {r} : relay'[q] = relay[q]
  BY <1>0, <1>2, GotoIs
<1>4. /\ table' \in [Rows -> {"absent", "pending", "published"}]
      /\ table'[x] = "published" /\ \A y \in Rows \ {x} : table'[y] = table[y]
  BY <1>0 DEF MarkOutboxPublished, TypeOK
<1>5. TypeOK'
  BY <1>0, <1>3, <1>4 DEF TypeOK, Relay
<1>6. Work'
  <2>1. \A y \in Rows : table'[y] = "absent" => table[y] = "absent"
    BY <1>4
  <2>2. \A q \in Relays \ {r} : \A y \in Rows : IsHead(q, y)' <=> IsHead(q, y)
    BY <1>3 DEF IsHead
  <2>3. \A q \in Relays : relay'[q].events \subseteq relay[q].events
    BY <1>3
  <2>4. \A q \in Relays : relay[q].events \subseteq Rows
    BY <1>0 DEF TypeOK
  <2>5. \A q \in Relays : \A y \in relay'[q].events : table'[y] # "absent"
    BY <1>0, <2>1, <2>3, <2>4 DEF Work
  <2>6. \A y \in Rows : /\ table'[y] = "published" => copies[y] > 0
                        /\ copies[y] > 0 => table'[y] # "absent"
    BY <1>0, <1>1, <1>4 DEF Work
  <2> QED
    BY <1>0, <1>2, <1>3, <2>2, <2>5, <2>6 DEF Work
<1>7. NoGaps'
  BY <1>0, <1>1, <1>3, <1>4 DEF NoGaps
<1>8. FirstDeliveriesInOrder'
  BY <1>0, <1>1, <1>4 DEF FirstDeliveriesInOrder
<1> QED
  BY <1>5, <1>6, <1>7, <1>8 DEF OrderInv

LEMMA StepOrder ==
  ASSUME OrderInv, NEW r \in Relays, RelayStep(r) \/ RelayFault(r) PROVE OrderInv'
<1>0. mishaps \in 0 .. MaxMishaps /\ relay[r].events \in SUBSET Rows
  BY DEF OrderInv, TypeOK
<1>1. Mishap => mishaps' \in 0 .. MaxMishaps
  BY <1>0 DEF Mishap
<1>2. CASE PendingOutbox(r)
  <2>1. PICK events \in SUBSET Pending : ListPendingOutbox(events) /\ Goto(r, "publish", events)
    BY <1>2 DEF PendingOutbox
  <2>2. relay[r].events = {} /\ events \in SUBSET Rows
    BY <1>2, <2>1 DEF PendingOutbox, OrderInv, Work, Pending
  <2> QED
    BY <1>0, <1>2, <2>1, <2>2, MoveOrder DEF PendingOutbox
<1>3. CASE MarkOutboxFailed(r) \/ Run(r)
  BY <1>0, <1>3, MoveOrder DEF MarkOutboxFailed, Run
<1>4. CASE MarkOutboxPublishedError(r) \/ Stop(r)
  BY <1>0, <1>1, <1>4, MoveOrder DEF MarkOutboxPublishedError, Stop
<1>5. ASSUME NEW x \in Rows, Publish(r, x) PROVE OrderInv'
  BY <1>0, <1>5, DeliverOrder DEF Publish
<1>6. ASSUME NEW x \in Rows, MarkOutboxPublished(r, x) PROVE OrderInv'
  BY <1>6, MarkOrder
<1>7. ASSUME NEW x \in Rows, PublishError(r, x) PROVE OrderInv'
  <2>1. CASE Delivered(x)
    BY <1>1, <1>7, <2>1, DeliverOrder DEF PublishError
  <2>2. CASE UNCHANGED copies
    BY <1>0, <1>1, <1>7, <2>2, MoveOrder DEF PublishError
  <2> QED
    BY <1>7, <2>1, <2>2 DEF PublishError
<1> QED
  BY <1>2, <1>3, <1>4, <1>5, <1>6, <1>7 DEF RelayStep, RelayFault

LEMMA NextOrder == OrderInv /\ [Next]_vars => OrderInv'
<1> SUFFICES ASSUME OrderInv, [Next]_vars PROVE OrderInv'
  OBVIOUS
<1>1. CASE UNCHANGED vars
  BY <1>1 DEF vars, OrderInv, TypeOK, Work, NoGaps, FirstDeliveriesInOrder, IsHead
<1> QED
  BY <1>1, RecordOrder, StepOrder DEF Next

-------------------------------------------------------------------------------
(* The number of copies.  A step that delivers takes a replica out of Owed *)
(* or has a mishap, and a replica comes back by a mishap only.             *)

LEMMA OwedFinite ==
  \A x \in Rows : /\ IsFiniteSet(Owed(x)) /\ Cardinality(Owed(x)) \in Nat
                  /\ Cardinality(Relays) \in Nat
  BY FS_Subset, FS_CardinalityType DEF Owed

(* Nobody else's business changes.                                         *)
LEMMA OwedKept ==
  ASSUME TypeOK, TypeOK', Budget, mishaps <= mishaps',
         NEW x \in Rows, copies'[x] = copies[x], Owed(x)' \subseteq Owed(x)
  PROVE  copies'[x] + Cardinality(Owed(x)') <= Cardinality(Relays) + mishaps'
<1>1. Cardinality(Owed(x)') <= Cardinality(Owed(x)) /\ Cardinality(Owed(x)') \in Nat
  BY OwedFinite, FS_Subset, FS_CardinalityType
<1>2. copies[x] + Cardinality(Owed(x)) <= Cardinality(Relays) + mishaps
  BY DEF Budget
<1> QED
  BY <1>1, <1>2, OwedFinite DEF TypeOK

(* A replica may come back by a mishap.                                    *)
LEMMA OwedBack ==
  ASSUME TypeOK, TypeOK', Budget, mishaps' = mishaps + 1,
         NEW x \in Rows, NEW r \in Relays, copies'[x] = copies[x],
         Owed(x)' \subseteq Owed(x) \cup {r}
  PROVE  copies'[x] + Cardinality(Owed(x)') <= Cardinality(Relays) + mishaps'
<1>1. /\ IsFiniteSet(Owed(x) \cup {r})
      /\ Cardinality(Owed(x) \cup {r}) <= Cardinality(Owed(x)) + 1
      /\ Cardinality(Owed(x) \cup {r}) \in Nat
  <2>1. IsFiniteSet(Owed(x)) /\ Cardinality(Owed(x)) \in Nat
    BY OwedFinite
  <2>2. /\ IsFiniteSet(Owed(x) \cup {r})
        /\ Cardinality(Owed(x) \cup {r}) = IF r \in Owed(x) THEN Cardinality(Owed(x))
                                                         ELSE Cardinality(Owed(x)) + 1
    BY <2>1, FS_AddElement
  <2> QED
    BY <2>1, <2>2
<1>2. /\ Cardinality(Owed(x)') <= Cardinality(Owed(x) \cup {r})
      /\ Cardinality(Owed(x)') \in Nat
  BY <1>1, FS_Subset, FS_CardinalityType
<1>3. copies[x] + Cardinality(Owed(x)) <= Cardinality(Relays) + mishaps
  BY DEF Budget
<1> QED
  BY <1>1, <1>2, <1>3, OwedFinite DEF TypeOK

(* A delivery uses up a replica or a mishap.                               *)
LEMMA OwedSpent ==
  ASSUME TypeOK, TypeOK', Budget, NEW x \in Rows, copies'[x] = copies[x] + 1,
         \/ mishaps' = mishaps + 1 /\ Owed(x)' \subseteq Owed(x)
         \/ mishaps' = mishaps /\ \E r \in Owed(x) : Owed(x)' \subseteq Owed(x) \ {r}
  PROVE  copies'[x] + Cardinality(Owed(x)') <= Cardinality(Relays) + mishaps'
<1>0. copies[x] + Cardinality(Owed(x)) <= Cardinality(Relays) + mishaps
  BY DEF Budget
<1>1. CASE mishaps' = mishaps + 1 /\ Owed(x)' \subseteq Owed(x)
  <2>1. Cardinality(Owed(x)') <= Cardinality(Owed(x)) /\ Cardinality(Owed(x)') \in Nat
    BY <1>1, OwedFinite, FS_Subset, FS_CardinalityType
  <2> QED
    BY <1>0, <1>1, <2>1, OwedFinite DEF TypeOK
<1>2. ASSUME mishaps' = mishaps, NEW r \in Owed(x), Owed(x)' \subseteq Owed(x) \ {r}
      PROVE  copies'[x] + Cardinality(Owed(x)') <= Cardinality(Relays) + mishaps'
  <2>1. /\ IsFiniteSet(Owed(x) \ {r})
        /\ Cardinality(Owed(x) \ {r}) = Cardinality(Owed(x)) - 1
    BY OwedFinite, FS_RemoveElement
  <2>2. /\ Cardinality(Owed(x)') <= Cardinality(Owed(x) \ {r})
        /\ Cardinality(Owed(x)') \in Nat
    BY <1>2, <2>1, FS_Subset, FS_CardinalityType
  <2> QED
    BY <1>0, <1>2, <2>1, <2>2, OwedFinite DEF TypeOK
<1> QED
  BY <1>1, <1>2

(* Only the replica that moves can join or leave Owed of a row whose state *)
(* does not change.                                                        *)
LEMMA OwedByOthers ==
  ASSUME NEW r \in Relays, \A q \in Relays \ {r} : relay'[q] = relay[q],
         NEW x \in Rows, table'[x] = table[x] \/ table'[x] = "published"
  PROVE  /\ Owed(x)' \subseteq Owed(x) \cup {r}
         /\ r \notin Owed(x)' => Owed(x)' \subseteq Owed(x) \ {r}
         /\ r \in Owed(x) => Owed(x)' \subseteq Owed(x)
  BY DEF Owed, IsHead

LEMMA StepBudget ==
  ASSUME OrderInv, OrderInv', Budget, NEW r \in Relays, RelayStep(r) \/ RelayFault(r)
  PROVE  Budget'
<1>0. TypeOK /\ TypeOK' /\ Work /\ mishaps \in Nat
  BY DEF OrderInv, TypeOK
<1>1. ASSUME NEW pc, NEW events, Goto(r, pc, events)
      PROVE  /\ relay'[r].pc = pc /\ relay'[r].events = events
             /\ \A q \in Relays \ {r} : relay'[q] = relay[q]
  BY <1>0, <1>1 DEF Goto, TypeOK
<1>2. SUFFICES ASSUME NEW x \in Rows
               PROVE  copies'[x] + Cardinality(Owed(x)') <= Cardinality(Relays) + mishaps'
  BY DEF Budget
<1>3. CASE PendingOutbox(r)
  <2>1. PICK events \in SUBSET Pending : Goto(r, "publish", events)
    BY <1>3 DEF PendingOutbox
  <2>2. UNCHANGED <<table, late, copies, mishaps>> /\ relay[r].pc = "poll"
    BY <1>3 DEF PendingOutbox
  <2>3. r \in Owed(x)' => r \in Owed(x)
    BY <1>1, <2>1, <2>2 DEF Owed, Pending
  <2>4. Owed(x)' \subseteq Owed(x)
    BY <1>1, <2>1, <2>2, <2>3, OwedByOthers
  <2> QED
    BY <1>0, <2>2, <2>4, OwedKept
<1>4. CASE MarkOutboxFailed(r) \/ Run(r)
  <2>1. Goto(r, "poll", {}) /\ UNCHANGED <<table, late, copies, mishaps>>
        /\ relay[r].pc \in {"failed", "down"}
    BY <1>4 DEF MarkOutboxFailed, Run
  <2>2. r \in Owed(x)' => r \in Owed(x)
    BY <1>1, <2>1 DEF Owed
  <2>3. Owed(x)' \subseteq Owed(x)
    BY <1>1, <2>1, <2>2, OwedByOthers
  <2> QED
    BY <1>0, <2>1, <2>3, OwedKept
<1>5. CASE MarkOutboxPublishedError(r) \/ Stop(r)
  <2>1. /\ \E pc \in {"poll", "down"} : Goto(r, pc, {})
        /\ UNCHANGED <<table, copies>> /\ mishaps' = mishaps + 1
    BY <1>5 DEF MarkOutboxPublishedError, Stop, Mishap
  <2>2. Owed(x)' \subseteq Owed(x) \cup {r}
    BY <1>1, <2>1, OwedByOthers
  <2> QED
    BY <1>0, <2>1, <2>2, OwedBack
<1>6. ASSUME NEW h \in Rows, Publish(r, h) \/ PublishError(r, h)
      PROVE  copies'[x] + Cardinality(Owed(x)') <= Cardinality(Relays) + mishaps'
  <2>1. /\ relay[r].pc = "publish" /\ IsHead(r, h) /\ UNCHANGED <<table, late>>
        /\ relay'[r].events = relay[r].events
        /\ \A q \in Relays \ {r} : relay'[q] = relay[q]
    BY <1>1, <1>6 DEF Publish, PublishError
  <2>2. r \in Owed(x)' => r \in Owed(x)
    BY <2>1 DEF Owed
  <2>3. Owed(x)' \subseteq Owed(x)
    BY <2>1, <2>2, OwedByOthers
  <2>4. CASE copies'[x] = copies[x]
    <3>1. mishaps <= mishaps'
      BY <1>0, <1>6 DEF Publish, PublishError, Mishap
    <3> QED
      BY <1>0, <2>3, <2>4, <3>1, OwedKept
  <2>5. CASE Delivered(h) /\ x = h
    <3>1. copies'[x] = copies[x] + 1
      BY <1>0, <2>5 DEF Delivered, TypeOK
    <3>2. CASE Publish(r, h)
      <4>1. relay'[r].pc = "mark" /\ mishaps' = mishaps
        BY <1>1, <3>2 DEF Publish
      <4>2. r \in Owed(x) /\ r \notin Owed(x)'
        BY <2>1, <2>5, <4>1 DEF Owed, IsHead
      <4>3. Owed(x)' \subseteq Owed(x) \ {r}
        BY <2>1, <4>2, OwedByOthers
      <4> QED
        BY <1>0, <3>1, <4>1, <4>2, <4>3, OwedSpent
    <3>3. CASE PublishError(r, h)
      <4>1. mishaps' = mishaps + 1
        BY <3>3 DEF PublishError, Mishap
      <4> QED
        BY <1>0, <2>3, <3>1, <4>1, OwedSpent
    <3> QED
      BY <1>6, <3>2, <3>3
  <2>6. copies'[x] = copies[x] \/ (Delivered(h) /\ x = h)
    BY <1>0, <1>6 DEF Publish, PublishError, Delivered, TypeOK
  <2> QED
    BY <2>4, <2>5, <2>6
<1>7. ASSUME NEW h \in Rows, MarkOutboxPublished(r, h)
      PROVE  copies'[x] + Cardinality(Owed(x)') <= Cardinality(Relays) + mishaps'
  <2>1. /\ relay[r].pc = "mark" /\ IsHead(r, h) /\ UNCHANGED <<late, copies, mishaps>>
        /\ relay'[r].events = relay[r].events \ {h}
        /\ \A q \in Relays \ {r} : relay'[q] = relay[q]
    BY <1>1, <1>7 DEF MarkOutboxPublished
  <2>2. table'[h] = "published" /\ \A y \in Rows \ {h} : table'[y] = table[y]
    BY <1>0, <1>7 DEF MarkOutboxPublished, TypeOK
  <2>3. r \in Owed(x)' => r \in Owed(x)
    <3>1. CASE x = h
      BY <2>1, <2>2, <3>1 DEF Owed
    <3>2. CASE x # h
      <4>1. ~IsHead(r, x)
        <5>1. x \in Nat /\ h \in Nat
          OBVIOUS
        <5>2. IsHead(r, x) => x <= h /\ h <= x
          BY <2>1 DEF IsHead
        <5> QED
          BY <3>2, <5>1, <5>2
      <4> QED
        BY <2>1, <2>2, <3>2, <4>1 DEF Owed
    <3> QED
      BY <3>1, <3>2
  <2>4. table'[x] = table[x] \/ table'[x] = "published"
    BY <2>2
  <2>5. Owed(x)' \subseteq Owed(x)
    BY <2>1, <2>3, <2>4, OwedByOthers
  <2> QED
    BY <1>0, <2>1, <2>5, OwedKept
<1> QED
  BY <1>3, <1>4, <1>5, <1>6, <1>7 DEF RelayStep, RelayFault

LEMMA NextBudget ==
  OrderInv /\ OrderInv' /\ Budget /\ [Next]_vars => Budget'
<1> SUFFICES ASSUME OrderInv, OrderInv', Budget, [Next]_vars PROVE Budget'
  OBVIOUS
<1>1. ASSUME NEW y \in Rows, RecordOutbox(y) PROVE Budget'
  <2>1. TypeOK /\ TypeOK' /\ mishaps <= mishaps' /\ UNCHANGED <<relay, copies>>
    BY <1>1 DEF OrderInv, TypeOK, RecordOutbox
  <2>2. \A x \in Rows : table'[x] = "published" <=> table[x] = "published"
    BY <1>1, <2>1 DEF RecordOutbox, TypeOK
  <2>3. \A x \in Rows : Owed(x)' \subseteq Owed(x)
    BY <2>1, <2>2 DEF Owed, IsHead
  <2> QED
    BY <2>1, <2>3, OwedKept DEF Budget
<1>2. CASE UNCHANGED vars
  BY <1>2 DEF vars, Budget, Owed, IsHead
<1> QED
  BY <1>1, <1>2, StepBudget DEF Next

LEMMA InitBudget == Init => Budget
<1> SUFFICES ASSUME Init, NEW x \in Rows
             PROVE  copies[x] + Cardinality(Owed(x)) <= Cardinality(Relays) + mishaps
  BY DEF Budget
<1>1. Cardinality(Owed(x)) <= Cardinality(Relays)
  BY FS_Subset DEF Owed
<1> QED
  BY <1>1, OwedFinite DEF Init

-------------------------------------------------------------------------------
(* Every behaviour keeps the types: no row is ever in a failed state.      *)
THEOREM OutboxTypes == Spec => []TypeOK
<1>1. OrderInv => TypeOK
  BY DEF OrderInv
<1> QED
  BY <1>1, InitOrder, NextOrder, PTL DEF Spec

(* First deliveries follow created_at, however the replicas interleave.    *)
THEOREM DeliveriesInOrder == Spec => []FirstDeliveriesInOrder
<1>1. OrderInv => FirstDeliveriesInOrder
  BY DEF OrderInv
<1> QED
  BY <1>1, InitOrder, NextOrder, PTL DEF Spec

(* The cost of having no lease: one copy per replica and per failure.      *)
THEOREM DuplicatesAreBounded == Spec => []CopiesBounded
<1>1. OrderInv /\ Budget => CopiesBounded
  BY OwedFinite DEF OrderInv, TypeOK, Budget, CopiesBounded
<1>2. Init => OrderInv /\ Budget
  BY InitOrder, InitBudget
<1>3. OrderInv /\ Budget /\ [Next]_vars => OrderInv' /\ Budget'
  BY NextOrder, NextBudget
<1> QED
  BY <1>1, <1>2, <1>3, PTL DEF Spec

-------------------------------------------------------------------------------
requestedRows == {x \in Rows : table[x] # "absent"}
deliveredRows == {x \in Rows : copies[x] > 0}
confirmedRows == {x \in Rows : table[x] = "published"}

(* Recording, publishing and marking are steps of Delivery, the rest stutters. *)
LEMMA DeliveryStep ==
  ASSUME OrderInv, [Next]_vars
  PROVE  \/ \E x \in Rows :
              \/ /\ x \notin requestedRows /\ requestedRows' = requestedRows \cup {x}
                 /\ UNCHANGED <<deliveredRows, confirmedRows>>
              \/ /\ x \in requestedRows /\ deliveredRows' = deliveredRows \cup {x}
                 /\ UNCHANGED <<requestedRows, confirmedRows>>
              \/ /\ x \in deliveredRows /\ confirmedRows' = confirmedRows \cup {x}
                 /\ UNCHANGED <<requestedRows, deliveredRows>>
         \/ UNCHANGED <<requestedRows, deliveredRows, confirmedRows>>
<1> USE DEF requestedRows, deliveredRows, confirmedRows
<1>0. TypeOK /\ Work
  BY DEF OrderInv
<1>1. ASSUME NEW x \in Rows, RecordOutbox(x)
      PROVE  /\ x \notin requestedRows /\ requestedRows' = requestedRows \cup {x}
             /\ UNCHANGED <<deliveredRows, confirmedRows>>
  BY <1>0, <1>1 DEF RecordOutbox, TypeOK
<1>2. ASSUME NEW x \in Rows, NEW r \in Relays, IsHead(r, x), Delivered(x), UNCHANGED table
      PROVE  /\ x \in requestedRows /\ deliveredRows' = deliveredRows \cup {x}
             /\ UNCHANGED <<requestedRows, confirmedRows>>
  <2>1. copies'[x] > 0 /\ \A y \in Rows \ {x} : copies'[y] = copies[y]
    BY <1>0, <1>2 DEF Delivered, TypeOK
  <2> QED
    BY <1>0, <1>2, <2>1 DEF Work, IsHead
<1>3. ASSUME NEW x \in Rows, NEW r \in Relays, MarkOutboxPublished(r, x)
      PROVE  /\ x \in deliveredRows /\ confirmedRows' = confirmedRows \cup {x}
             /\ UNCHANGED <<requestedRows, deliveredRows>>
  BY <1>0, <1>3 DEF MarkOutboxPublished, Work, IsHead, TypeOK
<1>4. UNCHANGED <<table, copies>> => UNCHANGED <<requestedRows, deliveredRows, confirmedRows>>
  OBVIOUS
<1>5. ASSUME NEW r \in Relays,
             \/ PendingOutbox(r) \/ MarkOutboxFailed(r) \/ Run(r)
             \/ MarkOutboxPublishedError(r) \/ Stop(r)
      PROVE  UNCHANGED <<table, copies>>
  BY <1>5 DEF PendingOutbox, MarkOutboxFailed, Run, MarkOutboxPublishedError, Stop
<1>6. ASSUME NEW r \in Relays, NEW x \in Rows, Publish(r, x) \/ PublishError(r, x)
      PROVE  UNCHANGED table /\ IsHead(r, x) /\ (UNCHANGED copies \/ Delivered(x))
  BY <1>6 DEF Publish, PublishError
<1>7. CASE UNCHANGED vars
  BY <1>4, <1>7 DEF vars
<1> HIDE DEF requestedRows, deliveredRows, confirmedRows
<1> QED
  BY <1>1, <1>2, <1>3, <1>4, <1>5, <1>6, <1>7 DEF Next, RelayStep, RelayFault

(* Replicas that share no lease still confirm only what they delivered and *)
(* deliver only what was committed: the safety part of Delivery.           *)
THEOREM ReplicasImplementDelivery == Spec => AtLeastOnce!Safety
<1>1. Init => AtLeastOnce!Init
  BY DEF Init, AtLeastOnce!Init
<1>2. OrderInv /\ [Next]_vars => [AtLeastOnce!Next]_AtLeastOnce!vars
  BY DeliveryStep DEF requestedRows, deliveredRows, confirmedRows, AtLeastOnce!Next,
     AtLeastOnce!vars, AtLeastOnce!Request, AtLeastOnce!Deliver, AtLeastOnce!Confirm
<1> QED
  BY <1>1, <1>2, InitOrder, NextOrder, PTL DEF Spec, AtLeastOnce!Safety
===============================================================================
