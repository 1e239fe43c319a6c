-------------------------- MODULE SagaConsumerProofs ---------------------------
(* The inductive invariant of OrderSaga, and the lemmas that the fact      *)
(* consumers preserve it.                                                  *)
EXTENDS OrderSaga, TLAPS

(* A thread that holds a message holds one that is in its topic.           *)
MessageInLog ==
  \A r \in Replicas, t \in Topics :
    PC(r, t) # "idle" => thread[r][t].at \in 1 .. Len(log[t])

(* A message on its way to the DLQ has an inbox row, unless it has no      *)
(* identity to store one under.                                            *)
FailureRecorded ==
  \A r \in Replicas, t \in Topics :
    /\ PC(r, t) = "quarantine" /\ Message(r, t).type # "malformed"
         => Message(r, t) \in DOMAIN inbox
    /\ PC(r, t) = "marking" => Message(r, t) \in DOMAIN inbox

(* An order that was not created has no row.                               *)
AbsentRows == \A o \in Orders : ~Exists(o) => order[o] = NoRow

(* What the transactions preserve together.                                *)
Inv == TypeOK /\ MessageInLog /\ FailureRecorded /\ AbsentRows /\ VersionIdentifiesRow

-------------------------------------------------------------------------------
(* Workflow yields a row, one version later, with the given status.        *)
LEMMA WorkflowRow ==
  ASSUME NEW row \in Row, NEW status \in Status, NEW columns
  PROVE  /\ Workflow(row, status, columns) \in Row
         /\ Workflow(row, status, columns).version = row.version + 1
         /\ Workflow(row, status, columns).status = status
BY DEF Workflow, Row

(* Marked keeps the status and moves the version exactly when the row      *)
(* changes.                                                                *)
LEMMA MarkedRow ==
  ASSUME NEW f, NEW row \in Row
  PROVE  /\ Marked(f, row) \in Row
         /\ Marked(f, row).status = row.status
         /\ Marked(f, row).version \in {row.version, row.version + 1}
         /\ Marked(f, row) # row => Marked(f, row).version = row.version + 1
BY DEF Marked, Row

LEMMA NoRowType == NoRow \in Row
BY DEF NoRow, Row

LEMMA InsertOutboxType ==
  ASSUME StoreTypeOK, NEW o \in Orders, NEW msgs, InsertOutbox(o, msgs)
  PROVE  outbox' \in [Orders -> [Messages -> 0 .. Many]]
BY DEF StoreTypeOK, InsertOutbox, Many

(* The conditional UPDATE keeps the table well typed.                      *)
LEMMA UpdateOrderType ==
  ASSUME StoreTypeOK, NEW o \in Orders, NEW s, NEW row \in Row, UpdateOrder(o, s, row)
  PROVE  /\ order' \in [Orders -> Row]
         /\ order'[o] = row
         /\ \A p \in Orders \ {o} : order'[p] = order[p]
BY DEF StoreTypeOK, UpdateOrder

(* How applying a fact changes the order table: only the fact's order,     *)
(* only if the version read is current, and then to a later version.       *)
OrderStep(f, s) ==
  \/ order' = order
  \/ /\ order[f.order].version = s.version
     /\ order' \in [Orders -> Row]
     /\ order'[f.order].version > order[f.order].version
     /\ order'[f.order].status # "ABSENT"
     /\ \A o \in Orders \ {f.order} : order'[o] = order[o]

(* What VersionIdentifiesRow says of the row s read for the fact f.        *)
Current(f, s) ==
  /\ s.version <= order[f.order].version
  /\ s.version = order[f.order].version => s = order[f.order]

LEMMA ApplyFactType ==
  ASSUME StoreTypeOK, AbsentRows, NEW f \in Fact, NEW s \in Row, Current(f, s),
         ApplyFact(f, s)
  PROVE  StoreTypeOK' /\ OrderStep(f, s)
<1> DEFINE o == f.order
           row == order[o]
<1>0. o \in Orders /\ row \in Row /\ row.version \in Nat
  BY DEF StoreTypeOK, Fact, Row
<1>1. CASE IgnoreFact(f, s)
  BY <1>1 DEF IgnoreFact, ApplyFact, StoreTypeOK, OrderStep
<1>2. ASSUME NEW status \in Status, NEW columns, NEW r \in {row, Marked(f, row)},
             UpdateOrder(o, s, Workflow(r, status, columns))
      PROVE  order' \in [Orders -> Row] /\ OrderStep(f, s)
  <2> DEFINE new == Workflow(r, status, columns)
  <2>1. r \in Row /\ r.version >= row.version
    BY <1>0, MarkedRow DEF Row
  <2>2. new \in Row /\ new.version = r.version + 1 /\ new.status # "ABSENT"
    BY <2>1, WorkflowRow DEF Status, Terminal
  <2>3. new.version > row.version
    BY <2>1, <2>2, <1>0 DEF Row
  <2> HIDE DEF new
  <2>4. /\ order' \in [Orders -> Row]
        /\ order'[o] = new
        /\ \A p \in Orders \ {o} : order'[p] = order[p]
    BY <1>0, <1>2, <2>2, UpdateOrderType DEF new
  <2> QED
    BY <2>2, <2>3, <2>4, <1>2 DEF OrderStep, UpdateOrder
<1>3. ASSUME NEW msgs, InsertOutbox(o, msgs)
      PROVE  outbox' \in [Orders -> [Messages -> 0 .. Many]]
  BY <1>0, <1>3, InsertOutboxType
<1>4. saga' = saga => saga' \in [Orders -> Phase]
  BY DEF StoreTypeOK
<1>5. idempotency' \subseteq IdempotencyRecord
  BY DEF ApplyFact, StoreTypeOK
<1>6. CASE ReservedWhilePending(f, s)
  BY <1>6, <1>2, <1>3, <1>4, <1>5 DEF ReservedWhilePending, StoreTypeOK, Status
<1>7. CASE ReservedWhileCancelling(f, s)
  BY <1>7, <1>2, <1>3, <1>4, <1>5, ZenonT(30)
  DEF ReservedWhileCancelling, StoreTypeOK, Status
<1>8. CASE AuthorizedWhilePending(f, s)
  BY <1>8, <1>2, <1>3, <1>4, <1>5 DEF AuthorizedWhilePending, StoreTypeOK, Status
<1>9. CASE AuthorizedWhileCancelling(f, s)
  BY <1>9, <1>2, <1>3, <1>4, <1>5, ZenonT(30)
  DEF AuthorizedWhileCancelling, StoreTypeOK, Status
<1>10. CASE DependencyFailed(f, s)
  BY <1>10, <1>2, <1>3, <1>4, <1>5 DEF DependencyFailed, StoreTypeOK, Status, Terminal
<1>11. CASE FulfillmentCompleted(f, s)
  BY <1>11, <1>2, <1>3, <1>4, <1>5 DEF FulfillmentCompleted, StoreTypeOK, Status, Terminal
<1>12. CASE CancellationCompleted(f, s)
  <2>1. order' \in [Orders -> Row] /\ OrderStep(f, s)
    BY <1>12, <1>2 DEF CancellationCompleted, Status, Terminal
  <2>2. saga' \in [Orders -> Phase]
    BY <1>12, ZenonT(30) DEF CancellationCompleted, StoreTypeOK, Phase
  <2> QED
    BY <1>12, <2>1, <2>2, <1>3, <1>5 DEF CancellationCompleted, StoreTypeOK
<1>13. CASE CompensationReported(f, s)
  <2>1. CASE UNCHANGED order
    BY <1>13, <2>1, <1>3, <1>4, <1>5 DEF CompensationReported, StoreTypeOK, OrderStep
  <2>2. CASE Marked(f, s) # s /\ UpdateOrder(o, s, Marked(f, row))
    <3>1. row.version = s.version
      BY <2>2 DEF UpdateOrder
    <3>2. /\ order' \in [Orders -> Row]
          /\ order'[o] = Marked(f, row)
          /\ \A p \in Orders \ {o} : order'[p] = order[p]
      BY <1>0, <2>2, MarkedRow, UpdateOrderType
    <3>3. row.status # "ABSENT"
      BY <3>1, <1>0, <1>13
      DEF CompensationReported, ReportsCompensation, Current, AbsentRows, Exists, NoRow
    <3> QED
      BY <3>1, <3>2, <3>3, <1>0, <1>13, <1>3, <1>4, <1>5, MarkedRow
      DEF CompensationReported, StoreTypeOK, OrderStep
  <2> QED
    BY <1>13, <2>1, <2>2 DEF CompensationReported
<1> QED
  BY <1>1, <1>6, <1>7, <1>8, <1>9, <1>10, <1>11, <1>12, <1>13 DEF ApplyFact

-------------------------------------------------------------------------------
(* The message a thread works on is a fact, and stays the same one while   *)
(* facts are appended to the log.                                          *)
LEMMA MessageIsFact ==
  ASSUME Inv, NEW r \in Replicas, NEW t \in Topics,
         PC(r, t) # "idle" \/ Holds(r, t)
  PROVE  Message(r, t) \in Fact /\ Message(r, t).order \in Orders
         /\ thread[r][t].at \in 1 .. Len(log[t])
<1>1. thread[r][t].at \in Nat \ {0} /\ log[t] \in Seq(Fact)
  BY DEF Inv, TypeOK, ConsumerTypeOK, Thread
<1>2. thread[r][t].at \in 1 .. Len(log[t])
  BY <1>1 DEF Inv, MessageInLog, Holds
<1>3. Message(r, t) \in Fact
  BY <1>1, <1>2 DEF Message
<1> QED
  BY <1>2, <1>3 DEF Fact

(* What a transaction knows when it applies its fact.                      *)
LEMMA LoadedRow ==
  ASSUME Inv, NEW r \in Replicas, NEW t \in Topics, PC(r, t) = "loaded"
  PROVE  /\ Message(r, t) \in Fact
         /\ thread[r][t].snap \in Row
         /\ Current(Message(r, t), thread[r][t].snap)
<1>1. Message(r, t) \in Fact /\ thread[r][t].snap \in Row
  BY MessageIsFact DEF Inv, TypeOK, ConsumerTypeOK, Thread
<1> QED
  BY <1>1 DEF Inv, VersionIdentifiesRow, Current

(* The steps of one thread move that thread alone.                         *)
ThreadStep(r, t) ==
  /\ thread' \in [Replicas -> [Topics -> Thread]]
  /\ \A q \in Replicas, u \in Topics :
       <<q, u>> # <<r, t>> => thread'[q][u] = thread[q][u]

LEMMA ThreadUpdate ==
  ASSUME ConsumerTypeOK, NEW r \in Replicas, NEW t \in Topics, NEW th \in Thread,
         thread' = [thread EXCEPT ![r][t] = th]
  PROVE  ThreadStep(r, t) /\ thread'[r][t] = th
BY DEF ConsumerTypeOK, ThreadStep

LEMMA GotoStep ==
  ASSUME ConsumerTypeOK, NEW r \in Replicas, NEW t \in Topics, NEW pc \in PCs,
         Goto(r, t, pc)
  PROVE  /\ ThreadStep(r, t)
         /\ thread'[r][t].pc = pc
         /\ thread'[r][t].at = thread[r][t].at
<1> DEFINE th == [pc |-> pc, at |-> thread[r][t].at, snap |-> NoRow]
<1>1. th \in Thread
  BY NoRowType DEF ConsumerTypeOK, Thread
<1>2. thread' = [thread EXCEPT ![r][t] = th]
  BY DEF Goto
<1>3. th.pc = pc /\ th.at = thread[r][t].at
  OBVIOUS
<1> HIDE DEF th
<1> QED
  BY <1>1, <1>2, <1>3, ThreadUpdate, ZenonT(30)

LEMMA WriteInboxType ==
  ASSUME ConsumerTypeOK, NEW f \in Fact, NEW row \in InboxRow, WriteInbox(f, row)
  PROVE  DOMAIN inbox' \subseteq Fact /\ inbox' \in [DOMAIN inbox' -> InboxRow]
BY DEF ConsumerTypeOK, WriteInbox

-------------------------------------------------------------------------------
(* The steps of a consumer keep the types and its grip on its message.     *)

LEMMA ConsumeType ==
  ASSUME Inv, NEW r \in Replicas, NEW t \in Topics, Consume(r, t)
  PROVE  /\ StoreTypeOK' /\ ConsumerTypeOK' /\ MessageInLog'
         /\ ThreadStep(r, t)
         /\ log' = log
<1> USE DEF PCs
<1>0. StoreTypeOK /\ ConsumerTypeOK /\ MessageInLog
  BY DEF Inv, TypeOK
<1>a. PC(r, t) # "idle" \/ Holds(r, t)
  BY DEF Consume, InvalidIdentity, InsertInbox, AlreadySettled, LoadOrder, CommitFact,
         ProcessFactError, RecordFactFailure, NoInboxIdentity, PublishDLQ,
         MarkFactDeadLetter, CommitMessages
<1>b. /\ Message(r, t) \in Fact /\ Message(r, t).order \in Orders
      /\ thread[r][t].at \in 1 .. Len(log[t])
  BY <1>a, MessageIsFact
<1>d. UNCHANGED storeVars => StoreTypeOK'
  BY <1>0 DEF storeVars, StoreTypeOK
<1>e. ASSUME NEW pc \in PCs, Goto(r, t, pc), log' = log
      PROVE  ThreadStep(r, t) /\ MessageInLog'
  BY <1>0, <1>b, <1>e, GotoStep, SMTT(30) DEF MessageInLog, ThreadStep, PC
<1>f. ASSUME ThreadStep(r, t), log' = log, committed' \in [Topics -> Nat],
             assigned' = assigned, dlq' \subseteq Fact, mishaps' = mishaps,
             \/ inbox' = inbox
             \/ \E row \in InboxRow : WriteInbox(Message(r, t), row)
      PROVE  ConsumerTypeOK'
  <2>1. DOMAIN inbox' \subseteq Fact /\ inbox' \in [DOMAIN inbox' -> InboxRow]
    BY <1>0, <1>b, <1>f, WriteInboxType DEF ConsumerTypeOK
  <2> QED
    BY <1>0, <1>f, <2>1 DEF ConsumerTypeOK, ThreadStep
<1>g. committed \in [Topics -> Nat] /\ dlq \subseteq Fact
  BY <1>0 DEF ConsumerTypeOK
<1>1. CASE InvalidIdentity(r, t)
  BY <1>1, <1>d, <1>e, <1>f, <1>g DEF InvalidIdentity
<1>2. CASE InsertInbox(r, t)
  BY <1>2, <1>d, <1>e, <1>f, <1>g DEF InsertInbox
<1>3. CASE AlreadySettled(r, t)
  BY <1>3, <1>d, <1>e, <1>f, <1>g DEF AlreadySettled
<1>4. CASE LoadOrder(r, t)
  <2> DEFINE th == [pc |-> "loaded", at |-> thread[r][t].at,
                    snap |-> order[Message(r, t).order]]
  <2>1. th \in Thread
    BY <1>0, <1>b DEF ConsumerTypeOK, StoreTypeOK, Thread
  <2>a. thread' = [thread EXCEPT ![r][t] = th] /\ th.at = thread[r][t].at
    BY <1>4 DEF LoadOrder
  <2> HIDE DEF th
  <2>2. ThreadStep(r, t) /\ thread'[r][t].at = thread[r][t].at
    BY <1>0, <2>1, <2>a, ThreadUpdate, ZenonT(30)
  <2>3. MessageInLog'
    BY <1>0, <1>4, <1>b, <2>2, SMTT(30) DEF MessageInLog, ThreadStep, LoadOrder, PC
  <2> QED
    BY <1>4, <2>2, <2>3, <1>d, <1>f, <1>g DEF LoadOrder
<1>5. CASE CommitFact(r, t)
  <2>1. StoreTypeOK'
    BY <1>0, <1>5, LoadedRow, ApplyFactType DEF CommitFact, Inv
  <2>2. \E row \in InboxRow : WriteInbox(Message(r, t), row)
    <3> DEFINE f == Message(r, t)
               n == IF f \in DOMAIN inbox THEN inbox[f].attempts ELSE 1
               row == [status |-> "PROCESSED", processedAt |-> TRUE, attempts |-> n]
    <3>1. n \in Nat
      BY <1>0 DEF ConsumerTypeOK, InboxRow
    <3>2. row \in InboxRow
      BY <3>1 DEF InboxRow
    <3> QED
      BY <1>5, <3>2 DEF CommitFact, MarkInboxProcessed
  <2> QED
    BY <1>5, <2>1, <2>2, <1>e, <1>f, <1>g DEF CommitFact
<1>6. CASE ProcessFactError(r, t)
  BY <1>6, <1>d, <1>e, <1>f, <1>g DEF ProcessFactError
<1>7. CASE RecordFactFailure(r, t)
  <2> DEFINE f == Message(r, t)
             old == f \in DOMAIN inbox
             attempts == IF old THEN inbox[f].attempts + 1 ELSE 1
             row == [status |-> "RETRY", attempts |-> attempts,
                     processedAt |-> old /\ inbox[f].processedAt]
             pc == IF attempts >= MaxAttempts THEN "quarantine" ELSE "retry"
  <2>1. attempts \in Nat
    BY <1>0 DEF ConsumerTypeOK, InboxRow
  <2>2. row \in InboxRow
    BY <2>1 DEF InboxRow
  <2>3. WriteInbox(f, row) /\ Goto(r, t, pc) /\ pc \in PCs
    BY <1>7 DEF RecordFactFailure
  <2> HIDE DEF row, pc
  <2> QED
    BY <1>7, <2>2, <2>3, <1>d, <1>e, <1>f, <1>g DEF RecordFactFailure
<1>8. CASE NoInboxIdentity(r, t)
  BY <1>8, <1>d, <1>e, <1>f, <1>g DEF NoInboxIdentity
<1>9. CASE PublishDLQ(r, t)
  <2>1. dlq' \subseteq Fact
    BY <1>9, <1>b, <1>g DEF PublishDLQ
  <2> DEFINE pc == IF Message(r, t).type = "malformed" THEN "settled" ELSE "marking"
  <2>2. pc \in PCs /\ Goto(r, t, pc)
    BY <1>9 DEF PublishDLQ
  <2> HIDE DEF pc
  <2> QED
    BY <1>9, <2>1, <2>2, <1>d, <1>e, <1>f, <1>g DEF PublishDLQ
<1>10. CASE MarkFactDeadLetter(r, t)
  <2> DEFINE f == Message(r, t)
             row == [inbox[f] EXCEPT !.status = "DLQ"]
  <2>1. f \in DOMAIN inbox
    BY <1>10 DEF MarkFactDeadLetter, Inv, FailureRecorded
  <2>a. inbox[f] \in InboxRow
    BY <1>0, <2>1 DEF ConsumerTypeOK
  <2>2. row \in InboxRow
    BY <2>a, SMTT(30) DEF InboxRow
  <2>3. WriteInbox(f, row)
    BY <1>10 DEF MarkFactDeadLetter
  <2> HIDE DEF row
  <2> QED
    BY <1>10, <2>2, <2>3, <1>d, <1>e, <1>f, <1>g DEF MarkFactDeadLetter
<1>11. CASE CommitMessages(r, t)
  <2> DEFINE th == [pc |-> "idle", snap |-> NoRow, at |-> thread[r][t].at + 1]
  <2>1. th \in Thread /\ thread[r][t].at \in Nat
    BY <1>0, NoRowType DEF ConsumerTypeOK, Thread
  <2>2. thread' = [thread EXCEPT ![r][t] = th] /\ th.pc = "idle"
    BY <1>11 DEF CommitMessages
  <2> HIDE DEF th
  <2>3. ThreadStep(r, t) /\ thread'[r][t].pc = "idle"
    BY <1>0, <2>1, <2>2, ThreadUpdate, ZenonT(60)
  <2>4. MessageInLog'
    BY <1>0, <1>11, <2>3 DEF MessageInLog, ThreadStep, CommitMessages, PC
  <2>5. committed' \in [Topics -> Nat]
    BY <1>11, <1>g, <2>1 DEF CommitMessages
  <2> QED
    BY <1>11, <2>3, <2>4, <2>5, <1>d, <1>f, <1>g DEF CommitMessages
<1> QED
  BY <1>1, <1>2, <1>3, <1>4, <1>5, <1>6, <1>7, <1>8, <1>9, <1>10, <1>11 DEF Consume

(* Inbox rows are never deleted.                                           *)
LEMMA InboxGrows ==
  ASSUME NEW f, NEW row, WriteInbox(f, row)
  PROVE  DOMAIN inbox \subseteq DOMAIN inbox' /\ f \in DOMAIN inbox'
BY DEF WriteInbox

(* The row is written before the message is sent to the DLQ.               *)
LEMMA ConsumeRecorded ==
  ASSUME Inv, NEW r \in Replicas, NEW t \in Topics, Consume(r, t)
  PROVE  FailureRecorded'
<1> USE DEF PCs
<1>0. ConsumerTypeOK /\ FailureRecorded
  BY DEF Inv, TypeOK
<1>1. ThreadStep(r, t) /\ log' = log
  BY ConsumeType
<1>2. ASSUME DOMAIN inbox \subseteq DOMAIN inbox',
             \/ thread'[r][t].pc \notin {"quarantine", "marking"}
             \/ /\ thread'[r][t].at = thread[r][t].at
                /\ Message(r, t) \in DOMAIN inbox'
             \/ /\ thread'[r][t].at = thread[r][t].at
                /\ thread'[r][t].pc = "quarantine"
                /\ Message(r, t).type = "malformed"
      PROVE  FailureRecorded'
  <2> SUFFICES ASSUME NEW q \in Replicas, NEW u \in Topics,
                      thread'[q][u].pc \in {"quarantine", "marking"}
               PROVE  \/ Message(q, u)' \in DOMAIN inbox'
                      \/ /\ thread'[q][u].pc = "quarantine"
                         /\ Message(q, u)'.type = "malformed"
    BY DEF FailureRecorded, PC
  <2>1. CASE q = r /\ u = t
    BY <1>1, <1>2, <2>1 DEF Message
  <2>2. CASE ~(q = r /\ u = t)
    <3>1. thread'[q][u] = thread[q][u]
      BY <1>1, <2>2 DEF ThreadStep
    <3>2. Message(q, u)' = Message(q, u)
      BY <1>1, <3>1 DEF Message
    <3> QED
      BY <1>0, <1>2, <3>1, <3>2 DEF FailureRecorded, PC
  <2> QED
    BY <2>1, <2>2
<1>3. CASE \/ InvalidIdentity(r, t) \/ InsertInbox(r, t) \/ AlreadySettled(r, t)
           \/ ProcessFactError(r, t)
  BY <1>0, <1>2, <1>3, GotoStep
  DEF InvalidIdentity, InsertInbox, AlreadySettled, ProcessFactError
<1>4. CASE LoadOrder(r, t) \/ CommitMessages(r, t)
  BY <1>0, <1>2, <1>4, SMTT(30) DEF LoadOrder, CommitMessages, ConsumerTypeOK
<1>5. CASE CommitFact(r, t)
  BY <1>0, <1>2, <1>5, GotoStep, InboxGrows DEF CommitFact, MarkInboxProcessed
<1>6. CASE RecordFactFailure(r, t)
  <2>1. DOMAIN inbox \subseteq DOMAIN inbox' /\ Message(r, t) \in DOMAIN inbox'
    BY <1>6, InboxGrows DEF RecordFactFailure
  <2>2. thread'[r][t].at = thread[r][t].at
    BY <1>0, <1>6, GotoStep DEF RecordFactFailure
  <2> QED
    BY <1>2, <2>1, <2>2
<1>7. CASE NoInboxIdentity(r, t)
  BY <1>0, <1>2, <1>7, GotoStep DEF NoInboxIdentity
<1>8. CASE PublishDLQ(r, t)
  <2>1. CASE Message(r, t).type = "malformed"
    BY <1>0, <1>2, <1>8, <2>1, GotoStep DEF PublishDLQ
  <2>2. CASE Message(r, t).type # "malformed"
    BY <1>0, <1>2, <1>8, <2>2, GotoStep DEF PublishDLQ, FailureRecorded
  <2> QED
    BY <2>1, <2>2
<1>9. CASE MarkFactDeadLetter(r, t)
  BY <1>0, <1>2, <1>9, GotoStep, InboxGrows DEF MarkFactDeadLetter
<1> QED
  BY <1>3, <1>4, <1>5, <1>6, <1>7, <1>8, <1>9 DEF Consume

-------------------------------------------------------------------------------
(* Optimistic concurrency.                                                 *)

(* An order row changes only to a later version, and is never deleted.     *)
OrdersAdvance ==
  /\ order' \in [Orders -> Row]
  /\ \A o \in Orders : \/ order'[o] = order[o]
                       \/ /\ order'[o].version > order[o].version
                          /\ order'[o].status # "ABSENT"

LEMMA Later ==
  ASSUME NEW a \in Nat, NEW b \in Nat, NEW c \in Nat, a <= b, c > b
  PROVE  a <= c /\ a # c
OBVIOUS

(* If rows only advance, a row read earlier and a row just read are both   *)
(* identified by their versions.                                           *)
LEMMA VersionsKept ==
  ASSUME Inv, OrdersAdvance,
         NEW r \in Replicas, NEW t \in Topics,
         thread'[r][t].pc = "loaded",
         \/ thread'[r][t] = thread[r][t] /\ log'[t][thread[r][t].at] = Message(r, t)
         \/ thread'[r][t].snap = order'[log'[t][thread'[r][t].at].order]
            /\ log'[t][thread'[r][t].at].order \in Orders
  PROVE  LET s == thread'[r][t].snap
             row == order'[log'[t][thread'[r][t].at].order]
         IN s.version <= row.version /\ (s.version = row.version => s = row)
<1>1. CASE thread'[r][t] = thread[r][t] /\ log'[t][thread[r][t].at] = Message(r, t)
  <2> DEFINE o == Message(r, t).order
             s == thread[r][t].snap
  <2>1. o \in Orders
    BY <1>1, MessageIsFact DEF PC
  <2>2. s.version <= order[o].version /\ (s.version = order[o].version => s = order[o])
    BY <1>1 DEF Inv, VersionIdentifiesRow, PC
  <2>3. s \in Row /\ order[o] \in Row /\ order'[o] \in Row
    BY <2>1, ZenonT(30)
    DEF Inv, TypeOK, StoreTypeOK, ConsumerTypeOK, Thread, OrdersAdvance
  <2>4. order'[o] = order[o] \/ order'[o].version > order[o].version
    BY <2>1, ZenonT(30) DEF OrdersAdvance
  <2>5. s.version \in Nat /\ order[o].version \in Nat /\ order'[o].version \in Nat
    BY <2>3, ZenonT(30) DEF Row
  <2>6. s.version <= order'[o].version /\ (s.version = order'[o].version => s = order'[o])
    <3> HIDE DEF o, s
    <3>1. CASE order'[o] = order[o]
      BY <2>2, <3>1
    <3>2. CASE order'[o].version > order[o].version
      BY <2>2, <2>5, <3>2, Later, ZenonT(30)
    <3> QED
      BY <2>4, <3>1, <3>2, ZenonT(30)
  <2> QED
    BY <1>1, <2>6
<1>2. CASE /\ thread'[r][t].snap = order'[log'[t][thread'[r][t].at].order]
           /\ log'[t][thread'[r][t].at].order \in Orders
  <2> DEFINE row == order'[log'[t][thread'[r][t].at].order]
  <2>1. row \in Row
    BY <1>2, ZenonT(30) DEF OrdersAdvance
  <2>2. row.version \in Nat
    BY <2>1, ZenonT(30) DEF Row
  <2> HIDE DEF row
  <2>3. row.version <= row.version
    BY <2>2, SMTT(30)
  <2> QED
    BY <1>2, <2>3, ZenonT(30) DEF row
<1> QED
  BY <1>1, <1>2, ZenonT(30)

LEMMA OrderStepAdvances ==
  ASSUME StoreTypeOK, NEW f \in Fact, NEW s, OrderStep(f, s)
  PROVE  OrdersAdvance
BY DEF OrderStep, OrdersAdvance, StoreTypeOK, Fact

LEMMA AbsentKept == ASSUME AbsentRows, OrdersAdvance PROVE AbsentRows'
BY DEF AbsentRows, OrdersAdvance, Exists

LEMMA SameOrders == ASSUME StoreTypeOK, order' = order PROVE OrdersAdvance
BY DEF OrdersAdvance, StoreTypeOK

LEMMA ConsumeVersions ==
  ASSUME Inv, NEW r \in Replicas, NEW t \in Topics, Consume(r, t)
  PROVE  VersionIdentifiesRow' /\ OrdersAdvance
<1> USE DEF PCs
<1>0. StoreTypeOK /\ ConsumerTypeOK
  BY DEF Inv, TypeOK
<1>1. ThreadStep(r, t) /\ log' = log
  BY ConsumeType
<1>2. ASSUME OrdersAdvance,
             \/ thread'[r][t].pc # "loaded"
             \/ /\ thread'[r][t].snap = order'[log'[t][thread'[r][t].at].order]
                /\ log'[t][thread'[r][t].at].order \in Orders
      PROVE  VersionIdentifiesRow' /\ OrdersAdvance
  <2> SUFFICES ASSUME NEW q \in Replicas, NEW u \in Topics, thread'[q][u].pc = "loaded"
               PROVE  LET s == thread'[q][u].snap
                          row == order'[log'[u][thread'[q][u].at].order]
                      IN s.version <= row.version /\ (s.version = row.version => s = row)
    BY <1>2, ZenonT(30) DEF VersionIdentifiesRow, PC, Message
  <2>1. CASE q = r /\ u = t
    BY <1>2, <2>1, VersionsKept, ZenonT(30)
  <2>2. CASE ~(q = r /\ u = t)
    <3>1. thread'[q][u] = thread[q][u]
      BY <1>1, <2>2 DEF ThreadStep
    <3>2. log'[u][thread[q][u].at] = Message(q, u)
      BY <1>1 DEF Message
    <3> QED
      BY <1>2, <3>1, <3>2, VersionsKept, ZenonT(30)
  <2> QED
    BY <2>1, <2>2, ZenonT(30)
<1>3. CASE LoadOrder(r, t)
  <2>1. Message(r, t).order \in Orders
    BY <1>3, MessageIsFact DEF LoadOrder
  <2> DEFINE th == [pc |-> "loaded", at |-> thread[r][t].at,
                    snap |-> order[Message(r, t).order]]
  <2>2. th \in Thread
    BY <1>0, <2>1 DEF ConsumerTypeOK, StoreTypeOK, Thread
  <2>3. /\ thread' = [thread EXCEPT ![r][t] = th] /\ order' = order
        /\ th.at = thread[r][t].at /\ th.snap = order[Message(r, t).order]
    BY <1>3 DEF LoadOrder, storeVars
  <2> HIDE DEF th
  <2>4. thread'[r][t] = th
    BY <1>0, <2>2, <2>3, ThreadUpdate, ZenonT(30)
  <2>5. OrdersAdvance
    BY <1>0, <2>3, SameOrders
  <2>6. /\ thread'[r][t].snap = order'[log'[t][thread'[r][t].at].order]
        /\ log'[t][thread'[r][t].at].order \in Orders
    BY <1>1, <2>1, <2>3, <2>4, ZenonT(30) DEF Message
  <2> QED
    BY <1>2, <2>5, <2>6, ZenonT(30)
<1>4. CASE CommitFact(r, t)
  <2>1. OrdersAdvance
    BY <1>0, <1>4, LoadedRow, ApplyFactType, OrderStepAdvances DEF CommitFact, Inv
  <2> QED
    BY <1>0, <1>2, <1>4, <2>1, GotoStep, ZenonT(30) DEF CommitFact
<1>5. CASE CommitMessages(r, t)
  BY <1>0, <1>2, <1>5, SameOrders DEF CommitMessages, storeVars, ConsumerTypeOK
<1>6. ASSUME NEW pc \in PCs \ {"loaded"}, Goto(r, t, pc), UNCHANGED storeVars
      PROVE  VersionIdentifiesRow' /\ OrdersAdvance
  BY <1>0, <1>2, <1>6, GotoStep, SameOrders, ZenonT(30) DEF storeVars
<1>7. CASE \/ InvalidIdentity(r, t) \/ InsertInbox(r, t) \/ AlreadySettled(r, t)
           \/ ProcessFactError(r, t) \/ NoInboxIdentity(r, t) \/ MarkFactDeadLetter(r, t)
  BY <1>6, <1>7 DEF InvalidIdentity, InsertInbox, AlreadySettled, ProcessFactError,
                    NoInboxIdentity, MarkFactDeadLetter
<1>8. CASE RecordFactFailure(r, t)
  BY <1>6, <1>8 DEF RecordFactFailure
<1>9. CASE PublishDLQ(r, t)
  BY <1>6, <1>9 DEF PublishDLQ
<1> QED
  BY <1>3, <1>4, <1>5, <1>7, <1>8, <1>9 DEF Consume

===============================================================================
