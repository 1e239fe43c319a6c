----------------------------- MODULE FactConsumer -----------------------------
(***************************************************************************)
(* The consumers of the Orders relay (cmd/relay/main.go, consumeMessages   *)
(* and processMessage) with the inbox table: one thread per replica and    *)
(* topic, which holds one message until it is processed or quarantined and *)
(* its offset committed.                                                   *)
(*                                                                         *)
(* A topic is a log with one committed offset.  A thread that loses its    *)
(* partition keeps working on the message it holds.                        *)
(***************************************************************************)
EXTENDS OrderStore, Sequences

CONSTANTS Replicas,      \* relay processes
          MaxAttempts,   \* failures recorded before quarantine; 8 in the code
          MaxMishaps     \* bound on errors, crashes, rebalances and duplicates

ASSUME ConsumerAssumption == MaxAttempts \in Nat \ {0} /\ MaxMishaps \in Nat

VARIABLES log,         \* topic -> the facts published to it
          committed,   \* topic -> committed offset of the consumer group
          assigned,    \* topic -> replica that fetches from it
          thread,      \* replica -> topic -> state of the consumer
          inbox,       \* table inbox_messages, by fact
          dlq,         \* facts published to commerce.dlq.v1
          mishaps

consumerVars == <<log, committed, assigned, thread, inbox, dlq, mishaps>>

Topics == {"inventory", "payment", "fulfillment"}

(* Facts with an event id that no case of validFactIdentity accepts, and   *)
(* payloads without an identity.                                           *)
FactTypes == SupportedFacts \cup
  {"fulfillment.created", "payment.refund_failed", "malformed"}

Fact == [type : FactTypes, order : Orders, n : Nat, valid : BOOLEAN]

InboxRow == [status : {"RETRY", "PROCESSED", "DLQ"}, attempts : Nat,
             processedAt : BOOLEAN]

(* idle: about to fetch; retry: holds a message, about to process it;      *)
(* received: InsertInbox done; loaded: order row read; failed: ProcessFact *)
(* returned an error; quarantine: RecordFactFailure asked for the DLQ;     *)
(* marking: published there; settled: processMessage returned true.        *)
PCs == {"idle", "retry", "received", "loaded", "failed", "quarantine",
        "marking", "settled"}

Thread == [pc : PCs, at : Nat \ {0}, snap : Row]

ConsumerTypeOK ==
  /\ log \in [Topics -> Seq(Fact)]
  /\ committed \in [Topics -> Nat]
  /\ assigned \in [Topics -> Replicas]
  /\ thread \in [Replicas -> [Topics -> Thread]]
  /\ DOMAIN inbox \subseteq Fact
  /\ inbox \in [DOMAIN inbox -> InboxRow]
  /\ dlq \subseteq Fact
  /\ mishaps \in 0 .. MaxMishaps

ConsumerInit ==
  /\ log = [t \in Topics |-> <<>>]
  /\ committed = [t \in Topics |-> 0]
  /\ assigned \in [Topics -> Replicas]
  /\ thread = [r \in Replicas |-> [t \in Topics |->
                 [pc |-> "idle", at |-> 1, snap |-> NoRow]]]
  /\ inbox = [f \in {} |-> NoRow]
  /\ dlq = {}
  /\ mishaps = 0

Message(r, t) == log[t][thread[r][t].at]

PC(r, t) == thread[r][t].pc

Goto(r, t, pc) ==
  thread' = [thread EXCEPT ![r][t] = [pc |-> pc, at |-> thread[r][t].at,
                                      snap |-> NoRow]]

WriteInbox(f, row) ==
  inbox' = [g \in DOMAIN inbox \cup {f} |-> IF g = f THEN row ELSE inbox[g]]

InTransaction(r, t) == PC(r, t) \in {"received", "loaded"}

(* An uncommitted INSERT of the inbox row makes other writers of it wait.  *)
InboxFree(r, t) ==
  \/ Message(r, t) \in DOMAIN inbox
  \/ \A q \in Replicas \ {r} :
       InTransaction(q, t) => Message(q, t) # Message(r, t)

(* FetchMessage returned, or the loop runs processMessage again.           *)
Holds(r, t) ==
  \/ PC(r, t) = "idle" /\ assigned[t] = r /\ thread[r][t].at <= Len(log[t])
  \/ PC(r, t) = "retry"

-------------------------------------------------------------------------------
(* ProcessFact.                                                            *)

InvalidIdentity(r, t) ==
  /\ Holds(r, t)
  /\ Message(r, t).type \notin SupportedFacts
  /\ Goto(r, t, "failed")
  /\ UNCHANGED <<log, committed, assigned, inbox, dlq, mishaps, storeVars>>

InsertInbox(r, t) ==
  /\ Holds(r, t)
  /\ Message(r, t).type \in SupportedFacts
  /\ InboxFree(r, t)
  /\ Message(r, t) \in DOMAIN inbox => inbox[Message(r, t)].status = "RETRY"
  /\ Goto(r, t, "received")
  /\ UNCHANGED <<log, committed, assigned, inbox, dlq, mishaps, storeVars>>

(* Mutant: a settled message is not acknowledged.                          *)
AlreadySettledRetried(r, t) ==
  /\ Holds(r, t)
  /\ Message(r, t) \in DOMAIN inbox
  /\ inbox[Message(r, t)].status \in {"PROCESSED", "DLQ"}
  /\ Message(r, t).type \in SupportedFacts
  /\ Goto(r, t, "retry")
  /\ UNCHANGED <<log, committed, assigned, inbox, dlq, mishaps, storeVars>>

AlreadySettled(r, t) ==
  /\ Holds(r, t)
  /\ Message(r, t) \in DOMAIN inbox
  /\ inbox[Message(r, t)].status \in {"PROCESSED", "DLQ"}
  /\ Message(r, t).type \in SupportedFacts
  /\ Goto(r, t, "settled")
  /\ UNCHANGED <<log, committed, assigned, inbox, dlq, mishaps, storeVars>>

LoadOrder(r, t) ==
  /\ PC(r, t) = "received"
  /\ thread' = [thread EXCEPT ![r][t] =
                  [pc |-> "loaded", at |-> thread[r][t].at,
                   snap |-> order[Message(r, t).order]]]
  /\ UNCHANGED <<log, committed, assigned, inbox, dlq, mishaps, storeVars>>

MarkInboxProcessed(f) ==
  WriteInbox(f, [status |-> "PROCESSED", processedAt |-> TRUE,
                 attempts |-> IF f \in DOMAIN inbox THEN inbox[f].attempts ELSE 1])

CommitFact(r, t) ==
  /\ PC(r, t) = "loaded"
  /\ ApplyFact(Message(r, t), thread[r][t].snap)
  /\ MarkInboxProcessed(Message(r, t))
  /\ Goto(r, t, "settled")
  /\ UNCHANGED <<log, committed, assigned, dlq, mishaps>>

ProcessFactError(r, t) ==
  /\ PC(r, t) = "loaded"
  /\ \/ Rejected(Message(r, t), thread[r][t].snap)
     \/ StaleVersion(Message(r, t), thread[r][t].snap)
  /\ Goto(r, t, "failed")
  /\ UNCHANGED <<log, committed, assigned, inbox, dlq, mishaps, storeVars>>

-------------------------------------------------------------------------------
(* The rest of processMessage and the offset commit.                       *)

(* Mutant: the failure of a redelivery erases processed_at.                *)
RecordFactFailureErases(r, t) ==
  /\ PC(r, t) = "failed"
  /\ Message(r, t).type # "malformed"
  /\ InboxFree(r, t)
  /\ LET f == Message(r, t)
         attempts == IF f \in DOMAIN inbox THEN inbox[f].attempts + 1 ELSE 1
     IN /\ WriteInbox(f, [status |-> "RETRY", attempts |-> attempts,
                          processedAt |-> FALSE])
        /\ Goto(r, t, IF attempts >= MaxAttempts THEN "quarantine" ELSE "retry")
  /\ UNCHANGED <<log, committed, assigned, dlq, mishaps, storeVars>>

RecordFactFailure(r, t) ==
  /\ PC(r, t) = "failed"
  /\ Message(r, t).type # "malformed"
  /\ InboxFree(r, t)
  /\ LET f == Message(r, t)
         old == f \in DOMAIN inbox
         attempts == IF old THEN inbox[f].attempts + 1 ELSE 1
     IN /\ WriteInbox(f, [status |-> "RETRY", attempts |-> attempts,
                          processedAt |-> old /\ inbox[f].processedAt])
        /\ Goto(r, t, IF attempts >= MaxAttempts THEN "quarantine" ELSE "retry")
  /\ UNCHANGED <<log, committed, assigned, dlq, mishaps, storeVars>>

NoInboxIdentity(r, t) ==
  /\ PC(r, t) = "failed"
  /\ Message(r, t).type = "malformed"
  /\ Goto(r, t, "quarantine")
  /\ UNCHANGED <<log, committed, assigned, inbox, dlq, mishaps, storeVars>>

PublishDLQ(r, t) ==
  /\ PC(r, t) = "quarantine"
  /\ dlq' = dlq \cup {Message(r, t)}
  /\ Goto(r, t, IF Message(r, t).type = "malformed" THEN "settled" ELSE "marking")
  /\ UNCHANGED <<log, committed, assigned, inbox, mishaps, storeVars>>

MarkFactDeadLetter(r, t) ==
  /\ PC(r, t) = "marking"
  /\ LET f == Message(r, t)
     IN WriteInbox(f, [inbox[f] EXCEPT !.status = "DLQ"])
  /\ Goto(r, t, "settled")
  /\ UNCHANGED <<log, committed, assigned, dlq, mishaps, storeVars>>

CommitMessages(r, t) ==
  /\ PC(r, t) = "settled"
  /\ committed' = [committed EXCEPT ![t] = thread[r][t].at]
  /\ thread' = [thread EXCEPT ![r][t] = [pc |-> "idle", snap |-> NoRow,
                                         at |-> thread[r][t].at + 1]]
  /\ UNCHANGED <<log, assigned, inbox, dlq, mishaps, storeVars>>

Consume(r, t) ==
  \/ InvalidIdentity(r, t)
  \/ InsertInbox(r, t)
  \/ AlreadySettled(r, t)
  \/ LoadOrder(r, t)
  \/ CommitFact(r, t)
  \/ ProcessFactError(r, t)
  \/ RecordFactFailure(r, t)
  \/ NoInboxIdentity(r, t)
  \/ PublishDLQ(r, t)
  \/ MarkFactDeadLetter(r, t)
  \/ CommitMessages(r, t)

-------------------------------------------------------------------------------
(* What goes wrong around a consumer.  Each counts against MaxMishaps.     *)

Mishap == mishaps < MaxMishaps /\ mishaps' = mishaps + 1

(* A database or key-set error rolls ProcessFact back, also for a message  *)
(* that is settled already; an error of a later call sends the loop back   *)
(* to ProcessFact.                                                         *)
CallFails(r, t) ==
  /\ Mishap
  /\ \/ /\ InTransaction(r, t) \/ (Holds(r, t) /\ Message(r, t).type \in SupportedFacts)
        /\ Goto(r, t, "failed")
     \/ /\ PC(r, t) \in {"failed", "quarantine", "marking", "settled"}
        /\ Goto(r, t, "retry")
  /\ UNCHANGED <<log, committed, assigned, inbox, dlq, storeVars>>

(* COMMIT took effect but its acknowledgement was lost.                    *)
CommitUnacknowledged(r, t) ==
  /\ Mishap
  /\ PC(r, t) = "loaded"
  /\ ApplyFact(Message(r, t), thread[r][t].snap)
  /\ MarkInboxProcessed(Message(r, t))
  /\ Goto(r, t, "failed")
  /\ UNCHANGED <<log, committed, assigned, dlq>>

(* The process stops anywhere and starts again from the committed offsets. *)
Restart(r) ==
  /\ Mishap
  /\ thread' = [thread EXCEPT ![r] = [t \in Topics |->
                  [pc |-> "idle", at |-> committed[t] + 1, snap |-> NoRow]]]
  /\ UNCHANGED <<log, committed, assigned, inbox, dlq, storeVars>>

Rebalance(r, t) ==
  /\ Mishap
  /\ assigned[t] # r
  /\ PC(r, t) = "idle"
  /\ assigned' = [assigned EXCEPT ![t] = r]
  /\ thread' = [thread EXCEPT ![r][t].at = committed[t] + 1]
  /\ UNCHANGED <<log, committed, inbox, dlq, storeVars>>

(* A producer's own relay is at-least-once too: an event is published      *)
(* again, or a repeated command is answered by a new event.                *)
Republish(t) ==
  /\ Mishap
  /\ \E i \in 1 .. Len(log[t]) :
       \E f \in {log[t][i], [log[t][i] EXCEPT !.n = log[t][i].n + 1]} :
         log' = [log EXCEPT ![t] = Append(log[t], f)]
  /\ UNCHANGED <<committed, assigned, thread, inbox, dlq, storeVars>>

Disturb ==
  \/ \E r \in Replicas, t \in Topics :
       CallFails(r, t) \/ CommitUnacknowledged(r, t) \/ Rebalance(r, t)
  \/ \E r \in Replicas : Restart(r)
  \/ \E t \in Topics : Republish(t)
===============================================================================
