---------------------------- MODULE AuditPipeline ---------------------------
(***************************************************************************)
(* The audit trail from end to end: rate requests fill the outbox, relays  *)
(* copy it to the broker, consumers copy the broker's queue to the audit   *)
(* table.  RC, MQ and AL are the three components; an action below is a    *)
(* step that one of them takes alone, or that two of them take together.   *)
(***************************************************************************)
EXTENDS Naturals, FiniteSets, Sequences

CONSTANTS
  Calcs, Cids, CidOf, CreatedAt,   \* calculations and their attributes
  Foreign,                         \* messages that do not deserialise
  Unstorable,                      \* events the audit table refuses
  Relays, Consumers,               \* running instances of the two services
  BatchSize, MaxQueue, None

ASSUME CalcsAssumption ==
  /\ CidOf \in [Calcs -> Cids]
  /\ CreatedAt \in [Calcs -> Nat]
  /\ Unstorable \subseteq Calcs
  /\ Calcs \cap Foreign = {}
  /\ None \notin Calcs \cup Foreign

ASSUME BoundsAssumption == BatchSize \in Nat \ {0} /\ MaxQueue \in Nat \ {0}

VARIABLES txn, outbox, batch, sent,
          queue, unacked, deadLettered, dropped,
          handler, orphans, records

RC == INSTANCE RateOutbox
MQ == INSTANCE Broker WITH Messages <- Calcs \cup Foreign
AL == INSTANCE AuditConsumer

outboxVars   == <<txn, outbox, batch, sent>>
brokerVars   == <<queue, unacked, deadLettered, dropped>>
consumerVars == <<handler, orphans, records>>

vars == <<outboxVars, brokerVars, consumerVars>>

TypeOK == RC!OutboxTypeOK /\ MQ!BrokerTypeOK /\ AL!ConsumerTypeOK

Init == RC!OutboxInit /\ MQ!BrokerInit /\ AL!ConsumerInit

-----------------------------------------------------------------------------
(* Steps of the rate service. *)

Request(k) ==
  /\ RC!Reject(k) \/ RC!Save(k) \/ RC!Answer(k) \/ RC!Commit(k) \/ RC!Rollback(k)
  /\ UNCHANGED <<brokerVars, consumerVars>>

RelayLocal(p) ==
  /\ RC!Poll(p) \/ RC!DeleteRaised(p) \/ RC!RelayCrash(p)
  /\ UNCHANGED <<brokerVars, consumerVars>>

Delete(p) == RC!Delete(p) /\ UNCHANGED <<brokerVars, consumerVars>>

Publish(p, k) == RC!Published(p, k) /\ MQ!Accept(k) /\ UNCHANGED consumerVars

\* The broker has the message; the confirm is lost or late.
PublishUnconfirmed(p, k) == RC!PublishRaised(p, k) /\ MQ!Accept(k) /\ UNCHANGED consumerVars

PublishFailed(p, k) == RC!PublishRaised(p, k) /\ UNCHANGED <<brokerVars, consumerVars>>

-----------------------------------------------------------------------------
(* Steps of the broker and the audit service. *)

\* Another producer puts an unreadable message on the events exchange.
PublishForeign(m) ==
  /\ ~MQ!Holds(m)
  /\ m \notin deadLettered \cup dropped
  /\ MQ!Accept(m)
  /\ UNCHANGED <<outboxVars, consumerVars>>

Receive(c) == MQ!Deliver(c) /\ AL!Receive(c, Head(queue)) /\ UNCHANGED outboxVars

RejectMalformed(c) == AL!RejectMalformed(c) /\ MQ!DeadLetter(c) /\ UNCHANGED outboxVars

SaveRecord(c) == AL!SaveRecord(c, unacked[c]) /\ UNCHANGED <<outboxVars, brokerVars>>

SaveFailed(c) ==
  /\ AL!SaveUnconfirmed(c, unacked[c]) \/ AL!SaveRaised(c)
  /\ UNCHANGED <<outboxVars, brokerVars>>

Acknowledge(c) == AL!Acknowledge(c) /\ MQ!Forget(c) /\ UNCHANGED outboxVars

\* Connection loss, or the broker's delivery acknowledgement timeout.
ChannelLost(c) == AL!ChannelLost(c, unacked[c]) /\ MQ!Requeue(c) /\ UNCHANGED outboxVars

ConsumerCrash(c) == AL!ConsumerCrash(c) /\ MQ!Requeue(c) /\ UNCHANGED outboxVars

OrphanStep(c, k) ==
  /\ AL!OrphanSaved(c, k) \/ AL!OrphanGone(c, k)
  /\ UNCHANGED <<outboxVars, brokerVars>>

-----------------------------------------------------------------------------
RateServiceNext ==
  \/ \E k \in Calcs : Request(k)
  \/ \E p \in Relays :
       \/ RelayLocal(p)
       \/ Delete(p)
       \/ \E k \in Calcs :
            Publish(p, k) \/ PublishUnconfirmed(p, k) \/ PublishFailed(p, k)

AuditServiceNext ==
  \/ \E m \in Foreign : PublishForeign(m)
  \/ \E c \in Consumers :
       \/ Receive(c) \/ RejectMalformed(c)
       \/ SaveRecord(c) \/ SaveFailed(c) \/ Acknowledge(c)
       \/ ChannelLost(c) \/ ConsumerCrash(c)
       \/ \E k \in Calcs : OrphanStep(c, k)

Next == RateServiceNext \/ AuditServiceNext

Spec == Init /\ [][Next]_vars

(***************************************************************************)
(* Fairness.  The relay job is scheduled every few seconds for as long as  *)
(* the service runs (WF on its polls); publishing, deleting, saving and    *)
(* acknowledging may fail any number of times but not for ever (SF); a     *)
(* message left unacknowledged by a handler that is gone comes back when   *)
(* the channel closes, at the latest by the broker's acknowledgement       *)
(* timeout (WF).  Nothing is assumed of requests, which may stay open, nor *)
(* of the failures.                                                        *)
(***************************************************************************)
RelayFairness(p) ==
  /\ WF_vars(RC!Poll(p) /\ UNCHANGED <<brokerVars, consumerVars>>)
  /\ \A k \in Calcs : SF_vars(Publish(p, k))
  /\ SF_vars(Delete(p))

ConsumerFairness(c) ==
  /\ WF_vars(Receive(c))
  /\ WF_vars(handler[c] = "stalled" /\ ChannelLost(c))
  /\ SF_vars(RejectMalformed(c))
  /\ SF_vars(SaveRecord(c))
  /\ SF_vars(Acknowledge(c))

Fairness ==
  /\ \A p \in Relays : RelayFairness(p)
  /\ \A c \in Consumers : ConsumerFairness(c)

LiveSpec == Spec /\ Fairness

-----------------------------------------------------------------------------
(* Properties. *)

\* The event of k is on its way to the consumer, or its id is on record.
Downstream(k) == MQ!Holds(k) \/ AL!Recorded(k)

\* A committed calculation's event is never nowhere: until a record with its
\* correlation id exists, it is in the outbox, in the queue, or in the hands
\* of a consumer, whatever publishes, deletes, saves, acks and processes fail.
NoEventLost == \A k \in RC!Committed : k \in outbox \/ Downstream(k)

\* The audit table never shows a calculation whose transaction was rolled
\* back, and no correlation id twice, however often an event is delivered.
LedgerConsistent ==
  /\ records \subseteq RC!Committed
  /\ \A j, k \in records : CidOf[j] = CidOf[k] => j = k

\* A caller whose request failed on a duplicate correlation id need not try
\* again: a calculation with that id is committed, and its event is kept.
ConflictIsAudited ==
  \A k \in Calcs : txn[k] = "conflict" =>
    \E j \in RC!Committed : CidOf[j] = CidOf[k] /\ (j \in outbox \/ Downstream(j))

\* Only messages that do not deserialise are ever rejected: no event of a
\* calculation is dead-lettered or thrown away by the broker.
OnlyForeignRejected == (deadLettered \cup dropped) \cap Calcs = {}

\* A consumer's message that is not put back leaves for good, and an event
\* leaves for good only when its correlation id is on record: no crash, lost
\* channel or failed save is ever taken for success.
SettledIsDone ==
  [][\A c \in Consumers, k \in Calcs :
       unacked[c] = k /\ unacked'[c] = None /\ queue' = queue => AL!Recorded(k)]_vars

(***************************************************************************)
(* The inductive invariant.  Beside the properties it needs to know what   *)
(* each actor has in hand: a relay only ever works on rows of committed    *)
(* calculations and deletes one only when the broker has had it, messages  *)
(* and saves under way are events of committed calculations, and a handler *)
(* agrees with the broker about the message it is working on.              *)
(***************************************************************************)
RelayInv ==
  /\ outbox \subseteq RC!Committed
  /\ \A p \in Relays :
       /\ batch[p] \subseteq RC!Committed
       /\ sent[p] # None => sent[p] \in batch[p] /\ Downstream(sent[p])

MessageInv ==
  /\ \A k \in Calcs : MQ!Holds(k) => k \in RC!Committed
  /\ \A c \in Consumers : orphans[c] \subseteq RC!Committed

HandlerInv ==
  \A c \in Consumers :
    /\ handler[c] = "waiting" <=> unacked[c] = None
    /\ handler[c] = "malformed" => unacked[c] \in Foreign
    /\ handler[c] \in {"parsed", "saved", "stalled"} => unacked[c] \in Calcs
    /\ handler[c] = "saved" => AL!Recorded(unacked[c])

IndInv ==
  /\ TypeOK /\ RelayInv /\ MessageInv /\ HandlerInv
  /\ NoEventLost /\ LedgerConsistent /\ ConflictIsAudited /\ OnlyForeignRejected

Ledger == INSTANCE AuditLedger
            WITH committed <- RC!Committed, ledger <- records

\* The pipeline implements the ledger.
ImplementsLedger == Ledger!LedgerSpec

-----------------------------------------------------------------------------
(* What the documents promise, and the code does not. *)

\* ADR-004: no audit event is silently lost.  Whoever has been given a rate
\* finds its event kept, or the transaction that keeps it still open.
AnsweredIsKept ==
  \A k \in Calcs : RC!Answered(k) => RC!Open(k) \/ k \in outbox \/ Downstream(k)

\* README: an immutable record of every calculation.  The event of every
\* committed calculation is kept, or that very calculation is on record.
EveryCalculationKept ==
  \A k \in RC!Committed : k \in outbox \/ MQ!Holds(k) \/ k \in records

\* consumer.py: a message that does not deserialise is routed to the DLQ.
RejectedReachDlq == dropped = {}

\* ADR-004: a poison message does not block the queue indefinitely.  An event
\* the table can store is in the end recorded, whatever else is queued.
StorableIsRecorded ==
  \A k \in Calcs \ Unstorable : (txn[k] = "committed") ~> AL!Recorded(k)

-----------------------------------------------------------------------------
(* Liveness. *)

\* Every committed calculation is in the end accounted for in the audit table.
CommittedIsRecorded ==
  \A k \in Calcs : (txn[k] = "committed") ~> AL!Recorded(k)

\* The pipeline comes to rest: when no new calculation is committed the
\* outbox, the queue and the consumers' hands become empty and stay empty.
AtRest ==
  /\ outbox = {} /\ queue = <<>>
  /\ \A c \in Consumers : unacked[c] = None
ComesToRest == <>[]AtRest

=============================================================================
