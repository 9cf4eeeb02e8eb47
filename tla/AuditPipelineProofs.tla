------------------------- MODULE AuditPipelineProofs ------------------------
(***************************************************************************)
(* Theorems about AuditPipeline, for every number of calculations, relays  *)
(* and consumers, every assignment of correlation ids and times, and every *)
(* batch size and queue bound.                                             *)
(***************************************************************************)
EXTENDS AuditPipeline, TLAPS

-----------------------------------------------------------------------------
(* What the steps of the broker do to the messages it holds. *)

\* An accepted message is held, and no other message appears or disappears.
LEMMA AcceptHolds ==
  ASSUME NEW m \in Calcs \cup Foreign, MQ!BrokerTypeOK, MQ!Accept(m)
  PROVE  /\ MQ!BrokerTypeOK'
         /\ \A x \in Calcs \cup Foreign : MQ!Holds(x)' <=> MQ!Holds(x) \/ x = m
  <1>1. queue' = Append(queue, m) /\ UNCHANGED <<unacked, deadLettered, dropped>>
    BY DEF MQ!Accept
  <1>2. queue \in Seq(Calcs \cup Foreign)
    BY DEF MQ!BrokerTypeOK
  <1>3. /\ queue' \in Seq(Calcs \cup Foreign)
        /\ Len(queue') = Len(queue) + 1
        /\ \A i \in 1..Len(queue) : queue'[i] = queue[i]
        /\ queue'[Len(queue) + 1] = m
    BY <1>1, <1>2
  <1>4. MQ!BrokerTypeOK'
    BY <1>1, <1>3 DEF MQ!BrokerTypeOK
  <1>5. ASSUME NEW x \in Calcs \cup Foreign
        PROVE  (\E i \in 1..Len(queue') : queue'[i] = x)
                 <=> (\E i \in 1..Len(queue) : queue[i] = x) \/ x = m
    BY <1>2, <1>3
  <1> QED
    BY <1>1, <1>4, <1>5 DEF MQ!Holds

\* Delivering a message neither adds nor removes one.
LEMMA DeliverHolds ==
  ASSUME NEW c \in Consumers, MQ!BrokerTypeOK, MQ!Deliver(c)
  PROVE  /\ MQ!BrokerTypeOK'
         /\ Head(queue) \in Calcs \cup Foreign
         /\ unacked' = [unacked EXCEPT ![c] = Head(queue)]
         /\ MQ!Holds(Head(queue))
         /\ \A x \in Calcs \cup Foreign : MQ!Holds(x)' <=> MQ!Holds(x)
  <1>1. /\ unacked[c] = None /\ queue # <<>>
        /\ unacked' = [unacked EXCEPT ![c] = Head(queue)]
        /\ queue' = Tail(queue)
        /\ UNCHANGED <<deadLettered, dropped>>
    BY DEF MQ!Deliver
  <1>2. /\ queue \in Seq(Calcs \cup Foreign)
        /\ unacked \in [Consumers -> Calcs \cup Foreign \cup {None}]
    BY DEF MQ!BrokerTypeOK
  <1>3. /\ Head(queue) = queue[1] /\ 1 \in 1..Len(queue)
        /\ queue' \in Seq(Calcs \cup Foreign)
        /\ Len(queue') = Len(queue) - 1
        /\ \A i \in 1..Len(queue') : queue'[i] = queue[i + 1]
        /\ queue[1] \in Calcs \cup Foreign
    BY <1>1, <1>2
  <1>4. MQ!BrokerTypeOK'
    BY <1>1, <1>2, <1>3 DEF MQ!BrokerTypeOK
  <1>5. ASSUME NEW x \in Calcs \cup Foreign
        PROVE  (\E i \in 1..Len(queue) : queue[i] = x)
                 <=> (\E i \in 1..Len(queue') : queue'[i] = x) \/ x = queue[1]
    <2>1. ASSUME NEW i \in 1..Len(queue), queue[i] = x, x # queue[1]
          PROVE  \E j \in 1..Len(queue') : queue'[j] = x
      <3>1. i - 1 \in 1..Len(queue') /\ queue'[i - 1] = queue[i]
        BY <1>2, <1>3, <2>1
      <3> QED BY <3>1, <2>1
    <2>2. ASSUME NEW i \in 1..Len(queue'), queue'[i] = x
          PROVE  \E j \in 1..Len(queue) : queue[j] = x
      <3>1. i + 1 \in 1..Len(queue) /\ queue[i + 1] = x
        BY <1>2, <1>3, <2>2
      <3> QED BY <3>1
    <2> QED BY <1>3, <2>1, <2>2
  <1>6. ASSUME NEW x \in Calcs \cup Foreign
        PROVE  (\E d \in Consumers : unacked'[d] = x)
                 <=> (\E d \in Consumers : unacked[d] = x) \/ x = queue[1]
    BY <1>1, <1>2, <1>3, CalcsAssumption
  <1> QED
    BY <1>1, <1>3, <1>4, <1>5, <1>6 DEF MQ!Holds

\* A message taken back from a consumer is still held.
LEMMA RequeueHolds ==
  ASSUME NEW c \in Consumers, MQ!BrokerTypeOK, MQ!Requeue(c)
  PROVE  /\ MQ!BrokerTypeOK'
         /\ unacked' = [unacked EXCEPT ![c] = None]
         /\ \A x \in Calcs \cup Foreign : MQ!Holds(x)' <=> MQ!Holds(x)
  <1> DEFINE m == unacked[c]
  <1>1. /\ m # None
        /\ queue' = <<m>> \o queue
        /\ unacked' = [unacked EXCEPT ![c] = None]
        /\ UNCHANGED <<deadLettered, dropped>>
    BY DEF MQ!Requeue
  <1>2. /\ queue \in Seq(Calcs \cup Foreign)
        /\ unacked \in [Consumers -> Calcs \cup Foreign \cup {None}]
        /\ m \in Calcs \cup Foreign
    BY <1>1 DEF MQ!BrokerTypeOK
  <1> HIDE DEF m
  <1>3. /\ queue' \in Seq(Calcs \cup Foreign)
        /\ Len(queue') = Len(queue) + 1
        /\ queue'[1] = m
        /\ \A i \in 1..Len(queue) : queue'[i + 1] = queue[i]
    BY <1>1, <1>2
  <1>4. MQ!BrokerTypeOK'
    BY <1>1, <1>2, <1>3 DEF MQ!BrokerTypeOK
  <1>5. ASSUME NEW x \in Calcs \cup Foreign
        PROVE  (\E i \in 1..Len(queue') : queue'[i] = x)
                 <=> (\E i \in 1..Len(queue) : queue[i] = x) \/ x = m
    <2>1. ASSUME NEW i \in 1..Len(queue'), queue'[i] = x, x # m
          PROVE  \E j \in 1..Len(queue) : queue[j] = x
      <3>1. i - 1 \in 1..Len(queue) /\ queue[i - 1] = x
        BY <1>2, <1>3, <2>1
      <3> QED BY <3>1
    <2>2. ASSUME NEW i \in 1..Len(queue), queue[i] = x
          PROVE  \E j \in 1..Len(queue') : queue'[j] = x
      <3>1. i + 1 \in 1..Len(queue') /\ queue'[i + 1] = x
        BY <1>2, <1>3, <2>2
      <3> QED BY <3>1
    <2>3. 1 \in 1..Len(queue')
      BY <1>2, <1>3
    <2> QED BY <1>3, <2>1, <2>2, <2>3
  <1>6. ASSUME NEW x \in Calcs \cup Foreign
        PROVE  (\E d \in Consumers : unacked[d] = x)
                 <=> (\E d \in Consumers : unacked'[d] = x) \/ x = m
    BY <1>1, <1>2, CalcsAssumption DEF m
  <1> QED
    BY <1>1, <1>4, <1>5, <1>6 DEF MQ!Holds

\* A settled message may be gone; every other message stays.
LEMMA SettleHolds ==
  ASSUME NEW c \in Consumers, MQ!BrokerTypeOK, MQ!Settle(c)
  PROVE  /\ unacked' = [unacked EXCEPT ![c] = None]
         /\ unacked' \in [Consumers -> Calcs \cup Foreign \cup {None}]
         /\ \A x \in Calcs \cup Foreign :
              /\ MQ!Holds(x)' => MQ!Holds(x)
              /\ MQ!Holds(x) => MQ!Holds(x)' \/ x = unacked[c]
  <1>1. /\ unacked[c] # None
        /\ unacked' = [unacked EXCEPT ![c] = None]
        /\ queue' = queue
    BY DEF MQ!Settle
  <1>2. unacked \in [Consumers -> Calcs \cup Foreign \cup {None}]
    BY DEF MQ!BrokerTypeOK
  <1> QED
    BY <1>1, <1>2, CalcsAssumption DEF MQ!Holds

-----------------------------------------------------------------------------
(* What an insert does to the audit table. *)

\* After the insert of k its correlation id is on record, every id that was
\* on record still is, and the table stays consistent.
LEMMA InsertRecords ==
  ASSUME NEW k \in Calcs, records \subseteq Calcs, LedgerConsistent,
         k \in RC!Committed, AL!Insert(k), UNCHANGED txn
  PROVE  /\ records' \subseteq Calcs
         /\ AL!Recorded(k)'
         /\ \A j \in Calcs : AL!Recorded(j) => AL!Recorded(j)'
         /\ LedgerConsistent'
  <1>1. CASE AL!Recorded(k)
    <2>1. records' = records
      BY <1>1 DEF AL!Insert
    <2> QED
      BY <1>1, <2>1 DEF LedgerConsistent, RC!Committed, AL!Recorded, AL!SameCid
  <1>2. CASE ~AL!Recorded(k)
    <2>1. records' = records \cup {k}
      BY <1>2 DEF AL!Insert
    <2>2. \A j \in records : CidOf[j] # CidOf[k]
      BY <1>2 DEF AL!Recorded, AL!SameCid
    <2>3. /\ records' \subseteq Calcs
          /\ AL!Recorded(k)'
          /\ \A j \in Calcs : AL!Recorded(j) => AL!Recorded(j)'
      BY <2>1 DEF AL!Recorded, AL!SameCid
    <2>4. LedgerConsistent'
      BY <2>1, <2>2 DEF LedgerConsistent, RC!Committed
    <2> QED BY <2>3, <2>4
  <1> QED BY <1>1, <1>2

-----------------------------------------------------------------------------
(* The invariant holds initially and every step preserves it. *)

\* Nothing has been requested, sent or recorded.
LEMMA InitIndInv == Init => IndInv
  <1> SUFFICES ASSUME Init PROVE IndInv
    OBVIOUS
  <1> USE DEF Init, RC!OutboxInit, MQ!BrokerInit, AL!ConsumerInit
  <1>1. TypeOK
    BY DEF TypeOK, RC!OutboxTypeOK, RC!Phases, MQ!BrokerTypeOK,
           AL!ConsumerTypeOK, AL!HandlerStates
  <1>2. RC!Committed = {} /\ \A k \in Calcs : ~MQ!Holds(k)
    BY CalcsAssumption DEF RC!Committed, MQ!Holds
  <1>3. RelayInv /\ MessageInv /\ HandlerInv
    BY <1>2 DEF RelayInv, MessageInv, HandlerInv
  <1>4. NoEventLost /\ LedgerConsistent /\ ConflictIsAudited /\ OnlyForeignRejected
    BY <1>2 DEF NoEventLost, LedgerConsistent, ConflictIsAudited, OnlyForeignRejected
  <1> QED BY <1>1, <1>3, <1>4 DEF IndInv

\* A step of a request changes no message and no record.
LEMMA RequestIndInv ==
  ASSUME IndInv, NEW k \in Calcs, Request(k)
  PROVE  IndInv'
  <1>1. /\ UNCHANGED <<brokerVars, consumerVars>>
        /\ UNCHANGED <<batch, sent>>
    BY DEF Request, RC!Reject, RC!Moves, RC!Save, RC!Answer, RC!Commit, RC!Rollback
  <1>2. \A x \in Calcs \cup Foreign : MQ!Holds(x)' <=> MQ!Holds(x)
    BY <1>1 DEF brokerVars, MQ!Holds
  <1>3. \A x \in Calcs : /\ AL!Recorded(x)' <=> AL!Recorded(x)
                         /\ Downstream(x)' <=> Downstream(x)
    BY <1>1, <1>2 DEF consumerVars, AL!Recorded, AL!SameCid, Downstream
  <1>4. /\ txn \in [Calcs -> RC!Phases] /\ outbox \subseteq RC!Committed
        /\ txn' \in [Calcs -> RC!Phases]
        /\ \A x \in Calcs \ {k} : txn'[x] = txn[x]
        /\ \/ /\ txn[k] # "committed" /\ txn'[k] \notin {"committed", "conflict"}
              /\ outbox' = outbox
           \/ /\ txn[k] = "new" /\ txn'[k] = "conflict"
              /\ \E j \in outbox : CidOf[j] = CidOf[k]
              /\ outbox' = outbox
           \/ /\ txn[k] = "answered" /\ txn'[k] = "committed"
              /\ outbox' = outbox \cup {k}
    BY DEF IndInv, TypeOK, RelayInv, RC!OutboxTypeOK, RC!Phases, RC!Open,
           RC!HasDuplicate, Request, RC!Reject, RC!Moves, RC!Save, RC!Answer, RC!Commit,
           RC!Rollback
  <1>5. /\ RC!Committed \subseteq RC!Committed'
        /\ RC!Committed' \subseteq RC!Committed \cup outbox'
        /\ outbox \subseteq outbox' /\ outbox' \subseteq RC!Committed'
    BY <1>4 DEF RC!Committed
  <1>6. TypeOK'
    BY <1>1, <1>4, <1>5
    DEF IndInv, TypeOK, brokerVars, consumerVars, RC!OutboxTypeOK, RC!Committed,
        MQ!BrokerTypeOK, AL!ConsumerTypeOK
  <1>7. RelayInv'
    BY <1>1, <1>3, <1>5 DEF IndInv, TypeOK, RC!OutboxTypeOK, RelayInv
  <1>8. MessageInv'
    BY <1>1, <1>2, <1>5 DEF IndInv, MessageInv, consumerVars
  <1>9. HandlerInv'
    BY <1>1, <1>3 DEF IndInv, HandlerInv, brokerVars, consumerVars
  <1>10. NoEventLost'
    BY <1>3, <1>5 DEF IndInv, NoEventLost, RC!Committed
  <1>11. LedgerConsistent' /\ OnlyForeignRejected'
    BY <1>1, <1>5
    DEF IndInv, LedgerConsistent, OnlyForeignRejected, brokerVars, consumerVars
  <1>12. ConflictIsAudited'
    <2> SUFFICES ASSUME NEW x \in Calcs, txn'[x] = "conflict"
                 PROVE  \E j \in RC!Committed' : /\ CidOf[j] = CidOf[x]
                                                 /\ j \in outbox' \/ Downstream(j)'
      BY DEF ConflictIsAudited
    <2>1. CASE txn[x] = "conflict"
      BY <1>3, <1>5, <2>1 DEF IndInv, ConflictIsAudited, RC!Committed
    <2>2. CASE txn[x] # "conflict"
      BY <1>4, <1>5, <2>2
    <2> QED BY <2>1, <2>2
  <1> QED
    BY <1>6, <1>7, <1>8, <1>9, <1>10, <1>11, <1>12 DEF IndInv

\* While no event disappears downstream and no row leaves the outbox, the
\* committed calculations and the conflicting requests stay covered.
LEMMA StillKept ==
  ASSUME IndInv, UNCHANGED <<txn, outbox>>,
         \A x \in Calcs : Downstream(x) => Downstream(x)'
  PROVE  NoEventLost' /\ ConflictIsAudited'
  <1>1. RC!Committed \subseteq Calcs /\ RC!Committed' = RC!Committed
    BY DEF RC!Committed
  <1>2. NoEventLost'
    BY <1>1 DEF IndInv, NoEventLost
  <1>3. ConflictIsAudited'
    BY <1>1 DEF IndInv, ConflictIsAudited
  <1> QED BY <1>2, <1>3

\* Reading a batch, failing to delete a row and losing a batch touch neither
\* the outbox nor anything downstream.
LEMMA RelayLocalIndInv ==
  ASSUME IndInv, NEW p \in Relays, RelayLocal(p)
  PROVE  IndInv'
  <1>1. /\ UNCHANGED <<brokerVars, consumerVars>>
        /\ UNCHANGED <<txn, outbox>>
    BY DEF RelayLocal, RC!Poll, RC!Take, RC!DeleteRaised, RC!LeaveRow, RC!RelayCrash
  <1>2. /\ \A x \in Calcs \cup Foreign : MQ!Holds(x)' <=> MQ!Holds(x)
        /\ RC!Committed' = RC!Committed /\ RC!Committed \subseteq Calcs
    BY <1>1 DEF brokerVars, MQ!Holds, RC!Committed
  <1>3. \A x \in Calcs : /\ AL!Recorded(x)' <=> AL!Recorded(x)
                         /\ Downstream(x)' <=> Downstream(x)
    BY <1>1, <1>2 DEF consumerVars, AL!Recorded, AL!SameCid, Downstream
  <1>4. /\ batch \in [Relays -> SUBSET Calcs]
        /\ sent \in [Relays -> Calcs \cup {None}]
        /\ outbox \subseteq Calcs
    BY DEF IndInv, TypeOK, RC!OutboxTypeOK
  <1>5. \/ /\ sent' = sent /\ batch[p] = {}
           /\ \E rows \in SUBSET outbox : batch' = [batch EXCEPT ![p] = rows]
        \/ /\ sent' = [sent EXCEPT ![p] = None]
           /\ \E rows \in SUBSET batch[p] : batch' = [batch EXCEPT ![p] = rows]
    BY <1>4 DEF RelayLocal, RC!Poll, RC!Take, RC!OldestRows, RC!DeleteRaised, RC!LeaveRow,
                RC!RelayCrash
  <1>6. /\ batch' \in [Relays -> SUBSET Calcs]
        /\ sent' \in [Relays -> Calcs \cup {None}]
    BY <1>4, <1>5
  <1>7. TypeOK'
    BY <1>1, <1>6
    DEF IndInv, TypeOK, brokerVars, consumerVars, RC!OutboxTypeOK,
        MQ!BrokerTypeOK, AL!ConsumerTypeOK
  <1>8. RelayInv'
    <2>1. outbox' \subseteq RC!Committed'
      BY <1>1, <1>2 DEF IndInv, RelayInv
    <2>2. ASSUME NEW q \in Relays
          PROVE  /\ batch'[q] \subseteq RC!Committed'
                 /\ sent'[q] # None => sent'[q] \in batch'[q] /\ Downstream(sent[q])'
      <3>1. CASE q = p
        BY <1>2, <1>4, <1>5, <3>1 DEF IndInv, RelayInv
      <3>2. CASE q # p
        <4>1. batch'[q] = batch[q] /\ sent'[q] = sent[q]
          BY <1>4, <1>5, <3>2
        <4> QED
          BY <1>2, <1>3, <1>4, <4>1 DEF IndInv, RelayInv
      <3> QED BY <3>1, <3>2
    <2> QED BY <2>1, <2>2 DEF RelayInv
  <1>9. MessageInv' /\ HandlerInv' /\ LedgerConsistent' /\ OnlyForeignRejected'
    BY <1>1, <1>2, <1>3
    DEF IndInv, MessageInv, HandlerInv, LedgerConsistent, OnlyForeignRejected,
        brokerVars, consumerVars
  <1>10. NoEventLost' /\ ConflictIsAudited'
    BY <1>1, <1>3, StillKept
  <1> QED
    BY <1>7, <1>8, <1>9, <1>10 DEF IndInv

\* A deleted row is one the broker has had: its event is downstream.
LEMMA DeleteIndInv ==
  ASSUME IndInv, NEW p \in Relays, Delete(p)
  PROVE  IndInv'
  <1> DEFINE r == sent[p]
  <1>1. /\ UNCHANGED <<brokerVars, consumerVars>> /\ UNCHANGED txn
        /\ r # None
        /\ outbox' = outbox \ {r}
        /\ batch' = [batch EXCEPT ![p] = @ \ {r}]
        /\ sent' = [sent EXCEPT ![p] = None]
    BY DEF Delete, RC!Delete, RC!LeaveRow
  <1>2. /\ \A x \in Calcs \cup Foreign : MQ!Holds(x)' <=> MQ!Holds(x)
        /\ RC!Committed' = RC!Committed /\ RC!Committed \subseteq Calcs
    BY <1>1 DEF brokerVars, MQ!Holds, RC!Committed
  <1>3. \A x \in Calcs : /\ AL!Recorded(x)' <=> AL!Recorded(x)
                         /\ Downstream(x)' <=> Downstream(x)
    BY <1>1, <1>2 DEF consumerVars, AL!Recorded, AL!SameCid, Downstream
  <1>4. /\ batch \in [Relays -> SUBSET Calcs]
        /\ sent \in [Relays -> Calcs \cup {None}]
        /\ r \in Calcs /\ Downstream(r)
    BY <1>1 DEF IndInv, TypeOK, RC!OutboxTypeOK, RelayInv
  <1>5. TypeOK'
    BY <1>1, <1>4
    DEF IndInv, TypeOK, brokerVars, consumerVars, RC!OutboxTypeOK,
        MQ!BrokerTypeOK, AL!ConsumerTypeOK
  <1>6. RelayInv'
    <2>1. outbox' \subseteq RC!Committed'
      BY <1>1, <1>2 DEF IndInv, RelayInv
    <2>2. ASSUME NEW q \in Relays
          PROVE  /\ batch'[q] \subseteq RC!Committed'
                 /\ sent'[q] # None => sent'[q] \in batch'[q] /\ Downstream(sent[q])'
      <3>1. CASE q = p
        BY <1>1, <1>2, <1>4, <3>1 DEF IndInv, RelayInv
      <3>2. CASE q # p
        <4>1. batch'[q] = batch[q] /\ sent'[q] = sent[q]
          BY <1>1, <1>4, <3>2
        <4> QED
          BY <1>2, <1>3, <1>4, <4>1 DEF IndInv, RelayInv
      <3> QED BY <3>1, <3>2
    <2> QED BY <2>1, <2>2 DEF RelayInv
  <1>7. MessageInv' /\ HandlerInv' /\ LedgerConsistent' /\ OnlyForeignRejected'
    BY <1>1, <1>2, <1>3
    DEF IndInv, MessageInv, HandlerInv, LedgerConsistent, OnlyForeignRejected,
        brokerVars, consumerVars
  <1>8. NoEventLost'
    BY <1>1, <1>2, <1>3, <1>4 DEF IndInv, NoEventLost
  <1>9. ConflictIsAudited'
    BY <1>1, <1>2, <1>3, <1>4 DEF IndInv, ConflictIsAudited
  <1> QED
    BY <1>5, <1>6, <1>7, <1>8, <1>9 DEF IndInv

\* A step that leaves the rate service alone and loses no event downstream
\* preserves what the invariant says of the rate service.
LEMMA DownstreamKept ==
  ASSUME IndInv, UNCHANGED outboxVars,
         \A x \in Calcs : Downstream(x) => Downstream(x)'
  PROVE  /\ RC!OutboxTypeOK' /\ RelayInv' /\ NoEventLost' /\ ConflictIsAudited'
         /\ RC!Committed' = RC!Committed /\ RC!Committed \subseteq Calcs
  <1>1. /\ txn' = txn /\ outbox' = outbox /\ batch' = batch /\ sent' = sent
        /\ RC!Committed' = RC!Committed /\ RC!Committed \subseteq Calcs
    BY DEF outboxVars, RC!Committed
  <1>2. RC!OutboxTypeOK /\ RC!OutboxTypeOK'
    BY <1>1 DEF IndInv, TypeOK, RC!OutboxTypeOK
  <1>3. RelayInv'
    BY <1>1, <1>2 DEF IndInv, RelayInv, RC!OutboxTypeOK
  <1> QED
    BY <1>1, <1>2, <1>3, StillKept

\* An unreadable message enters the queue.
LEMMA PublishForeignIndInv ==
  ASSUME IndInv, NEW m \in Foreign, PublishForeign(m)
  PROVE  IndInv'
  <1>1. /\ UNCHANGED <<outboxVars, consumerVars>>
        /\ UNCHANGED <<unacked, deadLettered, dropped>>
        /\ MQ!Accept(m) /\ MQ!BrokerTypeOK
    BY DEF PublishForeign, MQ!Accept, IndInv, TypeOK
  <1>2. /\ MQ!BrokerTypeOK'
        /\ \A x \in Calcs \cup Foreign : MQ!Holds(x)' <=> MQ!Holds(x) \/ x = m
    BY <1>1, AcceptHolds
  <1>3. \A x \in Calcs : /\ MQ!Holds(x)' <=> MQ!Holds(x)
                         /\ AL!Recorded(x)' <=> AL!Recorded(x)
                         /\ Downstream(x)' <=> Downstream(x)
    BY <1>1, <1>2, CalcsAssumption
    DEF consumerVars, AL!Recorded, AL!SameCid, Downstream
  <1>4. /\ RC!OutboxTypeOK' /\ RelayInv' /\ NoEventLost' /\ ConflictIsAudited'
        /\ RC!Committed' = RC!Committed
    BY <1>1, <1>3, DownstreamKept
  <1>5. TypeOK'
    BY <1>1, <1>2, <1>4 DEF IndInv, TypeOK, consumerVars, AL!ConsumerTypeOK
  <1>6. MessageInv' /\ HandlerInv' /\ LedgerConsistent' /\ OnlyForeignRejected'
    BY <1>1, <1>3, <1>4
    DEF IndInv, MessageInv, HandlerInv, LedgerConsistent, OnlyForeignRejected,
        consumerVars
  <1> QED BY <1>4, <1>5, <1>6 DEF IndInv

\* The broker takes the event of the row the relay is at: the event is now
\* downstream, so the relay may delete the row.
LEMMA PublishIndInv ==
  ASSUME IndInv, NEW p \in Relays, NEW k \in Calcs,
         Publish(p, k) \/ PublishUnconfirmed(p, k)
  PROVE  IndInv'
  <1>1. /\ UNCHANGED consumerVars
        /\ UNCHANGED <<txn, outbox>>
        /\ UNCHANGED <<unacked, deadLettered, dropped>>
        /\ MQ!Accept(k) /\ MQ!BrokerTypeOK
        /\ k \in batch[p]
        /\ \/ /\ sent' = [sent EXCEPT ![p] = k] /\ batch' = batch
           \/ /\ sent' = sent /\ sent[p] = None
              /\ batch' = [batch EXCEPT ![p] = @ \ {k}]
    BY DEF Publish, PublishUnconfirmed, RC!Published, RC!PublishRaised, RC!SkipRow,
           RC!AtRow, MQ!Accept, IndInv, TypeOK
  <1>2. /\ MQ!BrokerTypeOK'
        /\ \A x \in Calcs \cup Foreign : MQ!Holds(x)' <=> MQ!Holds(x) \/ x = k
    BY <1>1, AcceptHolds
  <1>3. /\ \A x \in Calcs : /\ AL!Recorded(x)' <=> AL!Recorded(x)
                            /\ Downstream(x) => Downstream(x)'
        /\ Downstream(k)'
    BY <1>1, <1>2 DEF consumerVars, AL!Recorded, AL!SameCid, Downstream
  <1>4. /\ batch \in [Relays -> SUBSET Calcs]
        /\ sent \in [Relays -> Calcs \cup {None}]
        /\ RC!Committed' = RC!Committed /\ RC!Committed \subseteq Calcs
        /\ k \in RC!Committed
    BY <1>1 DEF IndInv, TypeOK, RC!OutboxTypeOK, RelayInv, RC!Committed
  <1>5. TypeOK'
    BY <1>1, <1>2, <1>4
    DEF IndInv, TypeOK, consumerVars, RC!OutboxTypeOK, AL!ConsumerTypeOK
  <1>6. RelayInv'
    <2>1. outbox' \subseteq RC!Committed'
      BY <1>1, <1>4 DEF IndInv, RelayInv
    <2>2. ASSUME NEW q \in Relays
          PROVE  /\ batch'[q] \subseteq RC!Committed'
                 /\ sent'[q] # None => sent'[q] \in batch'[q] /\ Downstream(sent[q])'
      <3>1. CASE q = p
        BY <1>1, <1>3, <1>4, <3>1 DEF IndInv, RelayInv
      <3>2. CASE q # p
        <4>1. batch'[q] = batch[q] /\ sent'[q] = sent[q]
          BY <1>1, <1>4, <3>2
        <4> QED
          BY <1>3, <1>4, <4>1 DEF IndInv, RelayInv
      <3> QED BY <3>1, <3>2
    <2> QED BY <2>1, <2>2 DEF RelayInv
  <1>7. MessageInv'
    BY <1>1, <1>2, <1>4 DEF IndInv, MessageInv, consumerVars
  <1>8. HandlerInv' /\ LedgerConsistent' /\ OnlyForeignRejected'
    BY <1>1, <1>3, <1>4
    DEF IndInv, HandlerInv, LedgerConsistent, OnlyForeignRejected, consumerVars
  <1>9. NoEventLost' /\ ConflictIsAudited'
    BY <1>1, <1>3, StillKept
  <1> QED BY <1>5, <1>6, <1>7, <1>8, <1>9 DEF IndInv

\* A publish that does not reach the broker only skips the row.
LEMMA PublishFailedIndInv ==
  ASSUME IndInv, NEW p \in Relays, NEW k \in Calcs, PublishFailed(p, k)
  PROVE  IndInv'
  <1>1. /\ UNCHANGED <<brokerVars, consumerVars>>
        /\ UNCHANGED <<txn, outbox, sent>>
        /\ sent[p] = None
        /\ batch' = [batch EXCEPT ![p] = @ \ {k}]
    BY DEF PublishFailed, RC!PublishRaised, RC!SkipRow, RC!AtRow
  <1>2. /\ \A x \in Calcs \cup Foreign : MQ!Holds(x)' <=> MQ!Holds(x)
        /\ RC!Committed' = RC!Committed /\ RC!Committed \subseteq Calcs
    BY <1>1 DEF brokerVars, MQ!Holds, RC!Committed
  <1>3. \A x \in Calcs : /\ AL!Recorded(x)' <=> AL!Recorded(x)
                         /\ Downstream(x)' <=> Downstream(x)
    BY <1>1, <1>2 DEF consumerVars, AL!Recorded, AL!SameCid, Downstream
  <1>4. /\ batch \in [Relays -> SUBSET Calcs]
        /\ sent \in [Relays -> Calcs \cup {None}]
    BY DEF IndInv, TypeOK, RC!OutboxTypeOK
  <1>5. TypeOK'
    BY <1>1, <1>4
    DEF IndInv, TypeOK, brokerVars, consumerVars, RC!OutboxTypeOK,
        MQ!BrokerTypeOK, AL!ConsumerTypeOK
  <1>6. RelayInv'
    BY <1>1, <1>2, <1>3, <1>4 DEF IndInv, RelayInv
  <1>7. MessageInv' /\ HandlerInv' /\ LedgerConsistent' /\ OnlyForeignRejected'
    BY <1>1, <1>2, <1>3
    DEF IndInv, MessageInv, HandlerInv, LedgerConsistent, OnlyForeignRejected,
        brokerVars, consumerVars
  <1>8. NoEventLost' /\ ConflictIsAudited'
    BY <1>1, <1>3, StillKept
  <1> QED BY <1>5, <1>6, <1>7, <1>8 DEF IndInv

\* A delivery moves the oldest message into the hands of a waiting consumer.
LEMMA ReceiveIndInv ==
  ASSUME IndInv, NEW c \in Consumers, Receive(c)
  PROVE  IndInv'
  <1> DEFINE m == Head(queue)
  <1>1. /\ UNCHANGED outboxVars /\ UNCHANGED <<orphans, records>>
        /\ UNCHANGED <<deadLettered, dropped>>
        /\ MQ!Deliver(c) /\ MQ!BrokerTypeOK /\ AL!ConsumerTypeOK
        /\ handler' = [handler EXCEPT ![c] = IF m \in Foreign THEN "malformed" ELSE "parsed"]
    BY DEF Receive, MQ!Deliver, AL!Receive, AL!Becomes, IndInv, TypeOK
  <1>2. /\ MQ!BrokerTypeOK'
        /\ m \in Calcs \cup Foreign
        /\ unacked' = [unacked EXCEPT ![c] = m]
        /\ \A x \in Calcs \cup Foreign : MQ!Holds(x)' <=> MQ!Holds(x)
    BY <1>1, DeliverHolds
  <1> HIDE DEF m
  <1>3. /\ unacked \in [Consumers -> Calcs \cup Foreign \cup {None}]
        /\ handler \in [Consumers -> AL!HandlerStates]
        /\ m # None
    BY <1>1, <1>2, CalcsAssumption DEF MQ!BrokerTypeOK, AL!ConsumerTypeOK
  <1>4. \A x \in Calcs : /\ AL!Recorded(x)' <=> AL!Recorded(x)
                         /\ Downstream(x)' <=> Downstream(x)
    BY <1>1, <1>2 DEF AL!Recorded, AL!SameCid, Downstream
  <1>5. /\ RC!OutboxTypeOK' /\ RelayInv' /\ NoEventLost' /\ ConflictIsAudited'
        /\ RC!Committed' = RC!Committed
    BY <1>1, <1>4, DownstreamKept
  <1>6. TypeOK'
    BY <1>1, <1>2, <1>3, <1>5 DEF TypeOK, AL!ConsumerTypeOK, AL!HandlerStates
  <1>7. HandlerInv'
    <2> SUFFICES ASSUME NEW d \in Consumers
                 PROVE  /\ handler'[d] = "waiting" <=> unacked'[d] = None
                        /\ handler'[d] = "malformed" => unacked'[d] \in Foreign
                        /\ handler'[d] \in {"parsed", "saved", "stalled"}
                             => unacked'[d] \in Calcs
                        /\ handler'[d] = "saved" => AL!Recorded(unacked[d])'
      BY DEF HandlerInv
    <2>1. CASE d = c
      BY <1>1, <1>2, <1>3, <2>1
    <2>2. CASE d # c
      <3>1. handler'[d] = handler[d] /\ unacked'[d] = unacked[d]
        BY <1>1, <1>2, <1>3, <2>2
      <3> QED BY <1>4, <3>1 DEF IndInv, HandlerInv
    <2> QED BY <2>1, <2>2
  <1>8. MessageInv' /\ LedgerConsistent' /\ OnlyForeignRejected'
    BY <1>1, <1>2, <1>5
    DEF IndInv, MessageInv, LedgerConsistent, OnlyForeignRejected
  <1> QED BY <1>5, <1>6, <1>7, <1>8 DEF IndInv

\* A rejected message is unreadable, so no event is lost with it.
LEMMA RejectMalformedIndInv ==
  ASSUME IndInv, NEW c \in Consumers, RejectMalformed(c)
  PROVE  IndInv'
  <1>1. /\ UNCHANGED outboxVars /\ UNCHANGED <<orphans, records>>
        /\ MQ!Settle(c) /\ MQ!BrokerTypeOK /\ AL!ConsumerTypeOK
        /\ UNCHANGED queue
        /\ handler[c] = "malformed"
        /\ handler' = [handler EXCEPT ![c] = "waiting"]
        /\ deadLettered' \cup dropped' = deadLettered \cup dropped \cup {unacked[c]}
    BY DEF RejectMalformed, MQ!DeadLetter, MQ!Settle, AL!RejectMalformed, AL!Becomes,
           IndInv, TypeOK
  <1>2. unacked[c] \in Foreign /\ unacked[c] \notin Calcs
    BY <1>1, CalcsAssumption DEF IndInv, HandlerInv
  <1>3. /\ unacked' = [unacked EXCEPT ![c] = None]
        /\ unacked' \in [Consumers -> Calcs \cup Foreign \cup {None}]
        /\ unacked \in [Consumers -> Calcs \cup Foreign \cup {None}]
        /\ handler \in [Consumers -> AL!HandlerStates]
        /\ \A x \in Calcs : MQ!Holds(x)' <=> MQ!Holds(x)
    BY <1>1, <1>2, SettleHolds DEF MQ!BrokerTypeOK, AL!ConsumerTypeOK
  <1>4. \A x \in Calcs : /\ AL!Recorded(x)' <=> AL!Recorded(x)
                         /\ Downstream(x)' <=> Downstream(x)
    BY <1>1, <1>3 DEF AL!Recorded, AL!SameCid, Downstream
  <1>5. /\ RC!OutboxTypeOK' /\ RelayInv' /\ NoEventLost' /\ ConflictIsAudited'
        /\ RC!Committed' = RC!Committed
    BY <1>1, <1>4, DownstreamKept
  <1>6. TypeOK'
    BY <1>1, <1>2, <1>3, <1>5
    DEF TypeOK, MQ!BrokerTypeOK, AL!ConsumerTypeOK, AL!HandlerStates
  <1>7. HandlerInv'
    BY <1>1, <1>3, <1>4 DEF IndInv, HandlerInv
  <1>8. MessageInv' /\ LedgerConsistent' /\ OnlyForeignRejected'
    BY <1>1, <1>2, <1>3, <1>5
    DEF IndInv, MessageInv, LedgerConsistent, OnlyForeignRejected
  <1> QED BY <1>5, <1>6, <1>7, <1>8 DEF IndInv

\* Steps of a handler that leave its message where it is and may insert the
\* record of that message.
LEMMA HandlerStepIndInv ==
  ASSUME IndInv, NEW c \in Consumers, SaveRecord(c) \/ SaveFailed(c)
  PROVE  IndInv'
  <1> DEFINE m == unacked[c]
  <1>1. /\ UNCHANGED <<outboxVars, brokerVars>> /\ UNCHANGED orphans
        /\ handler[c] = "parsed"
        /\ MQ!BrokerTypeOK /\ AL!ConsumerTypeOK
        /\ \/ AL!Insert(m) /\ handler' = [handler EXCEPT ![c] = "saved"]
           \/ AL!Insert(m) /\ handler' = [handler EXCEPT ![c] = "stalled"]
           \/ records' = records /\ handler' = [handler EXCEPT ![c] = "stalled"]
    BY DEF SaveRecord, SaveFailed, AL!SaveRecord, AL!SaveAnd, AL!SaveUnconfirmed,
           AL!SaveRaised, AL!Becomes, IndInv, TypeOK
  <1>2. /\ unacked \in [Consumers -> Calcs \cup Foreign \cup {None}]
        /\ handler \in [Consumers -> AL!HandlerStates]
        /\ records \subseteq Calcs
        /\ m \in Calcs
    BY <1>1 DEF MQ!BrokerTypeOK, AL!ConsumerTypeOK, IndInv, HandlerInv
  <1>3. /\ \A x \in Calcs \cup Foreign : MQ!Holds(x)' <=> MQ!Holds(x)
        /\ MQ!Holds(m) /\ m \in RC!Committed
    BY <1>1, <1>2 DEF brokerVars, MQ!Holds, IndInv, MessageInv
  <1>4. /\ records' \subseteq Calcs /\ LedgerConsistent'
        /\ \A x \in Calcs : AL!Recorded(x) => AL!Recorded(x)'
        /\ \/ handler' = [handler EXCEPT ![c] = "saved"] /\ AL!Recorded(m)'
           \/ handler' = [handler EXCEPT ![c] = "stalled"]
    <2>1. txn' = txn /\ LedgerConsistent
      BY <1>1 DEF outboxVars, IndInv
    <2>2. CASE AL!Insert(m)
      <3>1. PICK k \in Calcs : k = m
        BY <1>2
      <3>2. /\ records' \subseteq Calcs /\ LedgerConsistent' /\ AL!Recorded(k)'
            /\ \A x \in Calcs : AL!Recorded(x) => AL!Recorded(x)'
        BY <1>2, <1>3, <2>1, <2>2, <3>1, InsertRecords
      <3>3. m' = k
        BY <1>1, <3>1 DEF brokerVars
      <3> QED BY <1>1, <3>2, <3>3
    <2>3. CASE records' = records /\ handler' = [handler EXCEPT ![c] = "stalled"]
      BY <1>2, <2>1, <2>3
      DEF LedgerConsistent, RC!Committed, AL!Recorded, AL!SameCid
    <2> QED BY <1>1, <2>2, <2>3
  <1>5. \A x \in Calcs : Downstream(x) => Downstream(x)'
    BY <1>3, <1>4 DEF Downstream
  <1>6. /\ RC!OutboxTypeOK' /\ RelayInv' /\ NoEventLost' /\ ConflictIsAudited'
        /\ RC!Committed' = RC!Committed
    BY <1>1, <1>5, DownstreamKept
  <1>7. TypeOK'
    BY <1>1, <1>2, <1>4, <1>6
    DEF TypeOK, brokerVars, MQ!BrokerTypeOK, AL!ConsumerTypeOK, AL!HandlerStates
  <1>8. HandlerInv'
    <2>1. unacked' = unacked
      BY <1>1 DEF brokerVars
    <2> SUFFICES ASSUME NEW d \in Consumers
                 PROVE  /\ handler'[d] = "waiting" <=> unacked[d] = None
                        /\ handler'[d] = "malformed" => unacked[d] \in Foreign
                        /\ handler'[d] \in {"parsed", "saved", "stalled"}
                             => unacked[d] \in Calcs
                        /\ handler'[d] = "saved" => AL!Recorded(unacked[d])'
      BY <2>1 DEF HandlerInv
    <2>2. CASE d = c
      BY <1>2, <1>4, <2>1, <2>2, CalcsAssumption
    <2>3. CASE d # c
      <3>1. handler'[d] = handler[d]
        BY <1>1, <1>2, <2>3
      <3>2. unacked[d] \in Calcs /\ AL!Recorded(unacked[d]) => AL!Recorded(unacked[d])'
        BY <1>4, <2>1
      <3> QED BY <3>1, <3>2 DEF IndInv, HandlerInv
    <2> QED BY <2>2, <2>3
  <1>9. MessageInv' /\ OnlyForeignRejected'
    BY <1>1, <1>3, <1>6 DEF IndInv, MessageInv, OnlyForeignRejected, brokerVars
  <1> QED BY <1>4, <1>6, <1>7, <1>8, <1>9 DEF IndInv

\* Only a recorded event is acknowledged, so it may leave the broker.
LEMMA AcknowledgeIndInv ==
  ASSUME IndInv, NEW c \in Consumers, Acknowledge(c)
  PROVE  IndInv'
  <1>1. /\ UNCHANGED outboxVars /\ UNCHANGED <<orphans, records>>
        /\ UNCHANGED <<queue, deadLettered, dropped>>
        /\ MQ!Settle(c) /\ MQ!BrokerTypeOK /\ AL!ConsumerTypeOK
        /\ handler[c] = "saved"
        /\ handler' = [handler EXCEPT ![c] = "waiting"]
    BY DEF Acknowledge, MQ!Forget, MQ!Settle, AL!Acknowledge, AL!Becomes, IndInv, TypeOK
  <1>2. AL!Recorded(unacked[c])
    BY <1>1 DEF IndInv, HandlerInv
  <1>3. /\ unacked' = [unacked EXCEPT ![c] = None]
        /\ unacked' \in [Consumers -> Calcs \cup Foreign \cup {None}]
        /\ unacked \in [Consumers -> Calcs \cup Foreign \cup {None}]
        /\ handler \in [Consumers -> AL!HandlerStates]
        /\ \A x \in Calcs : /\ MQ!Holds(x)' => MQ!Holds(x)
                            /\ MQ!Holds(x) => MQ!Holds(x)' \/ x = unacked[c]
    BY <1>1, SettleHolds DEF MQ!BrokerTypeOK, AL!ConsumerTypeOK
  <1>4. \A x \in Calcs : /\ AL!Recorded(x)' <=> AL!Recorded(x)
                         /\ Downstream(x) => Downstream(x)'
    BY <1>1, <1>2, <1>3 DEF AL!Recorded, AL!SameCid, Downstream
  <1>5. /\ RC!OutboxTypeOK' /\ RelayInv' /\ NoEventLost' /\ ConflictIsAudited'
        /\ RC!Committed' = RC!Committed
    BY <1>1, <1>4, DownstreamKept
  <1>6. TypeOK'
    BY <1>1, <1>3, <1>5
    DEF TypeOK, MQ!BrokerTypeOK, AL!ConsumerTypeOK, AL!HandlerStates
  <1>7. HandlerInv'
    BY <1>1, <1>3, <1>4 DEF IndInv, HandlerInv
  <1>8. MessageInv' /\ LedgerConsistent' /\ OnlyForeignRejected'
    BY <1>1, <1>3, <1>5
    DEF IndInv, MessageInv, LedgerConsistent, OnlyForeignRejected
  <1> QED BY <1>5, <1>6, <1>7, <1>8 DEF IndInv

\* When a channel closes or a consumer dies the broker takes the message back.
LEMMA RequeueIndInv ==
  ASSUME IndInv, NEW c \in Consumers, ChannelLost(c) \/ ConsumerCrash(c)
  PROVE  IndInv'
  <1>1. /\ UNCHANGED outboxVars /\ UNCHANGED records
        /\ UNCHANGED <<deadLettered, dropped>>
        /\ MQ!Requeue(c) /\ MQ!BrokerTypeOK /\ AL!ConsumerTypeOK
        /\ unacked[c] # None
        /\ handler' = [handler EXCEPT ![c] = "waiting"]
        /\ \/ orphans' = orphans
           \/ handler[c] = "parsed" /\ orphans' = [orphans EXCEPT ![c] = @ \cup {unacked[c]}]
           \/ orphans' = [orphans EXCEPT ![c] = {}]
    BY DEF ChannelLost, ConsumerCrash, MQ!Requeue, AL!ChannelLost,
           AL!ConsumerCrash, IndInv, TypeOK
  <1>2. /\ MQ!BrokerTypeOK'
        /\ unacked' = [unacked EXCEPT ![c] = None]
        /\ \A x \in Calcs \cup Foreign : MQ!Holds(x)' <=> MQ!Holds(x)
    BY <1>1, RequeueHolds
  <1>3. /\ unacked \in [Consumers -> Calcs \cup Foreign \cup {None}]
        /\ handler \in [Consumers -> AL!HandlerStates]
        /\ orphans \in [Consumers -> SUBSET Calcs]
        /\ handler[c] = "parsed" => unacked[c] \in RC!Committed /\ unacked[c] \in Calcs
    BY <1>1 DEF MQ!BrokerTypeOK, AL!ConsumerTypeOK, MQ!Holds, IndInv, HandlerInv,
                MessageInv
  <1>4. \A x \in Calcs : /\ AL!Recorded(x)' <=> AL!Recorded(x)
                         /\ Downstream(x)' <=> Downstream(x)
    BY <1>1, <1>2 DEF AL!Recorded, AL!SameCid, Downstream
  <1>5. /\ RC!OutboxTypeOK' /\ RelayInv' /\ NoEventLost' /\ ConflictIsAudited'
        /\ RC!Committed' = RC!Committed
    BY <1>1, <1>4, DownstreamKept
  <1>6. TypeOK'
    BY <1>1, <1>2, <1>3, <1>5 DEF TypeOK, AL!ConsumerTypeOK, AL!HandlerStates
  <1>7. HandlerInv'
    BY <1>1, <1>2, <1>3, <1>4 DEF IndInv, HandlerInv
  <1>8. MessageInv'
    BY <1>1, <1>2, <1>3, <1>5 DEF IndInv, MessageInv
  <1>9. LedgerConsistent' /\ OnlyForeignRejected'
    BY <1>1, <1>5 DEF IndInv, LedgerConsistent, OnlyForeignRejected
  <1> QED BY <1>5, <1>6, <1>7, <1>8, <1>9 DEF IndInv

\* A save that outlives its channel inserts like any other, or comes to
\* nothing; the message itself is back in the queue.
LEMMA OrphanStepIndInv ==
  ASSUME IndInv, NEW c \in Consumers, NEW k \in Calcs, OrphanStep(c, k)
  PROVE  IndInv'
  <1>1. /\ UNCHANGED <<outboxVars, brokerVars>> /\ UNCHANGED handler
        /\ k \in orphans[c]
        /\ orphans' = [orphans EXCEPT ![c] = @ \ {k}]
        /\ AL!Insert(k) \/ records' = records
        /\ MQ!BrokerTypeOK /\ AL!ConsumerTypeOK
    BY DEF OrphanStep, AL!OrphanSaved, AL!OrphanGone, IndInv, TypeOK
  <1>2. /\ handler \in [Consumers -> AL!HandlerStates]
        /\ orphans \in [Consumers -> SUBSET Calcs]
        /\ records \subseteq Calcs
        /\ k \in RC!Committed
    BY <1>1 DEF AL!ConsumerTypeOK, IndInv, MessageInv
  <1>3. \A x \in Calcs \cup Foreign : MQ!Holds(x)' <=> MQ!Holds(x)
    BY <1>1 DEF brokerVars, MQ!Holds
  <1>4. /\ records' \subseteq Calcs /\ LedgerConsistent'
        /\ \A x \in Calcs : AL!Recorded(x) => AL!Recorded(x)'
    <2>1. txn' = txn /\ LedgerConsistent
      BY <1>1 DEF outboxVars, IndInv
    <2>2. CASE AL!Insert(k)
      BY <1>2, <2>1, <2>2, InsertRecords
    <2>3. CASE records' = records
      BY <1>2, <2>1, <2>3
      DEF LedgerConsistent, RC!Committed, AL!Recorded, AL!SameCid
    <2> QED BY <1>1, <2>2, <2>3
  <1>5. \A x \in Calcs : Downstream(x) => Downstream(x)'
    BY <1>3, <1>4 DEF Downstream
  <1>6. /\ RC!OutboxTypeOK' /\ RelayInv' /\ NoEventLost' /\ ConflictIsAudited'
        /\ RC!Committed' = RC!Committed
    BY <1>1, <1>5, DownstreamKept
  <1>7. TypeOK'
    BY <1>1, <1>2, <1>4, <1>6
    DEF TypeOK, brokerVars, MQ!BrokerTypeOK, AL!ConsumerTypeOK
  <1>8. HandlerInv'
    <2>1. unacked' = unacked /\ handler' = handler
      BY <1>1 DEF brokerVars
    <2>2. ASSUME NEW d \in Consumers, handler[d] = "saved"
          PROVE  AL!Recorded(unacked[d])'
      <3>1. PICK x \in Calcs : x = unacked[d] /\ AL!Recorded(x)
        BY <2>2 DEF IndInv, HandlerInv
      <3>2. AL!Recorded(x)' /\ unacked'[d] = x
        BY <1>4, <2>1, <3>1
      <3> QED BY <3>2
    <2> QED BY <2>1, <2>2 DEF IndInv, HandlerInv
  <1>9. MessageInv' /\ OnlyForeignRejected'
    BY <1>1, <1>2, <1>3, <1>6 DEF IndInv, MessageInv, OnlyForeignRejected, brokerVars
  <1> QED BY <1>4, <1>6, <1>7, <1>8, <1>9 DEF IndInv

\* Every step of the pipeline keeps the invariant.
LEMMA NextIndInv == IndInv /\ [Next]_vars => IndInv'
  <1> SUFFICES ASSUME IndInv, [Next]_vars PROVE IndInv'
    OBVIOUS
  <1>1. CASE UNCHANGED vars
    <2>1. /\ UNCHANGED <<txn, outbox, batch, sent>>
          /\ UNCHANGED <<queue, unacked, deadLettered, dropped>>
          /\ UNCHANGED <<handler, orphans, records>>
      BY <1>1 DEF vars, outboxVars, brokerVars, consumerVars
    <2>2. /\ RC!Committed' = RC!Committed
          /\ \A k : MQ!Holds(k)' <=> MQ!Holds(k)
          /\ \A k : AL!Recorded(k)' <=> AL!Recorded(k)
          /\ \A k : Downstream(k)' <=> Downstream(k)
      BY <2>1 DEF RC!Committed, MQ!Holds, AL!Recorded, AL!SameCid, Downstream
    <2>3. TypeOK'
      BY <2>1 DEF IndInv, TypeOK, RC!OutboxTypeOK, MQ!BrokerTypeOK, AL!ConsumerTypeOK
    <2>4. RelayInv' /\ MessageInv'
      BY <2>1, <2>2 DEF IndInv, RelayInv, MessageInv
    <2>5. HandlerInv'
      BY <2>1, <2>2 DEF IndInv, HandlerInv
    <2>6. NoEventLost' /\ LedgerConsistent'
      BY <2>1, <2>2 DEF IndInv, NoEventLost, LedgerConsistent
    <2>7. ConflictIsAudited' /\ OnlyForeignRejected'
      BY <2>1, <2>2 DEF IndInv, ConflictIsAudited, OnlyForeignRejected
    <2> QED BY <2>3, <2>4, <2>5, <2>6, <2>7 DEF IndInv
  <1>2. CASE RateServiceNext
    BY <1>2, RequestIndInv, RelayLocalIndInv, DeleteIndInv, PublishIndInv,
       PublishFailedIndInv
    DEF RateServiceNext
  <1>3. CASE AuditServiceNext
    BY <1>3, PublishForeignIndInv, ReceiveIndInv, RejectMalformedIndInv,
       HandlerStepIndInv, AcknowledgeIndInv, RequeueIndInv, OrphanStepIndInv
    DEF AuditServiceNext
  <1> QED BY <1>1, <1>2, <1>3 DEF Next

\* IndInv holds in every reachable state.
THEOREM Invariance == Spec => []IndInv
  BY InitIndInv, NextIndInv, PTL DEF Spec

-----------------------------------------------------------------------------
(* What follows from the invariant. *)

\* The variables keep their types.
THEOREM TypeCorrect == Spec => []TypeOK
  <1>1. IndInv => TypeOK
    BY DEF IndInv
  <1> QED BY <1>1, Invariance, PTL

\* No committed calculation's event is ever nowhere, whatever fails between
\* the outbox, the relays, the broker and the consumers.
THEOREM EventsAreNeverLost == Spec => []NoEventLost
  <1>1. IndInv => NoEventLost
    BY DEF IndInv
  <1> QED BY <1>1, Invariance, PTL

\* The audit table holds committed calculations only, one per correlation id.
THEOREM LedgerIsConsistent == Spec => []LedgerConsistent
  <1>1. IndInv => LedgerConsistent
    BY DEF IndInv
  <1> QED BY <1>1, Invariance, PTL

\* A request refused as a duplicate has its correlation id audited.
THEOREM ConflictsAreAudited == Spec => []ConflictIsAudited
  <1>1. IndInv => ConflictIsAudited
    BY DEF IndInv
  <1> QED BY <1>1, Invariance, PTL

\* No event of a calculation is ever rejected.
THEOREM EventsAreNotRejected == Spec => []OnlyForeignRejected
  <1>1. IndInv => OnlyForeignRejected
    BY DEF IndInv
  <1> QED BY <1>1, Invariance, PTL

-----------------------------------------------------------------------------
(* Steps. *)

\* A consumer gives up an event for good only when it is on record.
LEMMA StepSettledIsDone ==
  ASSUME IndInv, [Next]_vars, NEW c \in Consumers, NEW k \in Calcs,
         unacked[c] = k, unacked'[c] = None, queue' = queue
  PROVE  AL!Recorded(k)
  <1>1. /\ unacked \in [Consumers -> Calcs \cup Foreign \cup {None}]
        /\ queue \in Seq(Calcs \cup Foreign)
        /\ MQ!BrokerTypeOK
    BY DEF IndInv, TypeOK, MQ!BrokerTypeOK
  <1>2. unacked' # unacked
    BY CalcsAssumption
  <1>3. PICK d \in Consumers : \/ Receive(d) \/ RejectMalformed(d) \/ Acknowledge(d)
                               \/ ChannelLost(d) \/ ConsumerCrash(d)
    BY <1>2
    DEF Next, vars, RateServiceNext, AuditServiceNext, brokerVars, Request,
        RelayLocal, Delete, Publish, PublishUnconfirmed, PublishFailed,
        PublishForeign, MQ!Accept, SaveRecord, SaveFailed, OrphanStep
  <1>4. CASE Receive(d)
    <2>1. /\ Head(queue) \in Calcs \cup Foreign
          /\ unacked' = [unacked EXCEPT ![d] = Head(queue)]
      BY <1>1, <1>4, DeliverHolds DEF Receive
    <2> QED BY <1>1, <2>1, CalcsAssumption
  <1>5. CASE RejectMalformed(d)
    <2>1. /\ unacked' = [unacked EXCEPT ![d] = None]
          /\ unacked[d] \in Foreign
      BY <1>5 DEF RejectMalformed, AL!RejectMalformed, AL!Becomes, MQ!DeadLetter, MQ!Settle,
                  IndInv, HandlerInv
    <2> QED BY <1>1, <2>1, CalcsAssumption
  <1>6. CASE Acknowledge(d)
    <2>1. /\ unacked' = [unacked EXCEPT ![d] = None]
          /\ AL!Recorded(unacked[d])
      BY <1>6 DEF Acknowledge, AL!Acknowledge, AL!Becomes, MQ!Forget, MQ!Settle, IndInv,
                  HandlerInv
    <2> QED BY <1>1, <2>1, CalcsAssumption
  <1>7. CASE ChannelLost(d) \/ ConsumerCrash(d)
    <2>1. unacked[d] # None /\ queue' = <<unacked[d]>> \o queue
      BY <1>7 DEF ChannelLost, ConsumerCrash, MQ!Requeue
    <2>2. Len(queue') = Len(queue) + 1 /\ Len(queue) \in Nat
      BY <1>1, <2>1
    <2> QED BY <2>2
  <1> QED BY <1>3, <1>4, <1>5, <1>6, <1>7

\* No crash, lost channel or failed save is ever taken for success.
THEOREM SettledEventsAreRecorded == Spec => SettledIsDone
  <1>1. IndInv /\ [Next]_vars
          => [\A c \in Consumers, k \in Calcs :
                unacked[c] = k /\ unacked'[c] = None /\ queue' = queue
                  => AL!Recorded(k)]_vars
    BY StepSettledIsDone
  <1> QED BY <1>1, Invariance, PTL DEF Spec, SettledIsDone

-----------------------------------------------------------------------------
(* The pipeline implements the ledger: a commit of the rate service is a   *)
(* commit of the ledger, an insert into the audit table is a ledger record *)
(* or nothing, and every other step is nothing.                            *)

\* A save that takes effect is a step of the ledger.
LEMMA InsertRefines ==
  ASSUME IndInv, UNCHANGED txn, NEW k \in Calcs, k \in RC!Committed,
         AL!Insert(k) \/ records' = records
  PROVE  [Ledger!LedgerNext]_(Ledger!ledgerVars)
  <1>1. RC!Committed' = RC!Committed /\ records \subseteq Calcs
    BY DEF RC!Committed, IndInv, TypeOK, AL!ConsumerTypeOK
  <1>2. CASE AL!Recorded(k) \/ records' = records
    <2>1. records' = records
      BY <1>2 DEF AL!Insert
    <2> QED BY <1>1, <2>1 DEF Ledger!ledgerVars
  <1>3. CASE ~AL!Recorded(k) /\ AL!Insert(k)
    <2>1. records' = records \cup {k}
      BY <1>3 DEF AL!Insert
    <2>2. \A j \in records : CidOf[j] # CidOf[k]
      BY <1>1, <1>3 DEF AL!Recorded, AL!SameCid
    <2>3. Ledger!Record(k)
      BY <1>1, <2>1, <2>2 DEF Ledger!Record
    <2> QED BY <2>3 DEF Ledger!LedgerNext
  <1> QED BY <1>2, <1>3

\* So is the commit of a calculation's transaction.
LEMMA CommitRefines ==
  ASSUME IndInv, NEW k \in Calcs, Request(k)
  PROVE  [Ledger!LedgerNext]_(Ledger!ledgerVars)
  <1>1. /\ txn \in [Calcs -> RC!Phases]
        /\ records' = records
    BY DEF IndInv, TypeOK, RC!OutboxTypeOK, Request, consumerVars
  <1>2. CASE RC!Commit(k)
    <2>1. k \notin RC!Committed /\ RC!Committed' = RC!Committed \cup {k}
      BY <1>1, <1>2 DEF RC!Commit, RC!Committed
    <2>2. Ledger!LedgerCommit(k)
      BY <1>1, <2>1 DEF Ledger!LedgerCommit
    <2> QED BY <2>2 DEF Ledger!LedgerNext
  <1>3. CASE ~RC!Commit(k)
    <2>1. RC!Committed' = RC!Committed
      BY <1>1, <1>3
      DEF Request, RC!Reject, RC!Moves, RC!Save, RC!Answer, RC!Rollback, RC!Open,
          RC!Committed
    <2> QED BY <1>1, <2>1 DEF Ledger!ledgerVars
  <1> QED BY <1>2, <1>3

\* Every step is one of the ledger's, or a stutter.
LEMMA StepRefines ==
  IndInv /\ [Next]_vars => [Ledger!LedgerNext]_(Ledger!ledgerVars)
  <1> SUFFICES ASSUME IndInv, [Next]_vars
               PROVE  [Ledger!LedgerNext]_(Ledger!ledgerVars)
    OBVIOUS
  <1>1. CASE \E k \in Calcs : Request(k)
    BY <1>1, CommitRefines
  <1>2. CASE \E c \in Consumers : SaveRecord(c) \/ SaveFailed(c)
    <2>1. PICK c \in Consumers : SaveRecord(c) \/ SaveFailed(c)
      BY <1>2
    <2>2. /\ txn' = txn /\ handler[c] = "parsed"
          /\ AL!Insert(unacked[c]) \/ records' = records
      BY <2>1 DEF SaveRecord, SaveFailed, AL!SaveRecord, AL!SaveAnd, AL!SaveUnconfirmed,
                  AL!SaveRaised, AL!Becomes, outboxVars
    <2>3. unacked[c] \in Calcs /\ unacked[c] \in RC!Committed
      BY <2>2 DEF IndInv, HandlerInv, MessageInv, MQ!Holds
    <2>4. PICK k \in Calcs : k = unacked[c]
      BY <2>3
    <2> QED BY <2>2, <2>3, <2>4, InsertRefines
  <1>3. CASE \E c \in Consumers, k \in Calcs : OrphanStep(c, k)
    <2>1. PICK c \in Consumers, k \in Calcs : OrphanStep(c, k)
      BY <1>3
    <2>2. /\ txn' = txn /\ k \in RC!Committed
          /\ AL!Insert(k) \/ records' = records
      BY <2>1 DEF OrphanStep, AL!OrphanSaved, AL!OrphanGone, outboxVars, IndInv,
                  MessageInv
    <2> QED BY <2>2, InsertRefines
  <1>4. CASE /\ ~\E k \in Calcs : Request(k)
             /\ ~\E c \in Consumers : SaveRecord(c) \/ SaveFailed(c)
             /\ ~\E c \in Consumers, k \in Calcs : OrphanStep(c, k)
    <2>1. txn' = txn /\ records' = records
      BY <1>4
      DEF Next, RateServiceNext, AuditServiceNext, vars, outboxVars, consumerVars,
          RelayLocal, RC!Poll, RC!Take, RC!DeleteRaised, RC!RelayCrash, Delete, RC!Delete,
          RC!LeaveRow, Publish, RC!Published, PublishUnconfirmed, PublishFailed,
          RC!PublishRaised, RC!SkipRow, PublishForeign, Receive, AL!Receive, AL!Becomes,
          RejectMalformed, AL!RejectMalformed, Acknowledge, AL!Acknowledge, ChannelLost,
          AL!ChannelLost, ConsumerCrash, AL!ConsumerCrash
    <2> QED BY <2>1 DEF Ledger!ledgerVars, RC!Committed
  <1> QED BY <1>1, <1>2, <1>3, <1>4

\* Every behaviour of the pipeline is a behaviour of the ledger.
THEOREM PipelineImplementsLedger == Spec => ImplementsLedger
  <1>1. Init => Ledger!LedgerInit
    BY DEF Init, RC!OutboxInit, AL!ConsumerInit, RC!Committed, Ledger!LedgerInit
  <1> QED
    BY <1>1, StepRefines, Invariance, PTL
    DEF Spec, ImplementsLedger, Ledger!LedgerSpec

=============================================================================
