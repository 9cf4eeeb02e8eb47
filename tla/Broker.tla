------------------------------- MODULE Broker -------------------------------
(***************************************************************************)
(* RabbitMQ as the two services use it: the durable queue of the audit     *)
(* events, the message each consumer has been handed and has not           *)
(* acknowledged, and the topology that infra/rabbitmq/definitions.json     *)
(* declares, which decides where a message goes.  The broker itself is     *)
(* external; it keeps every persistent message it has confirmed.           *)
(***************************************************************************)
EXTENDS Naturals, Sequences

CONSTANTS
  Messages, Consumers, None,
  MaxQueue     \* bound on the ready messages a publisher can add to

VARIABLES
  queue,         \* ready messages of audit.calculations, oldest first
  unacked,       \* unacked[c]: delivered to consumer c, not settled
  deadLettered,  \* messages that reached audit.calculations.dlq
  dropped        \* messages the broker has thrown away

brokerVars == <<queue, unacked, deadLettered, dropped>>

BrokerTypeOK ==
  /\ queue \in Seq(Messages)
  /\ unacked \in [Consumers -> Messages \cup {None}]
  /\ deadLettered \subseteq Messages
  /\ dropped \subseteq Messages

BrokerInit ==
  /\ queue = <<>>
  /\ unacked = [c \in Consumers |-> None]
  /\ deadLettered = {}
  /\ dropped = {}

-----------------------------------------------------------------------------
(* Topology.  Both exchanges match routing keys literally: audit.dlx is a  *)
(* direct exchange and the topic binding of audit.events has no wildcard.  *)

EventsExchange == "audit.events"
EventsQueue    == "audit.calculations"
DeadLetterQueue == "audit.calculations.dlq"
RoutingKey     == "calculation.completed"   \* RABBITMQ_ROUTING_KEY

Bindings ==
  {[source |-> EventsExchange, key |-> "calculation.completed",
    destination |-> EventsQueue],
   [source |-> "audit.dlx", key |-> "audit.calculations",
    destination |-> DeadLetterQueue]}

\* x-dead-letter-exchange of the events queue.  The queue declares no
\* x-dead-letter-routing-key, so a rejected message keeps its own key.
DeadLetterExchange == "audit.dlx"
DeadLetterKey      == RoutingKey

Routes(exchange, key, q) ==
  \E b \in Bindings : b.source = exchange /\ b.key = key /\ b.destination = q

-----------------------------------------------------------------------------
\* A message is in the events queue or in a consumer's hands.
Holds(m) ==
  \/ \E i \in 1..Len(queue) : queue[i] = m
  \/ \E c \in Consumers : unacked[c] = m

\* A publish to audit.events; an unroutable message would be returned.
Accept(m) ==
  /\ Len(queue) < MaxQueue
  /\ Routes(EventsExchange, RoutingKey, EventsQueue)
  /\ queue' = Append(queue, m)
  /\ UNCHANGED <<unacked, deadLettered, dropped>>

\* prefetch_count = 1: a consumer is handed one message at a time.
Deliver(c) ==
  /\ unacked[c] = None
  /\ queue # <<>>
  /\ unacked' = [unacked EXCEPT ![c] = Head(queue)]
  /\ queue' = Tail(queue)
  /\ UNCHANGED <<deadLettered, dropped>>

Settle(c) ==
  /\ unacked[c] # None
  /\ unacked' = [unacked EXCEPT ![c] = None]
  /\ UNCHANGED queue

\* basic.ack
Forget(c) ==
  /\ Settle(c)
  /\ UNCHANGED <<deadLettered, dropped>>

\* basic.nack with requeue = false
DeadLetter(c) ==
  /\ Settle(c)
  /\ IF Routes(DeadLetterExchange, DeadLetterKey, DeadLetterQueue)
       THEN /\ deadLettered' = deadLettered \cup {unacked[c]}
            /\ UNCHANGED dropped
       ELSE /\ dropped' = dropped \cup {unacked[c]}
            /\ UNCHANGED deadLettered

\* The channel of consumer c closes: its message goes back to the front.
Requeue(c) ==
  /\ unacked[c] # None
  /\ queue' = <<unacked[c]>> \o queue
  /\ unacked' = [unacked EXCEPT ![c] = None]
  /\ UNCHANGED <<deadLettered, dropped>>

=============================================================================
