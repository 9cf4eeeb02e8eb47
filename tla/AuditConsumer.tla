---------------------------- MODULE AuditConsumer ---------------------------
(***************************************************************************)
(* The audit_log service's message handler and the table it fills.         *)
(*                                                                         *)
(* A message is a calculation (the event of that calculation) or a member  *)
(* of Foreign, a message _deserialise cannot read.  Events in Unstorable   *)
(* deserialise and then always violate a constraint of the table: a rate   *)
(* below 0.0000005 is positive for the domain, and zero for NUMERIC(20,6). *)
(***************************************************************************)
EXTENDS Naturals, FiniteSets

CONSTANTS Calcs, Foreign, Unstorable, CidOf, Consumers

VARIABLES
  handler,  \* handler[c]: where consumer c is with the message it was handed
  orphans,  \* orphans[c]: events whose save goes on after their channel died
  records   \* the calculations that calculation_records holds

consumerVars == <<handler, orphans, records>>

(***************************************************************************)
(* "waiting"    no message              "saved"    record committed        *)
(* "parsed"     deserialised            "stalled"  the save raised: the    *)
(* "malformed"  not deserialisable                 handler is gone and the *)
(*                                                 message stays unacked   *)
(***************************************************************************)
HandlerStates == {"waiting", "parsed", "malformed", "saved", "stalled"}

ConsumerTypeOK ==
  /\ handler \in [Consumers -> HandlerStates]
  /\ orphans \in [Consumers -> SUBSET Calcs]
  /\ records \subseteq Calcs

ConsumerInit ==
  /\ handler = [c \in Consumers |-> "waiting"]
  /\ orphans = [c \in Consumers |-> {}]
  /\ records = {}

\* The calculations that share a correlation id with calculation k.
SameCid(k) == {j \in Calcs : CidOf[j] = CidOf[k]}

Recorded(k) == SameCid(k) \cap records # {}

-----------------------------------------------------------------------------
\* Faults: no conflict clause and no constraint; ON CONFLICT DO UPDATE.
InsertDuplicate(k) == records' = records \cup {k}
InsertReplacing(k) == records' = (records \ SameCid(k)) \cup {k}

\* INSERT ... ON CONFLICT (correlation_id) DO NOTHING
Insert(k) == records' = IF Recorded(k) THEN records ELSE records \cup {k}

\* The handler goes on without touching the table.
Becomes(c, from, to) ==
  /\ handler[c] \in from
  /\ handler' = [handler EXCEPT ![c] = to]
  /\ UNCHANGED <<orphans, records>>

Receive(c, m) == Becomes(c, {"waiting"}, IF m \in Foreign THEN "malformed" ELSE "parsed")

\* Fault: a failed save is handled like a malformed message.
RejectAnyFailure(c) == Becomes(c, {"malformed", "stalled"}, "waiting")

\* nack(requeue=False); return
RejectMalformed(c) == Becomes(c, {"malformed"}, "waiting")

\* The INSERT is committed.
SaveAnd(c, k, next) ==
  /\ handler[c] = "parsed" /\ k \notin Unstorable
  /\ Insert(k)
  /\ handler' = [handler EXCEPT ![c] = next]
  /\ UNCHANGED orphans

SaveRecord(c, k) == SaveAnd(c, k, "saved")

\* The COMMIT reaches the database, its outcome does not reach the handler.
SaveUnconfirmed(c, k) == SaveAnd(c, k, "stalled")

SaveRaised(c) == Becomes(c, {"parsed"}, "stalled")

\* Fault: the message is acknowledged also when the save has raised.
AcknowledgeAlways(c) == Becomes(c, {"saved", "stalled"}, "waiting")

Acknowledge(c) == Becomes(c, {"saved"}, "waiting")

\* Fault: whatever was in hand is saved, deserialised or not.
ChannelLostSavesAny(c, m) ==
  /\ orphans' = [orphans EXCEPT ![c] = @ \cup {m}]
  /\ handler' = [handler EXCEPT ![c] = "waiting"]
  /\ UNCHANGED records

\* The channel closes under the handler and the robust connection opens a new
\* one.  A save under way may still commit; a pending ack or nack is void.
ChannelLost(c, m) ==
  /\ orphans' = IF handler[c] = "parsed" THEN [orphans EXCEPT ![c] = @ \cup {m}] ELSE orphans
  /\ handler' = [handler EXCEPT ![c] = "waiting"]
  /\ UNCHANGED records

OrphanSaved(c, k) ==
  /\ k \in orphans[c] \ Unstorable
  /\ Insert(k)
  /\ orphans' = [orphans EXCEPT ![c] = @ \ {k}]
  /\ UNCHANGED handler

OrphanGone(c, k) ==
  /\ k \in orphans[c]
  /\ orphans' = [orphans EXCEPT ![c] = @ \ {k}]
  /\ UNCHANGED <<handler, records>>

\* The process dies and is started again.
ConsumerCrash(c) ==
  /\ handler' = [handler EXCEPT ![c] = "waiting"]
  /\ orphans' = [orphans EXCEPT ![c] = {}]
  /\ UNCHANGED records

=============================================================================
