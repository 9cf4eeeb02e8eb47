----------------------------- MODULE RateOutbox -----------------------------
(***************************************************************************)
(* The writing side of the audit trail, inside the rate_calculator         *)
(* service: the request transactions that put a RateCalculated event into  *)
(* the outbox table, and the relay job of every service instance, which    *)
(* copies outbox rows to the broker and deletes them.                      *)
(*                                                                         *)
(* A calculation stands for one POST /rates/calculate request and, once it *)
(* is saved, for its outbox row and for the event in the row's payload.    *)
(*                                                                         *)
(*   CidOf[k]      the X-Correlation-Id the caller sent; it need not be    *)
(*                 unique, because the service takes it from the header    *)
(*   CreatedAt[k]  the created_at the service's clock gives the row; any   *)
(*                 value, so clocks may run apart and rows may tie         *)
(***************************************************************************)
EXTENDS Naturals, FiniteSets

CONSTANTS Calcs, Cids, CidOf, CreatedAt, Relays, BatchSize, None

VARIABLES
  txn,     \* txn[k]: how far the request of calculation k has got
  outbox,  \* the calculations whose committed rows are in the outbox table
  batch,   \* batch[p]: rows relay p has read and not yet dealt with
  sent     \* sent[p]: the row relay p has published and will now delete

outboxVars == <<txn, outbox, batch, sent>>

(***************************************************************************)
(* "new"       not handled yet          "rejected"  404 or 422             *)
(* "flushed"   row inserted, open       "conflict"  500, duplicate row     *)
(* "answered"  200 sent, still open     "aborted"   rolled back, no answer *)
(* "committed" row durable              "lost"      rolled back, though    *)
(*                                                  the client has the 200 *)
(***************************************************************************)
Phases == {"new", "rejected", "flushed", "conflict", "answered", "aborted",
           "committed", "lost"}

OutboxTypeOK ==
  /\ txn \in [Calcs -> Phases]
  /\ outbox \subseteq Calcs
  /\ batch \in [Relays -> SUBSET Calcs]
  /\ sent \in [Relays -> Calcs \cup {None}]

OutboxInit ==
  /\ txn = [k \in Calcs |-> "new"]
  /\ outbox = {}
  /\ batch = [p \in Relays |-> {}]
  /\ sent = [p \in Relays |-> None]

Committed == {k \in Calcs : txn[k] = "committed"}

\* The request's transaction has an uncommitted outbox row.
Open(k) == txn[k] \in {"flushed", "answered"}

\* The caller has been given the rate.
Answered(k) == txn[k] \in {"answered", "committed", "lost"}

-----------------------------------------------------------------------------
(* Requests.  get_session opens one transaction per request and commits it *)
(* when the dependency exits; FastAPI runs that exit after the response    *)
(* has been sent.                                                          *)

\* The request goes on without a commit.
Moves(k, from, to) ==
  /\ txn[k] = from
  /\ txn' = [txn EXCEPT ![k] = to]
  /\ UNCHANGED <<outbox, batch, sent>>

\* A bad postal code, term or tier, or a configuration row that is missing.
Reject(k) == Moves(k, "new", "rejected")

\* uq_outbox_correlation_id: an INSERT waits for an open transaction that
\* holds the same correlation id, and fails on a committed row.
HeldOpen(k)   == \E j \in Calcs : Open(j) /\ CidOf[j] = CidOf[k]
HasDuplicate(k) == \E j \in outbox : CidOf[j] = CidOf[k]

\* Fault: the INSERT does not wait for an open transaction.
SaveWithoutWaiting(k) ==
  Moves(k, "new", IF HasDuplicate(k) \/ HeldOpen(k) THEN "conflict" ELSE "flushed")

Save(k) == ~HeldOpen(k) /\ Moves(k, "new", IF HasDuplicate(k) THEN "conflict" ELSE "flushed")

Answer(k) == Moves(k, "flushed", "answered")

Commit(k) ==
  /\ txn[k] = "answered"
  /\ txn' = [txn EXCEPT ![k] = "committed"]
  /\ outbox' = outbox \cup {k}
  /\ UNCHANGED <<batch, sent>>

\* The service stops or the database fails while the transaction is open.
Rollback(k) == Moves(k, "flushed", "aborted") \/ Moves(k, "answered", "lost")

-----------------------------------------------------------------------------
(* The relay job.  APScheduler never runs two jobs of one process at once, *)
(* so a relay reads a batch only when it is done with the one before; two  *)
(* service instances do overlap, because the SELECT takes no row locks.    *)

\* Fault: the SELECT sees rows that are not committed.
DirtyRows ==
  {rows \in SUBSET (outbox \cup {k \in Calcs : Open(k)}) :
     rows # {} /\ Cardinality(rows) <= BatchSize}

\* Fault: a cursor, by which rows older than the last one relayed are done.
NewerRows ==
  {rows \in SUBSET {k \in outbox : \A j \in Committed \ outbox : CreatedAt[j] <= CreatedAt[k]} :
     Cardinality(rows) <= BatchSize}

\* The BatchSize oldest rows, or all of them.
OldestRows ==
  {rows \in SUBSET outbox :
     /\ \/ rows = outbox /\ Cardinality(outbox) <= BatchSize
        \/ Cardinality(rows) = BatchSize
     /\ \A r \in rows, s \in outbox \ rows : CreatedAt[r] <= CreatedAt[s]}

Take(p) ==
  /\ batch[p] = {}
  /\ \E rows \in OldestRows : batch' = [batch EXCEPT ![p] = rows]
  /\ UNCHANGED <<txn, outbox, sent>>

Poll(p) == outbox # {} /\ Take(p)

\* Row k is the one the loop of relay p is at.
AtRow(p, k) ==
  /\ sent[p] = None
  /\ k \in batch[p]
  /\ \A r \in batch[p] : CreatedAt[k] <= CreatedAt[r]

\* The broker confirms: go on to the DELETE.
Published(p, k) ==
  /\ AtRow(p, k)
  /\ sent' = [sent EXCEPT ![p] = k]
  /\ UNCHANGED <<txn, outbox, batch>>

\* publish raises, and the loop goes on to the next row.
SkipRow(p, k) == AtRow(p, k) /\ batch' = [batch EXCEPT ![p] = @ \ {k}] /\ UNCHANGED <<txn, sent>>

\* Fault: the row is deleted whether or not the broker has confirmed.
PublishRaisedDeleting(p, k) == SkipRow(p, k) /\ outbox' = outbox \ {k}

\* publish raises: not connected, refused, or no confirm within 30 s.
PublishRaised(p, k) == SkipRow(p, k) /\ UNCHANGED outbox

\* The loop leaves the published row behind.
LeaveRow(p) ==
  /\ sent[p] # None
  /\ batch' = [batch EXCEPT ![p] = @ \ {sent[p]}]
  /\ sent' = [sent EXCEPT ![p] = None]
  /\ UNCHANGED txn

\* Fault: the session of the DELETE is closed without a commit.
DeleteUncommitted(p) == LeaveRow(p) /\ UNCHANGED outbox

\* The DELETE commits; deleting a row another relay has deleted is no error.
Delete(p) == LeaveRow(p) /\ outbox' = outbox \ {sent[p]}

\* The DELETE raises: the row stays, to be published again by a later batch.
DeleteRaised(p) == LeaveRow(p) /\ UNCHANGED outbox

\* The process ends between two steps of a batch (crash, or stop(), which
\* does not wait for the job); a new process starts with an empty hand.
RelayCrash(p) ==
  /\ batch[p] # {}
  /\ batch' = [batch EXCEPT ![p] = {}]
  /\ sent' = [sent EXCEPT ![p] = None]
  /\ UNCHANGED <<txn, outbox>>

=============================================================================
