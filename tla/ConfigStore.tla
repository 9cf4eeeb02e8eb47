----------------------------- MODULE ConfigStore ----------------------------
(***************************************************************************)
(* The pricing configuration of the rate_calculator service: the requests  *)
(* that change it, one database transaction each, and those that read it:  *)
(* calculations, by one SELECT per row, and GET requests, by one SELECT.   *)
(* PostgreSQL runs the transactions at READ COMMITTED (the engine sets no  *)
(* isolation level): a statement sees what is committed when it starts,    *)
(* and a written row stays locked until its writer commits or rolls back.  *)
(*                                                                         *)
(* A row is the base rate, a credit tier's multiplier or a district's; its *)
(* value is abstract.  The postal code's mapping row, and the number of    *)
(* districts a page of them is given with, are left out: no request        *)
(* changes them.                                                           *)
(***************************************************************************)
EXTENDS Naturals, FiniteSets

CONSTANTS
  BaseRow, Tiers, Districts,
  RegionOf,            \* the region2 of a district
  Values, Absent,
  Writers, Readers,
  OpsOf,               \* the operations writer w may perform
  TierOf, DistrictOf,  \* what reader q asks for if it calculates
  Pages,               \* the pages of districts a reader may ask for
  SeededStore          \* the configuration at the start

Rows == {BaseRow} \cup Tiers \cup Districts

Regions == {RegionOf[d] : d \in Districts}

\* PUT /config/system, PUT and POST /config/credit-tiers, PUT /config/districts,
\* PUT /config/regions
Ops ==
  [kind : {"putBase"}, target : {BaseRow}, value : Values]
    \cup [kind : {"putTier", "postTier"}, target : Tiers, value : Values]
    \cup [kind : {"putDistrict"}, target : Districts, value : Values]
    \cup [kind : {"putRegion"}, target : Regions, value : Values]

\* Rows of different tables differ.
ASSUME ConfigAssumption ==
  /\ Absent \notin Values
  /\ BaseRow \notin Tiers \cup Districts
  /\ Tiers \cap Districts = {}
  /\ OpsOf \in [Writers -> SUBSET Ops]
  /\ TierOf \in [Readers -> Tiers]
  /\ DistrictOf \in [Readers -> Districts]
  /\ Pages \subseteq SUBSET Districts
  /\ SeededStore \in [Rows -> Values \cup {Absent}]

VARIABLES
  store,  \* the committed value of every row
  phase,  \* phase[w]: how far the request of writer w has got
  op,     \* op[w]: what it asks for, once it has arrived
  todo,   \* todo[w]: rows its statement has still to write
  wrote,  \* wrote[w]: rows it has written, and locks
  skipped, \* writers whose base rate needed no UPDATE
  pc,     \* pc[q]: how far reader q has got
  scope,  \* scope[q]: the rows it is to read
  used,   \* used[q]: the values it has read
  seen    \* seen[q]: what was committed in its scope at a moment while it ran

writerVars == <<phase, op, todo, wrote, skipped>>
readerVars == <<pc, scope, used, seen>>
vars       == <<store, writerVars, readerVars>>

TypeOK ==
  /\ store \in [Rows -> Values \cup {Absent}]
  /\ phase \in [Writers -> {"new", "arrived", "writing", "answered", "committed",
                            "refused", "failed", "lost"}]
  /\ \A w \in Writers : phase[w] # "new" => op[w] \in OpsOf[w]
  /\ todo \in [Writers -> SUBSET Rows]
  /\ wrote \in [Writers -> SUBSET Rows]
  /\ skipped \subseteq Writers
  /\ pc \in [Readers -> {"new", "base", "tier", "district", "priced", "getting", "listing",
                         "listed", "refused"}]
  /\ scope \in [Readers -> SUBSET Rows]
  /\ \A q \in Readers :
       /\ used[q] \in [DOMAIN used[q] -> Values \cup {Absent}]
       /\ DOMAIN used[q] \subseteq scope[q]
       /\ \A s \in seen[q] : s \in [scope[q] -> Values \cup {Absent}]

Init ==
  /\ store = SeededStore
  /\ phase = [w \in Writers |-> "new"]
  /\ op = [w \in Writers |-> Absent]
  /\ todo = [w \in Writers |-> {}]
  /\ wrote = [w \in Writers |-> {}]
  /\ skipped = {}
  /\ pc = [q \in Readers |-> "new"]
  /\ scope = [q \in Readers |-> {}]
  /\ used = [q \in Readers |-> [r \in {} |-> Absent]]
  /\ seen = [q \in Readers |-> {}]

-----------------------------------------------------------------------------
(* Administrative requests. *)

Arrive(w) ==
  /\ phase[w] = "new"
  /\ \E o \in OpsOf[w] : op' = [op EXCEPT ![w] = o]
  /\ phase' = [phase EXCEPT ![w] = "arrived"]
  /\ UNCHANGED <<store, todo, wrote, skipped, readerVars>>

\* The rows a request finds by its SELECT: one row, or a region's districts.
Found(o) ==
  {r \in Rows : store[r] # Absent /\
     IF o.kind = "putRegion" THEN r \in Districts /\ RegionOf[r] = o.target
                             ELSE r = o.target}

\* 404 for an update of a row that is missing (500 for the base rate), 409
\* for a create of one that is there.
Refused(o) == IF o.kind = "postTier" THEN Found(o) # {} ELSE Found(o) = {}

\* Fault: the request's path parameter is saved along with what was found.
TargetsByName(o) == Found(o) \cup {o.target}

Targets(o) == IF o.kind = "postTier" THEN {o.target} ELSE Found(o)

Lookup(w) ==
  /\ phase[w] = "arrived"
  /\ phase' = [phase EXCEPT ![w] = IF Refused(op[w]) THEN "refused" ELSE "writing"]
  /\ todo' = IF Refused(op[w]) THEN todo ELSE [todo EXCEPT ![w] = Targets(op[w])]
  /\ UNCHANGED <<store, op, wrote, skipped, readerVars>>

Locked(w, r) == \E v \in Writers \ {w} : r \in wrote[v]

\* INSERT ... ON CONFLICT DO UPDATE, or UPDATE: both wait for the row's lock.
WriteRow(w, r) ==
  /\ phase[w] = "writing"
  /\ r \in todo[w]
  /\ ~Locked(w, r)
  /\ wrote' = [wrote EXCEPT ![w] = @ \cup {r}]
  /\ todo' = [todo EXCEPT ![w] = @ \ {r}]
  /\ UNCHANGED <<store, phase, op, skipped, readerVars>>

\* The session emits no UPDATE for a base rate it has loaded with that value.
SkipUnchanged(w) ==
  /\ phase[w] = "writing"
  /\ op[w].kind = "putBase"
  /\ BaseRow \in todo[w]
  /\ store[BaseRow] = op[w].value
  /\ todo' = [todo EXCEPT ![w] = {}]
  /\ skipped' = skipped \cup {w}
  /\ UNCHANGED <<store, phase, op, wrote, readerVars>>

\* Fault: the response does not wait for every row to be written.
SomeWritten(w) == wrote[w] # {}

AllWritten(w) == todo[w] = {}

\* The 200 or 201 is sent; the transaction is still open.
Respond(w) ==
  /\ phase[w] = "writing" /\ AllWritten(w)
  /\ phase' = [phase EXCEPT ![w] = "answered"]
  /\ UNCHANGED <<store, op, todo, wrote, skipped, readerVars>>

View(s, rows) == [r \in rows |-> s[r]]

Running(q) == pc[q] \in {"base", "tier", "district", "getting", "listing"}

\* Fault: the session is never closed.
KeepLocks(w) == UNCHANGED wrote

ReleaseLocks(w) == wrote' = [wrote EXCEPT ![w] = {}]

Commit(w) ==
  /\ phase[w] = "answered"
  /\ store' = [r \in Rows |-> IF r \in wrote[w] THEN op[w].value ELSE store[r]]
  /\ phase' = [phase EXCEPT ![w] = "committed"]
  /\ ReleaseLocks(w)
  /\ seen' = [q \in Readers |-> IF Running(q) THEN seen[q] \cup {View(store', scope[q])}
                                              ELSE seen[q]]
  /\ UNCHANGED <<op, todo, skipped, pc, scope, used>>

Rollback(w) ==
  /\ phase[w] \in {"writing", "answered"}
  /\ phase' = [phase EXCEPT ![w] = IF @ = "answered" THEN "lost" ELSE "failed"]
  /\ todo' = [todo EXCEPT ![w] = {}]
  /\ ReleaseLocks(w)
  /\ UNCHANGED <<store, op, skipped, readerVars>>

\* Every writer of the group waits for rows that others of the group hold.
Stuck(group) ==
  \A w \in group :
    /\ phase[w] = "writing" /\ todo[w] # {}
    /\ \A r \in todo[w] : \E v \in group \ {w} : r \in wrote[v]

\* PostgreSQL aborts one transaction of a deadlock.
DeadlockAbort(w) ==
  /\ \E group \in SUBSET Writers : w \in group /\ Stuck(group)
  /\ Rollback(w)

-----------------------------------------------------------------------------
(* Readers. *)

Begin(q, at, rows) ==
  /\ pc[q] = "new"
  /\ pc' = [pc EXCEPT ![q] = at]
  /\ scope' = [scope EXCEPT ![q] = rows]
  /\ seen' = [seen EXCEPT ![q] = {View(store, rows)}]
  /\ UNCHANGED <<store, writerVars, used>>

\* Fault: a SELECT sees what another transaction has written but not committed.
VisibleDirty(r) ==
  LET writing == {w \in Writers : r \in wrote[w]}
  IN  IF writing = {} THEN store[r] ELSE op[CHOOSE w \in writing : TRUE].value

Visible(r) == store[r]

Select(q, rows) ==
  used' = [used EXCEPT ![q] = [r \in DOMAIN used[q] \cup rows |->
                                IF r \in rows THEN Visible(r) ELSE used[q][r]]]

\* The one row it needs is missing: 404, or 500 for the base rate.
Read(q, at, row, next) ==
  /\ pc[q] = at
  /\ Select(q, {row})
  /\ pc' = [pc EXCEPT ![q] = IF used'[q][row] = Absent THEN "refused" ELSE next]
  /\ UNCHANGED <<store, writerVars, scope, seen>>

\* POST /rates/calculate: system config, then tier, then district.
ReadMapping(q)  == Begin(q, "base", {BaseRow, TierOf[q], DistrictOf[q]})
ReadBase(q)     == Read(q, "base", BaseRow, "tier")
ReadTier(q)     == Read(q, "tier", TierOf[q], "district")
ReadDistrict(q) == Read(q, "district", DistrictOf[q], "priced")

\* GET /config/system, /config/credit-tiers, /config/districts and
\* /config/districts/{district}
GetSystemConfig(q) == Begin(q, "getting", {BaseRow})
ListCreditTiers(q) == Begin(q, "listing", Tiers)
ListDistricts(q)   == \E page \in Pages : Begin(q, "listing", page)
GetDistrict(q)     == \E d \in Districts : Begin(q, "getting", {d})

AnswerOne(q) == \E r \in scope[q] : Read(q, "getting", r, "listed")

\* One SELECT for the whole list.
AnswerList(q) ==
  /\ pc[q] = "listing"
  /\ Select(q, scope[q])
  /\ pc' = [pc EXCEPT ![q] = "listed"]
  /\ UNCHANGED <<store, writerVars, scope, seen>>

-----------------------------------------------------------------------------
WriterNext(w) ==
  \/ Arrive(w) \/ Lookup(w) \/ SkipUnchanged(w) \/ Respond(w) \/ Commit(w)
  \/ Rollback(w) \/ DeadlockAbort(w)
  \/ \E r \in Rows : WriteRow(w, r)

ReaderNext(q) ==
  \/ ReadMapping(q) \/ ReadBase(q) \/ ReadTier(q) \/ ReadDistrict(q)
  \/ GetSystemConfig(q) \/ ListCreditTiers(q) \/ ListDistricts(q) \/ GetDistrict(q)
  \/ AnswerOne(q) \/ AnswerList(q)

Next == (\E w \in Writers : WriterNext(w)) \/ (\E q \in Readers : ReaderNext(q))

Spec == Init /\ [][Next]_vars

\* A request that has arrived is carried on with, and a deadlock is broken.
Fairness ==
  \A w \in Writers :
    /\ WF_vars(Lookup(w))
    /\ WF_vars(\E r \in Rows : WriteRow(w, r))
    /\ WF_vars(Respond(w))
    /\ WF_vars(Commit(w))
    /\ WF_vars(DeadlockAbort(w))

LiveSpec == Spec /\ Fairness

-----------------------------------------------------------------------------
(* Properties. *)

\* Every factor of a price was a committed value at some moment while its
\* calculation ran, and the rows of a list were so at one and the same moment:
\* never a value from a transaction that was still open or was rolled back,
\* never half of a region's update, and never a value already replaced, by a
\* committed change, when the request began.
ReadFromCommitted ==
  \A q \in Readers :
    /\ pc[q] = "priced" => \A r \in scope[q] : \E s \in seen[q] : used[q][r] = s[r]
    /\ pc[q] = "listed" => used[q] \in seen[q]

\* The operations that have taken effect: a base rate that was already there
\* takes effect when the session finds it so, anything else when it commits.
Applied ==
  [w \in Writers |-> IF phase[w] = "committed" \/ w \in skipped THEN op[w] ELSE Absent]

AC == INSTANCE AtomicConfig WITH applied <- Applied

\* Every request that succeeds takes effect at one moment, as a whole, and on
\* the rows that are there at that moment.
ImplementsAtomicConfig == AC!ConfigSpec

\* Every request that has arrived comes to an end, also when two region
\* updates wait for each other's rows.
EveryRequestEnds ==
  \A w \in Writers : phase[w] = "arrived" ~>
    phase[w] \in {"committed", "refused", "failed", "lost"}

-----------------------------------------------------------------------------
(* What the documents promise, and the code does not. *)

\* ADR-002: calculations see a consistent, point-in-time snapshot.
PointInTimeSnapshot ==
  \A q \in Readers : pc[q] = "priced" => used[q] \in seen[q]

\* Contract test: creating a tier that exists is refused, so that one tier is
\* never created twice.
CreatedOnce ==
  \A v, w \in Writers :
    /\ phase[v] \in {"answered", "committed"} /\ phase[w] \in {"answered", "committed"}
    /\ op[v].kind = "postTier" /\ op[w].kind = "postTier"
    /\ op[v].target = op[w].target
    => v = w

=============================================================================
