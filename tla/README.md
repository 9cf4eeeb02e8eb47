# A verification project for the Loan Eligibility and Risk Pricing Engine

TLA+ modules that model the parts of the engine where its guarantees are made, TLC
configurations that check them on small instances, and TLAPS proofs, for every instance, of
every safety property that a passing run checks. Source paths below are abbreviated: `RC/` is
`services/rate_calculator/src/rate_calculator/`, `AL/` is
`services/audit_log/src/audit_log/`.

## 1. Inventory

Two services, each with its own PostgreSQL database, joined by RabbitMQ, behind a Kong
gateway.

| Component | State it keeps | Operations | Interacts through |
|---|---|---|---|
| Rate request (`RC/api/routers/rates.py`, `RC/application/use_cases/commands/calculate_loan_rate.py`) | one database transaction per request | read four configuration rows, multiply, insert an outbox row, answer, commit | HTTP, the rate database |
| Outbox (`RC/infrastructure/database/models.py`) | table of events not yet relayed, unique by correlation id | insert (request), select and delete (relay) | shared table |
| Relay (`RC/infrastructure/outbox/relay.py`) | the batch in memory | poll, publish, delete | outbox table, broker |
| Publisher (`RC/infrastructure/messaging/rabbitmq_publisher.py`) | a channel with confirms | publish | broker |
| RabbitMQ (`infra/rabbitmq/definitions.json`) | queue, unacknowledged messages, dead letters | accept, deliver, ack, nack, requeue | AMQP |
| Consumer (`AL/infrastructure/messaging/consumer.py`) | the message in hand | deserialise, save, ack or nack | broker, audit database |
| Calculation records (`AL/infrastructure/repositories/calculation_record_repository.py`, migrations) | append-only table, unique by correlation id | insert-or-ignore, paged query | audit database |
| Configuration API (`RC/api/routers/config.py`, five use cases, three repositories) | base rate, tier and district multipliers | five writes, five reads | rate database |
| Seeder (`RC/infrastructure/seeder.py`) | the same tables, and the postal code mapping | seed and re-seed | rate database |
| Rate formula (`RC/domain`) | none | term bands, product, positivity | called by the rate request |
| Audit query (`AL/api/routers/records.py`) | none | count and page of a date range | audit database |
| Audit database and service instances (`infra/postgres/audit-log-init.sh`, migrations, Dockerfile, `AL/api/main.py`) | schema version, grants, what each instance is at | first start and its script, migrate, serve, stop | audit database |
| Risk model (`scripts/risk_model`) | the file of scores | cluster boroughs, classify clusters, write the file | a CSV the seeder reads |
| Gateway (`infra/kong`), wiring, logging, health | none of their own | | |

The hard behaviours are these.

* **Several processes, at-least-once steps.** Every service may run in several instances.
  The relay publishes, then deletes; the consumer saves, then acknowledges. Between the two
  halves a process may end, a confirm may be lost, a channel may close, another instance
  may do the same. The system is correct when an event is never lost and never counted
  twice, and when every event gets through in the end.
* **The response precedes the commit.** `get_session` (`RC/api/dependencies.py:40-45`) is a
  dependency with `yield`: FastAPI, at the version in `uv.lock`, runs its exit, which
  commits, after the response is sent. "Answered" and "durable" are different states, for
  rate requests and for configuration updates.
* **READ COMMITTED.** The engine sets no isolation level; a calculation reads three
  changeable rows by three statements, and administrators look a row up by one statement
  and write it by another.
* **Failure handling by exception type.** The consumer rejects what it cannot deserialise
  and leaves unacknowledged what it cannot save; with `prefetch_count=1` the second stalls
  the consumer until its channel closes.
* **Files and schemas without a guard.** The risk model's script truncates the file of
  scores and writes it in place while a seeder may read it; nothing marks a complete file.
  Instances of the audit service migrate on start, several at once, and the table's
  immutability is a second migration after the one that creates it.

What makes each component correct:

* outbox and relay: a committed event leaves the outbox only when the broker has it; a
  request refused as a duplicate is a duplicate of something durable;
* broker and consumer: a message is settled only when its correlation id is on record, only
  unreadable messages are rejected, one record per correlation id, of a committed
  calculation;
* the pipeline as a whole: it implements a ledger, and under fair scheduling every committed
  calculation is recorded and the pipeline comes to rest;
* configuration: each successful change takes effect at one moment and as a whole, every
  request ends, a price uses only committed values, a list is of one moment;
* seeder: nothing half-seeded, every mapped postal code leads to a district with a
  multiplier, no calibrated district overwritten, and no second base rate, however runs
  overlap or fail;
* risk model: whatever it writes, and whenever it is stopped, only multipliers that a whole
  country's clusters are owed reach the configuration, and a borough is left without one only
  because a writer had not finished;
* rate formula: the record of a calculation agrees with its own factors, and only a rate
  too small for the column is refused;
* audit query: an auditor who walks the pages while records come and go is given every
  record that was there and still is;
* audit database: no moment at which a record can be changed, no instance on half a schema.

The hazards, each with its line and the properties that watch it, are in `PROJECT.json`.

## 2. Modules

| Module | Models | Source |
|---|---|---|
| `RateOutbox` | requests' transactions, the outbox, the relays | `rates.py`, `calculate_loan_rate.py`, `outbox_repository.py`, `dependencies.py`, `relay.py` |
| `Broker` | queue, deliveries, dead-lettering over the declared topology | `definitions.json`, `rabbitmq_publisher.py`, `consumer.py:50-57`; RabbitMQ itself is external |
| `AuditConsumer` | the message handler and the records table | `consumer.py`, `calculation_record_repository.py`, audit migration 0001 |
| `AuditLedger` | *abstract*: a growing set of recorded calculations | what ADR-003 and ADR-004 promise |
| `AuditPipeline` | the composition of the three, its properties, the inductive invariant | |
| `AuditPipelineProofs` | the theorems | |
| `ConfigStore` | the five configuration writes, the reads of a calculation and the four GET endpoints, as READ COMMITTED transactions | `config.py`, use cases, repositories, `calculate_loan_rate.py:66-97` |
| `AtomicConfig` | *abstract*: changes that take effect once, at one moment, as a whole | |
| `ConfigStoreProofs` | the theorems, the refinement among them | |
| `RiskModel` | the script: its refusals, the clusters' classes and multipliers, the writing of the file | `scripts/risk_model/src/risk_model/` |
| `Seeder` | runs of the seeder, one after the other or at once, among administrators' changes | `seeder.py` |
| `Bootstrap` | the composition of the two, which share the file of scores | |
| `BootstrapProofs`, `RiskScoreProofs` | the theorems about the tables, and about the file of scores | |
| `RateFormula` | the decimals of a rate, from what is entered to what is recorded | `RC/domain`, both schemas |
| `RateFormulaProofs` | the theorems | |
| `AuditQuery` | a walk over the pages of `GET /records` | `records.py`, `list_calculation_records.py`, `calculation_record_repository.py:56-85` |
| `AuditService` | the database, its migrations and roles, and the instances that serve the walk and the consumer's inserts | `audit-log-init.sh`, migrations 0001 and 0002, `AL/api/main.py` |
| `AuditQueryProofs`, `AuditServiceProofs` | what a walk's steps keep; the theorems | |
| `MCAuditPipeline`, `MCConfigStore`, `MCBootstrap`, `MCRateFormula`, `MCAuditService` | values of the structured constants for TLC | |

`RateOutbox`, `Broker` and `AuditConsumer` meet in `AuditPipeline`, `RiskModel` and `Seeder`
in `Bootstrap`, `AuditQuery` in `AuditService`. The seeder shares the tables with the
configuration API, whose changes `Seeder` takes as atomic, which is what the refinement of
`AtomicConfig` says. `RateFormula` changes nothing another component sees.

`AuditPipeline` takes each component by `INSTANCE` and conjoins their operators: `Publish`
is `RC!Published /\ MQ!Accept`, `Acknowledge` is `AL!Acknowledge /\ MQ!Forget`. An operator
of a component is one handler step; the step that spans two components is one action of
the composition, because publish-with-confirm, ack and nack are one exchange each, and the
ways such an exchange comes apart (confirm lost, channel lost under a handler) are actions
of their own.

### 2.1 Audit pipeline: state and actions

`txn[k]` is where the request of calculation `k` has got:

| `txn[k]` | Code |
|---|---|
| `"new"` -> `"rejected"` (`Reject`) | `DomainError` 422, `NotFoundError` 404, or a row not seeded; the transaction is rolled back |
| `"new"` -> `"flushed"` or `"conflict"` (`Save`) | `flush()` of the `OutboxModel`; the unique index makes the INSERT wait for an open transaction with the same correlation id (`HeldOpen`) and fail on a committed row (`HasDuplicate`, a 500) |
| `"flushed"` -> `"answered"` (`Answer`) | the handler returns, the 200 is sent |
| `"answered"` -> `"committed"` (`Commit`) | the exit of `get_session` |
| `"flushed"` -> `"aborted"`, `"answered"` -> `"lost"` (`Rollback`) | process end or database failure while the transaction is open |

`outbox` is the table's committed rows. `batch[p]` and `sent[p]` are relay `p`'s position
in `_relay_batch`: rows still to deal with, and the row published and now to delete.
`Poll` reads the `BatchSize` oldest rows by `created_at`, ties in any order; `AtRow` is the
loop's next row; `Published`/`PublishRaised` and `Delete`/`DeleteRaised` are the outcomes of
the two awaits; `RelayCrash` the end of the process. APScheduler's default of one running
instance per job is why a relay polls only with an empty hand.

`queue`, `unacked[c]`, `deadLettered`, `dropped` are the broker's; `handler[c]` is the point
`_handle_message` has reached, `orphans[c]` the saves that go on after their channel was
lost, `records` the audit table. A consumer whose save raised is `"stalled"`: its handler
is gone, its message unacknowledged, and nothing happens until `ChannelLost` (at the latest
RabbitMQ's delivery acknowledgement timeout). `SaveUnconfirmed` is the save that reached
the database and raised nevertheless.

Dead-lettering follows the declared topology instead of the comment: `DeadLetter` looks the
rejected message's key up in `Bindings` and drops it if there is none.

### 2.2 Configuration: state and actions

A row is the base rate, a tier or a district; `store` holds committed values, `wrote[w]`
the rows a writer has written and therefore locks, `todo[w]` those it has still to write.
A request arrives (`Arrive`), looks its rows up (`Lookup`: 404, 409, or go on), writes them
one at a time waiting for locks (`WriteRow`), responds (`Respond`), commits (`Commit`) or is
rolled back (`Rollback`). A region update writes its districts by one UPDATE; the rows are
locked one after the other in an order the planner chooses, so two may deadlock, and
PostgreSQL aborts one (`DeadlockAbort`). `SkipUnchanged` is the unit of work's own rule: no
UPDATE for a base rate that was loaded with the new value (the identity map holds the row
weakly, so `save` loads it again). Values the domain or the columns refuse end as
`"failed"`, like any other error before the response.

A reader is a calculation (`ReadMapping`, then base rate, tier and district in the code's
order, one action each) or a GET (`GetSystemConfig`, `ListCreditTiers`, `ListDistricts`,
`GetDistrict`, answered by one SELECT). `scope[q]` is the set of rows it is to read, and
`seen[q]` is history: what was committed in that scope at each moment while `q` ran.

### 2.3 Bootstrap: state and actions

`RiskModel`: `script` is where the script is. A run is refused (`Refuse`) if a borough lies
in two regions, if there are fewer boroughs than clusters or not the expected number;
otherwise it computes (`Compute`), opens the file and so empties it (`OpenOutput`), writes
some of it (`Flush`), and closes it (`Close`), or is killed anywhere (`Kill`). `scores` is
what is in the file; the last row of a buffer may be cut, and `CutShort` says what of its
multiplier is then left. `labels` has a labelling for each file of places, any of a set:
k-means is fitted to the coordinates and the row order of the file it is given, so two
editions of the places may be clustered differently, while the fixed seed repeats the
labelling of one file.

`Seeder`: the tables are what is committed; `stage[r]` is the last statement a run has
executed, from which its uncommitted writes and its locks follow; `row[r]` is the base rate
it has found, or its own new one, and `added[r]` the multipliers it will insert, from
`ReadScores` on. One action per `seed_...` function, two for `seed_base_rate`, whose SELECT
and write are separate statements, and two for `seed_districts`, which reads the file first;
then `Commit` or, from anywhere, `Fail`. A write waits for whoever has written the same
row; as every run writes the same tiers, only one at a time gets past them. `met` is
history: the pairs of runs that were open at once.

`Bootstrap` interleaves the two; `scores` is written by one and read by the other. `Owed(i, d)`
states the multiplier of a district apart from the code's arithmetic, by odds over the whole
country as file `i` clusters it. Two history variables record and guard nothing: `unfinished`,
that the script has opened the file and not closed it since, and `guessed`, the runs of the
seeder that read the file in such a time.

### 2.4 Rate formula: state and actions

A decimal is an integer of a known unit. `Rate` and `Multiplier` are the value objects,
`Column` and `Fits` a configuration column with its rounding, its CHECK and its width,
`Times` is Python's product in a context of limited digits, `Recorded` the audit column. The
factors may be reconfigured between `Calculate`, which makes the event, and `Record`, which
inserts the row that the event becomes (`RowOf`) or has it refused.

### 2.5 Audit service: state and actions

`database` and `script` are the container: on an empty data directory it runs its script
statement by statement (`RunScript`) and accepts no connection before the end; stopped in
between, it never runs it again. `version` is the last committed migration and `granted`
whether the service's role may use the table, which is decided by the default privileges of
the moment the table is created. An instance starts and finds a version (`StartInstance`,
`saw`), migrates in one transaction that takes it from there to the latest (`Migrate`) or
fails (`MigrationFails`: the connection, or another instance that was faster), and serves
(`Serve`). `Update` is an UPDATE by the owner or the service at any moment the table is
there; `updated` remembers who had one accepted.

`AuditQuery`: `Ask`, `Count` and `Fetch` are a request's validation and two statements,
between which `Insert` may add records anywhere in the order and `Purge` take the oldest;
`RequestFails` loses a request at any point. `AskNext` and `AskAgain` are the auditor.
`AuditService` allows these steps when the database is up, the table is there, the role may,
and, for the service's own, an instance serves.

## 3. What is checked

All runs finish with the deadlock check off, because the modelled requests are finitely
many and a system in which all have been served rightly stops.

| Run | Instance | Shows |
|---|---|---|
| `pipeline` | 3 calculations, two sharing an id, two a `created_at`, one unstorable; 1 unreadable message; 2 relays, 1 consumer | type correctness, `NoEventLost`, `ConflictIsAudited`, `LedgerConsistent`, `OnlyForeignRejected`, `SettledIsDone`, the inductive invariant, refinement of the ledger |
| `pipeline_live` | 2 calculations with their own ids, of which the older row may commit after the newer one is relayed, 1 unreadable message, 1 relay, 1 consumer, with fairness | every committed calculation is recorded, the pipeline drains |
| `config` | base rate, 2 tiers (one missing), a region of 2 districts, 2 values, 2 writers, 1 reader that calculates, gets or lists, with fairness | type correctness, refinement of `AtomicConfig`, reads of committed values only, every request ends, deadlocks included |
| `bootstrap` | 2 runs of the seeder with different places, an administrator; the script on 4 files (two complete ones in different orders, clustered differently, one a borough short, one with a borough torn between two states); 7 boroughs in 2 clusters | type correctness, nothing half-seeded, every mapping resolves, calibrated districts survive, one base rate unless runs overlap; no multiplier but one that a complete file is owed, or the neutral one, and that one only where a writer had not finished |
| `formula_rounding` | columns of two digits, one of them decimal; a context of six digits; 7 entered values, 7 terms around the bands' ends | type correctness, records agree with their factors, refusals only below half a unit, prices by band |
| `audit_service` | 2 instances, from an empty data directory on; 4 records in any order of arrival and purge; two ranges with pages of 1 and 2, and four refused queries | type correctness, nothing skipped, a quiet walk is exact, no page emptier than its total says, no UPDATE ever, no instance on half a schema, tables of use once the script has ended |

The remaining runs each find one documented promise violated by what the code does:

| Run | Promise | What happens |
|---|---|---|
| `pipeline_answered` | ADR-004: no audit event is silently lost | the transaction fails after the 200 was sent |
| `pipeline_shared_ids` | README: a record of every calculation | an id used again after its outbox row is gone is answered and then absorbed as a duplicate |
| `pipeline_dead_letter` | `consumer.py`: routed to the DLQ | the binding's key is not the key a rejected message carries |
| `pipeline_poison` | ADR-004: a poison message does not block the queue | there is no retry count; the event circulates for ever |
| `config_snapshot` | ADR-002: a point-in-time snapshot | commits between the reads are seen in part |
| `config_created_once` | contract test: a duplicate create gets 409 | both creates look before either commits |

`config` lets one writer create tiers, not both: with two creators the refinement fails for
the reason `config_created_once` shows.

More differences between documents and code are states of the models for which there is no
run of their own:

* An administrator's update is answered before it commits, so a read that starts on the
  200 may find the old value; ADR-001 (line 41) claims read-after-write consistency. The
  cause is that of `pipeline_answered`.
* Two first runs of the seeder at once leave two base rates, and every later read takes any
  one; `docs/database-schemas.md:11` calls the table a singleton. Nothing but the seeder's
  own lookup keeps it to one row; `SingletonUnlessOverlap` says that this is the only way.
* Districts are seeded with DO NOTHING. A run with risk scores after a run without them
  changes no multiplier, while `README.md:75` says every operation is an upsert.
* A script that is stopped while it writes leaves a beginning of its file. A seeder that
  reads it gives the missing boroughs the neutral multiplier without complaint, and because
  of DO NOTHING no later run repairs them; ADR-006 (lines 34 and 53) and
  `docs/database-schemas.md:33` count on all 383 boroughs in the file. This is why
  `PricedByItsCluster` allows the neutral multiplier; `NeutralOnlyIfUnfinished` says that
  nothing else leads to it.
* A new edition of the places is clustered anew, and districts that are there keep the
  multiplier of an earlier edition: the table may mix editions. `PricedByItsCluster` says that
  each multiplier is owed under some complete edition, and no more.
* An audit database whose container is stopped before its script ends never gets its
  grants. The instances migrate and serve all the same and `/health` answers, but neither
  INSERT nor SELECT is permitted: `UsableUnlessInterrupted` names the exception.
* A PUT echoes the multiplier it was given, the column keeps six decimals of it.
* The caller is given the product with every decimal place and the record keeps six: with
  the seeded values 1.03 x 1.3 x 1.15 x 1.05 the caller gets 1.6168425 and the record says
  1.616843. ADR-003 (line 9) says a record captures the final rate returned.

**Bounds.** `MaxQueue` bounds the ready messages a publisher may add to: with 1, a copy of
an event can be ready behind one that is in hand, and requeues may exceed the bound;
`pipeline_live` has 2. Two relays give every overlap of two instances. `BatchSize` is 2, and
a batch can hold all rows there are, since of the calculations that share an id only one is
in the table at a time: batches smaller than the table, and several consumers, are left to
the proofs of section 4, which are for any number of each. A save that outlives its channel
races the next one also with one consumer. Nothing bounds the number of failures, polls or
redeliveries: the state space is finite without it. Each run of the seeder happens once;
two give a first seed and a re-run that meets it open, failed or done, on another edition or
the same; a third is left to the proofs of section 4, which are for any number of runs. The
script runs any number of times. Seven boroughs give, with the two labellings, a cluster at
each threshold (three of five, two of five) and an all-eastern one; `FlushedAt` lets a buffer
end at the third borough, before the classes of a file are all written. One tier is
enough, since every run writes all of them together; `Calibrated` has one district,
that every run lists. The formula's columns keep the proportions of the real ones: only the
last product exceeds the decimal context (8 digits of 6, for 32 of 28), its last place is
far below the audit column's, and that column has room for every product. Four records and
pages of one or two give walks of up to four pages, with inserts above, within and below the
page being read and a purge between any two statements. Two instances give every race of two
migrations; they are interchangeable, and the run uses that symmetry.

**Fairness.** The relay's job fires every few seconds for as long as the service runs: weak
fairness of `Poll`. Publishing, deleting, saving and acknowledging can each fail any number
of times, and are assumed not to fail for ever: strong fairness. A stalled consumer's
channel is closed by the broker in the end: weak fairness of `ChannelLost` there. A consumer
that is free is handed the next message: weak fairness of `Receive`. Requests get no
fairness in the pipeline, since a client or a service may stop at any point. In
`ConfigStore` a request that has arrived goes on, unless it is rolled back, and PostgreSQL
breaks deadlocks.

Every property of a passing run is paired with a faulty variant of one definition (the
operators marked "Fault" in the modules) under which TLC finds it violated.

## 4. What is proved

`AuditPipelineProofs` proves with TLAPS, for any sets of calculations, correlation ids,
messages, relays and consumers and any bounds satisfying `CalcsAssumption` and
`BoundsAssumption` (attributes are functions of the right type, messages and calculations
are distinct, bounds are positive):

| Theorem | States |
|---|---|
| `Invariance` | `Spec => []IndInv` |
| `TypeCorrect`, `EventsAreNeverLost`, `LedgerIsConsistent`, `ConflictsAreAudited`, `EventsAreNotRejected` | the safety invariants of the runs |
| `SettledEventsAreRecorded` | the action property `SettledIsDone` |
| `PipelineImplementsLedger` | `Spec => Ledger!LedgerSpec` |

The argument. No event is lost because each place lets an event go only when the next has
it, and that is a statement about what the actors hold in hand, not about the places alone:

* `RelayInv`: what a relay holds are rows of committed calculations, and the row it is about
  to delete is already downstream. Without it `Delete` could break `NoEventLost`. It
  survives concurrent relays because "downstream" is never undone: `Downstream` is monotone
  over every step.
* `MessageInv`: messages and orphaned saves belong to committed calculations. Without it a
  save could put a rolled-back calculation on record.
* `HandlerInv`: the handler and the broker agree about the message in hand, and a handler
  that is about to acknowledge has its id on record. Without it `Acknowledge` could
  break `NoEventLost`, and `RejectMalformed` could dead-letter an event.

`Invariance` has one lemma per action, and the refinement maps `committed` to the
calculations whose transaction has committed and `ledger` to `records`.

The other components are proved in the same way, each for any instance that satisfies the
assumptions of its module:

| Module | Theorem | States |
|---|---|---|
| `ConfigStoreProofs` | `TypeCorrect`, `ReadsAreCommitted` | `TypeOK`, `ReadFromCommitted` |
| | `RequestsAreAtomic` | if `CreatorsDiffer`: `Spec => AC!ConfigSpec` |
| `BootstrapProofs` | `SeedingIsAtomic`, `MappingsResolve`, `OneRateUnlessOverlap` | `SeededTogether`, `MappingResolves`, `SingletonUnlessOverlap` |
| | `CalibrationIsKept` | the action property `CalibrationSurvives` |
| `RiskScoreProofs` | `BootstrapTyped`, `PricesAreOwed`, `GuessesAreExplained` | `TypeOK`, `PricedByItsCluster`, `NeutralOnlyIfUnfinished` |
| `RateFormulaProofs` | `FormulaTyped`, `RecordsReproduce`, `OnlyTinyIsRefused`, `RatesArePricedByBand` | `TypeOK`, `RecordIsReproducible`, `RefusedIsTiny`, `PricedByBand` |
| `AuditServiceProofs` | `TypeCorrect`, `RecordsAreAppendOnly`, `OnlyWholeSchemasServe`, `TablesAreGranted`, `TotalsAreFull` | `TypeOK`, `AppendOnly`, `ServesWholeSchema`, `UsableUnlessInterrupted`, `PageAsFullAsTotal` |
| | `WalksSkipNothing`, `QuietWalksAreExact` | if `TimesDiffer`: `NothingSkipped`, `QuietWalkIsExact` |

*Configuration.* `ReaderInv` keeps, for every running reader, the view of its scope that is
committed now among what it has seen, so that whatever a SELECT returns has been seen.
`WriterInv` says that a request in its transaction is still allowed to do what it asked for
and that `todo` and `wrote` together are the rows the abstract operation would set now. Both
survive other commits because rows of the base rate and of districts neither come nor go, and
a tier only comes. `CreatorsDiffer`, no two writers create one tier, is needed there and only
there: without it the refinement is false, as `config_created_once` shows. The refinement
maps `applied` to the requests that have committed, and to a base rate that needed no UPDATE
from the moment the session found it so.

*Bootstrap.* `DistrictsInv` says that at most one run is past the tiers' lock, that it holds a
multiplier for every district of its file that has none, and that after `SeedDistricts` it
holds no other; so its commit replaces nothing and leaves no mapping without a district.
`RatesInv` says that a run whose row was not there when it looked has its own, and that
whoever could see another row too was open at the same time. Neither says anything of the
file of scores: those theorems hold whatever the script writes.

*Risk scores.* `ScoresInv` adds what the file and the tables have to do with each other.
`ScriptInv`: the script computes and writes only for a file of places it accepts; every row
of the file of scores has what its borough is owed under such a file (`Due`), the neutral
multiplier that a cut may leave of it, or nothing a seeder can use; and unless a writer has
begun and not ended, all rows are there and are what one edition owes (`Whole`). `PricesInv`:
what a run is going to insert, and what is in the table, is owed, neutral for one of the two
reasons, or an administrator's. Without the first the second is not kept by `ReadScores`;
without the second, which speaks of uncommitted values, neither property is kept by `Commit`.
That `Whole` survives every step that is not a write is what a late refusal would break.
That the script computes what is owed is arithmetic of finite sets: a file that is
accepted has as many boroughs as there are, so it has all of them, its clusters are those of
the whole country (`AcceptedIsWhole`), and percentages of a cluster are the odds of its two
parts (`ThresholdsAreOdds`). `GeographyAssumption` says that there are 383 boroughs, which is
what the script itself requires, and that no borough is eastern in one consistent file and
western in another: the files are editions of one list of places, and a borough lies in one
state. Of k-means the theorems need only that it labels one file in one way, which
`random_state` gives (ADR-006, line 104); two editions may be clustered in any two ways.

*Rate formula.* `FormulaInv` keeps that an event carries what its rate was made of and a row
what came of its event; what has been configured since is not in it, and so cannot matter.
The rest is arithmetic. `ColumnsAssumption` says of the widths what the argument uses: both
services keep six places, the product of the first three factors has at most 22 digits of the
context's 28, the product of four recorded factors has at most nine too many, and twice the
largest rate fits the audit table. The widths of the code, 10^10 - 1 units of 10^-6 for a factor
and 10^20 - 1 for a record, satisfy it. So only the last product is rounded, by at most half of
what it drops (`Dropped`), the row is rounded once more, and the factors lose nothing on
their way. TLC's
instance shrinks the widths, because TLC's integers have 32 bits; the theorems are about the
real ones too.

*Audit service.* `SchemaInv` is a case analysis: the version is none or the latest, and an
instance that migrates does so on a database that is up for good. The walk is about ranks. The
rank of a record is the number of records of the range that are not older (`Rank`), and if no
two were calculated at the same time it is the record's place in the one order there is
(`PlaceIsRank`, `OrderIsUnique`). `WalkInv`: a record that was there when the walk began has
been given, or its rank is beyond the pages given so far. An insert can only raise ranks, a
purge takes the record of the highest rank, and a page that is not full ends with the highest
rank; so when the walk ends nothing is left. Where a walk began with a later page than the
first the property says nothing, and neither does the invariant. `TimesDiffer` cannot be
dropped: see the next section. `PageAsFullAsTotal` needs no such assumption.

The invariants proved (`IndInv`, `ReadsInv`, `WriterInv`, `SeederInv`, `ScoresInv`,
`FormulaInv`, `SchemaInv`, `QueryInv`) have also been checked by TLC on the instances of section 3.

## 5. Only model-checked, or not modelled

* Liveness (`CommittedIsRecorded`, `ComesToRest`, `EveryRequestEnds`) is checked by TLC only: it
  rests on fairness, and so on `ENABLED`.
* The runs that find a promise violated are TLC's: a counterexample is not a theorem.
* Correlation ids are a constant function. Whether they are unique is the gateway's doing;
  the modules assume nothing about it.
* `Unstorable` stands for the arithmetic that makes a rate round to zero; `RateFormula`
  shows when that is.
* The configuration factors of one `RateFormula` calculation are read at one moment; reads at
  several moments are in `ConfigStore`.
* `AuditQuery` is checked for records that differ in `calculated_at`. For records that tie,
  `ORDER BY calculated_at` leaves the order open from one statement to the next, so a
  page walk may then miss one; nothing in the code prevents it. Two pages may share a
  record when a newer one is inserted between them.
* `Seeder`: an administrator's change is one step, and the batches of 500 rows of one table
  are one statement, since nothing can be seen between them.
* Several faults of an INSERT (serialisation, a race on the primary key, which is not the
  conflict target) all end as `SaveRaised`.
* `RiskModel`: k-means itself is external, and the labelling of a file may be any of a set.
  Centroids are left out, since only the labelling depends on them.
* `Seeder`: a run reads the file of scores at one moment. The code reads it in blocks, so that
  a script that writes in between could in principle give it the beginning of one file and the
  middle of another.
* `ConfigStore`: the number of districts a page of them is given with is left out; no
  request changes it.
* `AuditService`: migrations of the rate database run before anything that uses it and create
  tables only, and are left out, as are passwords and `downgrade`.
* Not modelled: the gateway (an external program, of which there is only configuration: the
  modules take correlation ids as shared or not, and `kong.yml:10-11` says that a client's
  own header is overwritten, which is the plugin's to decide), logging, the mapping of errors
  to status codes, health endpoints (they answer as soon as the process serves).

## 6. Plan

1. `RateOutbox`, `Broker`, `AuditConsumer`, `AuditPipeline` against `AuditLedger`; invariants,
   refinement, liveness; proofs of all safety. *Done.*
2. `ConfigStore` against `AtomicConfig`, with every reader; proofs of all safety. *Done.*
3. `Seeder` and `RiskModel` in `Bootstrap`; `AuditQuery` in `AuditService`; proofs of all
   safety. *Done.*
4. `RateFormula`; proofs of all its properties. *Done.*
5. Next: a safety property behind `EveryRequestEnds`, that whoever waits for a row waits for a
   writer that will end, or for one of a ring that `DeadlockAbort` breaks.
6. Larger pipelines: two relays and two consumers with fairness.
