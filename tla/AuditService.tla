---------------------------- MODULE AuditService ----------------------------
(***************************************************************************)
(* The audit service from the first start of its database on: what the     *)
(* container's script grants, the migrations that create the table and its *)
(* trigger, instances that migrate and then serve, and the statements they *)
(* and the operator can issue at each moment.                              *)
(*                                                                         *)
(* External: the container runs its script only on an empty data directory *)
(* and accepts no TCP connection until it has run; alembic runs all        *)
(* missing migrations in one transaction; instances are started again by   *)
(* an operator, as nothing else does.                                      *)
(***************************************************************************)
EXTENDS AuditQuery

CONSTANT Instances  \* of the service

VARIABLES
  database,  \* "new", "initialising", "up" or "down"
  script,    \* how many statements of its script are committed
  version,   \* the last migration that is committed
  granted,   \* the service's role has SELECT and INSERT on the table
  updated,   \* history: the roles that had an UPDATE accepted
  instance,  \* what an instance is at
  saw        \* the version it found when it started to migrate

databaseVars == <<database, script>>
schemaVars == <<version, granted>>
instanceVars == <<instance, saw>>
vars == <<queryVars, databaseVars, schemaVars, updated, instanceVars>>

Roles == {"owner", "service"}
Latest == 2          \* 0001 creates the table, 0002 the trigger
Statements == 4    \* of the script; the last one sets the default privileges

TypeOK ==
  /\ QueryTypeOK
  /\ database \in {"new", "initialising", "up", "down"}
  /\ script \in 0..Statements
  /\ version \in 0..Latest
  /\ granted \in BOOLEAN
  /\ updated \subseteq Roles
  /\ instance \in [Instances -> {"down", "migrating", "migrated", "serving"}]
  /\ saw \in [Instances -> 0..Latest]

Init ==
  /\ QueryInit
  /\ database = "new"
  /\ script = 0
  /\ version = 0
  /\ granted = FALSE
  /\ updated = {}
  /\ instance = [i \in Instances |-> "down"]
  /\ saw = [i \in Instances |-> 0]

-----------------------------------------------------------------------------
(* The database.                                                           *)

HasTable == version >= 1
HasTrigger == version >= 2

StartDatabase ==
  /\ database \in {"new", "down"}
  /\ database' = IF database = "new" THEN "initialising" ELSE "up"
  /\ UNCHANGED <<queryVars, script, schemaVars, updated, instanceVars>>

\* CREATE USER, GRANT CONNECT, GRANT USAGE, ALTER DEFAULT PRIVILEGES: psql
\* commits each.
RunScript ==
  /\ database = "initialising"
  /\ IF script < Statements
       THEN script' = script + 1 /\ UNCHANGED database
       ELSE database' = "up" /\ UNCHANGED script
  /\ UNCHANGED <<queryVars, schemaVars, updated, instanceVars>>

\* Open transactions and requests fail.
StopDatabase ==
  /\ database \in {"initialising", "up"}
  /\ database' = "down"
  /\ instance' = [i \in Instances |-> IF instance[i] = "migrating" THEN "down" ELSE instance[i]]
  /\ saw' = [i \in Instances |-> IF instance[i] = "migrating" THEN 0 ELSE saw[i]]
  /\ IF stage \in {"asked", "counted"} THEN RequestFails ELSE UNCHANGED queryVars
  /\ UNCHANGED <<script, schemaVars, updated>>

\* The permissions of a role on the table.
May(role, operation) ==
  role = "owner" \/ (role = "service" /\ granted /\ operation \in {"SELECT", "INSERT"})

\* Somebody issues an UPDATE.
Update(role) ==
  /\ database = "up"
  /\ HasTable
  /\ updated' = IF May(role, "UPDATE") /\ ~HasTrigger THEN updated \cup {role} ELSE updated
  /\ UNCHANGED <<queryVars, databaseVars, schemaVars, instanceVars>>

-----------------------------------------------------------------------------
(* An instance: alembic upgrade head && uvicorn.                           *)

Becomes(i, state, found) ==
  /\ instance' = [instance EXCEPT ![i] = state]
  /\ saw' = [saw EXCEPT ![i] = found]

\* The instance goes on without touching the database.
Moves(i, from, to, found) ==
  /\ instance[i] = from
  /\ Becomes(i, to, found)
  /\ UNCHANGED <<queryVars, databaseVars, schemaVars, updated>>

\* Fault: the database can be reached as soon as pg_isready says so.
ReachableEarly == database \in {"initialising", "up"}

Reachable == database = "up"

StartInstance(i) == Reachable /\ Moves(i, "down", "migrating", version)

\* Fault: a transaction for each migration.
MigrateOneByOne(i) ==
  /\ instance[i] = "migrating" /\ saw[i] \in {Latest, version}
  /\ version' = IF saw[i] = Latest THEN Latest ELSE version + 1
  /\ granted' = IF saw[i] = 0 THEN script = Statements ELSE granted
  /\ Becomes(i, IF version' = Latest THEN "migrated" ELSE "migrating", version' % Latest)
  /\ UNCHANGED <<queryVars, databaseVars, updated>>

\* Nothing to do, or everything.  The service's role gets its permissions when
\* the table is created, from the default privileges of that moment.
Migrate(i) ==
  /\ instance[i] = "migrating"
  /\ saw[i] \in {Latest, version}
  /\ version' = Latest
  /\ granted' = IF saw[i] = 0 THEN script = Statements ELSE granted
  /\ Becomes(i, "migrated", 0)
  /\ UNCHANGED <<queryVars, databaseVars, updated>>

\* Fault: uvicorn starts whether or not alembic has succeeded.
MigrationFailsServing(i) == Moves(i, "migrating", "migrated", 0)

\* Another instance has created the tables in the meantime, or the connection
\* is lost: uvicorn is not started.
MigrationFails(i) == Moves(i, "migrating", "down", 0)

\* lifespan: the consumer has connected to RabbitMQ and found its queue.  The
\* engine connects to the database only when it is used.
Serve(i) == Moves(i, "migrated", "serving", 0)

\* RabbitMQ or its queue is not there, or the process ends, and with it the
\* request it serves.
StopInstance(i) ==
  /\ instance[i] \in {"migrated", "serving"}
  /\ Becomes(i, "down", 0)
  /\ \/ /\ stage \in {"asked", "counted"} /\ instance[i] = "serving"
        /\ RequestFails
     \/ /\ stage \in {"asked", "counted"} =>
             \E j \in Instances \ {i} : instance[j] = "serving"
        /\ UNCHANGED queryVars
  /\ UNCHANGED <<databaseVars, schemaVars, updated>>

-----------------------------------------------------------------------------
(* The statements on the table.                                            *)

\* An instance is there, the database answers, and the service's role may.
Works(operation) ==
  /\ \E i \in Instances : instance[i] = "serving"
  /\ database = "up"
  /\ HasTable
  /\ May("service", operation)

Record(k) == Works("INSERT") /\ Insert(k)

Query ==
  \/ \E q \in Queries : (\E i \in Instances : instance[i] = "serving") /\ Ask(q)
  \/ (Works("SELECT") /\ (Count \/ Fetch))
  \/ RequestFails
  \/ AskNext \/ AskAgain

Retain == database = "up" /\ HasTable /\ May("owner", "DELETE") /\ Purge

Next ==
  \/ StartDatabase \/ RunScript \/ StopDatabase
  \/ \E role \in Roles : Update(role)
  \/ \E i \in Instances :
       \/ StartInstance(i) \/ Migrate(i) \/ MigrationFails(i)
       \/ Serve(i) \/ StopInstance(i)
  \/ /\ (\E k \in Records : Record(k)) \/ Query \/ Retain
     /\ UNCHANGED <<databaseVars, schemaVars, updated, instanceVars>>

Spec == Init /\ [][Next]_vars

-----------------------------------------------------------------------------
(* Properties.                                                             *)

\* No UPDATE of the table is accepted from anyone, not even of no rows: there
\* is no moment, also while instances migrate at once or are stopped, at which
\* the table is there without its trigger.
AppendOnly == updated = {}

\* An instance serves, and so records, only with the whole schema, however it
\* and the others were stopped and started and whoever migrated first.
ServesWholeSchema == \A i \in Instances : instance[i] = "serving" => version = Latest

\* A table that was created is of use to the service, unless the database's
\* container was stopped before its script had ended, which is then never run
\* again.
UsableUnlessInterrupted == HasTable /\ script = Statements => granted

=============================================================================
