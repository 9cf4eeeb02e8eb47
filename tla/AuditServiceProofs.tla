------------------------- MODULE AuditServiceProofs -------------------------
(***************************************************************************)
(* Theorems about AuditService, for any records, ranges, page sizes and    *)
(* number of instances.                                                    *)
(***************************************************************************)
EXTENDS AuditService, AuditQueryProofs

-----------------------------------------------------------------------------
(* The schema.  An instance that migrates does so on a database that is up *)
(* for good, and what it saw is what was there or less; so the table and   *)
(* its trigger are there together or not at all.                           *)

SchemaInv ==
  /\ database \in {"new", "initialising", "up", "down"}
  /\ script \in 0..Statements
  /\ version \in {0, Latest}
  /\ granted \in BOOLEAN
  /\ updated = {}
  /\ instance \in [Instances -> {"down", "migrating", "migrated", "serving"}]
  /\ saw \in [Instances -> {0, Latest}]
  /\ database \in {"new", "initialising"} => version = 0
  /\ version = Latest /\ script = Statements => granted
  /\ \A i \in Instances :
       /\ instance[i] = "migrating" => database = "up"
       /\ instance[i] \in {"migrated", "serving"} => version = Latest
       /\ saw[i] = Latest => version = Latest

\* The service starts with no schema.
LEMMA SchemaInit == Init => SchemaInv
<1> SUFFICES ASSUME Init PROVE SchemaInv
  OBVIOUS
<1>1. /\ database = "new" /\ script = 0 /\ version = 0 /\ updated = {}
      /\ instance = [i \in Instances |-> "down"]
      /\ saw = [i \in Instances |-> 0]
  BY DEF Init
<1>2. granted \in BOOLEAN
  BY DEF Init
<1> QED BY <1>1, <1>2 DEF SchemaInv, Latest, Statements

\* Statements on the table leave the schema alone.
LEMMA SchemaUntouched ==
  ASSUME SchemaInv, UNCHANGED <<databaseVars, schemaVars, updated, instanceVars>>
  PROVE  SchemaInv'
  BY DEF SchemaInv, databaseVars, schemaVars, instanceVars

\* No step tears the table from its trigger, or a serving instance from its schema.
LEMMA SchemaStep ==
  ASSUME SchemaInv, [Next]_vars
  PROVE  SchemaInv'
<1> USE DEF Latest, Statements
<1>1. CASE StartDatabase
  BY <1>1 DEF StartDatabase, SchemaInv, schemaVars, instanceVars
<1>2. CASE RunScript
  BY <1>2 DEF RunScript, SchemaInv, schemaVars, instanceVars
<1>3. CASE StopDatabase
  <2>1. /\ database' = "down" /\ UNCHANGED <<script, version, granted, updated>>
        /\ \A i \in Instances :
             /\ instance'[i] # "migrating"
             /\ instance'[i] = "down" \/ instance'[i] = instance[i]
             /\ saw'[i] = 0 \/ saw'[i] = saw[i]
        /\ instance' \in [Instances -> {"down", "migrating", "migrated", "serving"}]
        /\ saw' \in [Instances -> {0, Latest}]
    BY <1>3 DEF StopDatabase, SchemaInv, schemaVars
  <2>2. database \in {"initialising", "up"}
    BY <1>3 DEF StopDatabase
  <2> QED BY <2>1, <2>2 DEF SchemaInv
<1>4. ASSUME NEW role \in Roles, Update(role)
      PROVE  SchemaInv'
  <2>1. updated' = {}
    BY <1>4 DEF Update, Roles, May, HasTable, HasTrigger, SchemaInv
  <2> QED
    BY <1>4, <2>1 DEF Update, SchemaInv, databaseVars, schemaVars, instanceVars
<1>5. ASSUME NEW i \in Instances, StartInstance(i)
      PROVE  SchemaInv'
  BY <1>5 DEF StartInstance, Moves, Reachable, Becomes, SchemaInv, databaseVars, schemaVars
<1>6. ASSUME NEW i \in Instances, Migrate(i)
      PROVE  SchemaInv'
  <2>1. /\ database = "up" /\ UNCHANGED <<database, script, updated>>
        /\ version' = Latest
        /\ instance' = [instance EXCEPT ![i] = "migrated"]
        /\ saw' = [saw EXCEPT ![i] = 0]
    BY <1>6 DEF Migrate, Becomes, SchemaInv, databaseVars
  <2>2. granted' \in BOOLEAN /\ (script = Statements => granted')
    <3>1. CASE saw[i] = 0
      BY <1>6, <3>1 DEF Migrate, SchemaInv
    <3>2. CASE saw[i] = Latest
      BY <1>6, <3>2 DEF Migrate, SchemaInv
    <3> QED BY <3>1, <3>2 DEF SchemaInv
  <2> QED BY <2>1, <2>2 DEF SchemaInv
<1>7. ASSUME NEW i \in Instances, MigrationFails(i)
      PROVE  SchemaInv'
  BY <1>7 DEF MigrationFails, Moves, Becomes, SchemaInv, databaseVars, schemaVars
<1>8. ASSUME NEW i \in Instances, Serve(i)
      PROVE  SchemaInv'
  BY <1>8 DEF Serve, Moves, Becomes, SchemaInv, databaseVars, schemaVars
<1>9. ASSUME NEW i \in Instances, StopInstance(i)
      PROVE  SchemaInv'
  BY <1>9 DEF StopInstance, Becomes, SchemaInv, databaseVars, schemaVars
<1>10. CASE UNCHANGED <<databaseVars, schemaVars, updated, instanceVars>>
  BY <1>10, SchemaUntouched
<1>11. CASE UNCHANGED vars
  BY <1>11, SchemaUntouched DEF vars
<1> QED
  BY <1>1, <1>2, <1>3, <1>4, <1>5, <1>6, <1>7, <1>8, <1>9, <1>10, <1>11 DEF Next

\* The schema is all there or not there at all, whoever migrates or is stopped.
THEOREM SchemaInvariance == Spec => []SchemaInv
  BY SchemaInit, SchemaStep, PTL DEF Spec

\* No UPDATE of calculation_records is ever accepted.
THEOREM RecordsAreAppendOnly == Spec => []AppendOnly
<1>1. SchemaInv => AppendOnly
  BY DEF SchemaInv, AppendOnly
<1> QED BY <1>1, SchemaInvariance, PTL

\* No instance serves with half a schema.
THEOREM OnlyWholeSchemasServe == Spec => []ServesWholeSchema
<1>1. SchemaInv => ServesWholeSchema
  BY DEF SchemaInv, ServesWholeSchema
<1> QED BY <1>1, SchemaInvariance, PTL

\* The service may use every table it finds, if the script has ended.
THEOREM TablesAreGranted == Spec => []UsableUnlessInterrupted
<1>1. SchemaInv => UsableUnlessInterrupted
  BY DEF SchemaInv, UsableUnlessInterrupted, HasTable
<1> QED BY <1>1, SchemaInvariance, PTL

-----------------------------------------------------------------------------
(* The queries.  AuditQueryProofs says what the steps of a walk keep.      *)

\* Every step of the service keeps what is known of a walk.
LEMMA QueryStep ==
  ASSUME QueryInv, [Next]_vars
  PROVE  QueryInv'
<1>1. RequestInv /\ (TimesDiffer => WalkInv /\ QuietInv)
  BY DEF QueryInv
<1>2. CASE \E k \in Records : Insert(k)
  BY <1>1, <1>2, InsertKeepsRequest, InsertKeepsWalk DEF QueryInv
<1>3. CASE Purge
  BY <1>1, <1>3, PurgeKeepsRequest, PurgeKeepsWalk DEF QueryInv
<1>4. CASE \E q \in Queries : Ask(q)
  BY <1>1, <1>4, AskKeepsRequest, AskKeepsWalk DEF QueryInv
<1>5. CASE Count
  BY <1>1, <1>5, CountKeepsRequest, TurnKeepsWalk DEF QueryInv
<1>6. CASE Fetch
  BY <1>1, <1>6, FetchKeepsRequest, FetchKeepsWalk DEF QueryInv
<1>7. CASE RequestFails \/ AskNext \/ AskAgain
  BY <1>1, <1>7, TurnKeepsRequest, TurnKeepsWalk DEF QueryInv
<1>8. CASE UNCHANGED queryVars
  BY <1>8, QueryUntouched
<1>9. CASE StopDatabase
  BY <1>7, <1>8, <1>9 DEF StopDatabase
<1>10. CASE \E i \in Instances : StopInstance(i)
  BY <1>7, <1>8, <1>10 DEF StopInstance
<1>11. CASE \/ StartDatabase \/ RunScript
            \/ \E role \in Roles : Update(role)
            \/ \E i \in Instances :
                 StartInstance(i) \/ Migrate(i) \/ MigrationFails(i) \/ Serve(i)
  BY <1>8, <1>11 DEF StartDatabase, RunScript, Update, StartInstance, Moves, Migrate,
                     MigrationFails, Serve
<1>12. CASE (\E k \in Records : Record(k)) \/ Query \/ Retain
  BY <1>2, <1>3, <1>4, <1>5, <1>6, <1>7, <1>12 DEF Record, Query, Retain
<1>13. CASE UNCHANGED vars
  BY <1>8, <1>13 DEF vars
<1> QED BY <1>9, <1>10, <1>11, <1>12, <1>13 DEF Next

\* What is known of a walk holds for every interleaving with inserts, purges and failures.
THEOREM QueryInvariance == Spec => []QueryInv
<1>1. Init => QueryInv
  BY QueryInitially DEF Init
<1> QED BY <1>1, QueryStep, PTL DEF Spec

\* The variables have their types, also the ones of a walk.
THEOREM TypeCorrect == Spec => []TypeOK
<1>1. SchemaInv /\ QueryInv => TypeOK
  BY DEF SchemaInv, QueryInv, RequestInv, TypeOK, Roles, Latest, Statements
<1> QED BY <1>1, SchemaInvariance, QueryInvariance, PTL

\* A response counts no record that is neither there to be read nor purged,
\* for any ties in calculated_at.
THEOREM TotalsAreFull == Spec => []PageAsFullAsTotal
<1>1. QueryInv => PageAsFullAsTotal
  BY DEF QueryInv, RequestInv
<1> QED BY <1>1, QueryInvariance, PTL

\* No walk skips a record, if no two records were calculated at the same time.
THEOREM WalksSkipNothing ==
  ASSUME TimesDiffer
  PROVE  Spec => []NothingSkipped
<1>1. QueryInv => NothingSkipped
  BY TimesDiffer DEF QueryInv, WalkInv, NothingSkipped, Started, Done
<1> QED BY <1>1, QueryInvariance, PTL

\* A walk that nothing disturbs gives the range as one order of it, if no two
\* records were calculated at the same time.
THEOREM QuietWalksAreExact ==
  ASSUME TimesDiffer
  PROVE  Spec => []QuietWalkIsExact
<1>1. QueryInv => QuietWalkIsExact
  <2> SUFFICES ASSUME QueryInv, stage = "walked", Len(pages) = query.page,
                      InRange(table, query) = before, InRange(purged, query) = {}
               PROVE  \E order \in [1..Cardinality(before) -> before] :
                        /\ \A i \in 1..Len(pages), n \in 1..query.size :
                             n \in DOMAIN pages[i] <=> (i - 1) * query.size + n \in DOMAIN order
                        /\ \A i \in 1..Len(pages) : \A n \in DOMAIN pages[i] :
                             pages[i][n] = order[(i - 1) * query.size + n]
                        /\ \A i, j \in DOMAIN order :
                             i < j => CalculatedAt[order[i]] > CalculatedAt[order[j]]
    BY DEF QuietWalkIsExact
  <2>1. PICK order \in Orders(before) : \A i \in 1..Len(pages) : IsPart(i, order)
    BY TimesDiffer DEF QueryInv, QuietInv, Started, Done, Quiet, There
  <2>2. /\ order \in [1..Cardinality(before) -> before]
        /\ \A i, j \in DOMAIN order :
             i < j => order[i] # order[j] /\ CalculatedAt[order[i]] >= CalculatedAt[order[j]]
    BY <2>1 DEF Orders, Descending
  <2>3. \A k \in before : k \in Records /\ CalculatedAt[k] \in Nat
    BY TimesAreNumbers DEF QueryInv, RequestInv, QueryTypeOK, Requests
  <2>4. \A i, j \in DOMAIN order : i < j => CalculatedAt[order[i]] > CalculatedAt[order[j]]
    <3> SUFFICES ASSUME NEW i \in DOMAIN order, NEW j \in DOMAIN order, i < j
                 PROVE  CalculatedAt[order[i]] > CalculatedAt[order[j]]
      OBVIOUS
    <3>1. order[i] \in before /\ order[j] \in before
      BY <2>2
    <3>2. CalculatedAt[order[i]] # CalculatedAt[order[j]]
      BY <2>2, <2>3, <3>1 DEF TimesDiffer
    <3> QED BY <2>2, <2>3, <3>1, <3>2
  <2>5. /\ \A i \in 1..Len(pages), n \in 1..query.size :
             n \in DOMAIN pages[i] <=> (i - 1) * query.size + n \in DOMAIN order
        /\ \A i \in 1..Len(pages) : \A n \in DOMAIN pages[i] :
             pages[i][n] = order[(i - 1) * query.size + n]
    BY <2>1, Zenon DEF IsPart
  <2> QED BY <2>2, <2>4, <2>5, Zenon
<1> QED BY <1>1, QueryInvariance, PTL
=============================================================================
