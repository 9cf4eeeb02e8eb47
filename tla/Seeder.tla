------------------------------- MODULE Seeder -------------------------------
(***************************************************************************)
(* The seeder fills the configuration tables from a file of places and a   *)
(* file of risk scores, in one READ COMMITTED transaction per run.  It is  *)
(* run again to load new files, by hand and by the build, possibly by two  *)
(* people at once, while administrators change the configuration.          *)
(*                                                                         *)
(* The variables base, tiers, districts and mapping are what is committed. *)
(* A run's uncommitted writes follow from how far it has got; they are     *)
(* visible to no one, and whoever writes one of those rows waits.  Every   *)
(* run writes the same tiers, so that only one at a time gets past them:   *)
(* what it writes after them needs no further lock.                        *)
(***************************************************************************)
EXTENDS RiskModel

CONSTANTS
  Runs,         \* the runs of the seeder
  Tiers,        \* the credit tiers
  PostalCodes,
  Values,       \* base rates and multipliers, in hundredths
  Absent,       \* no such row
  SeedRate,     \* _BASE_RATE
  SeedTier,     \* the multiplier of each tier
  Places,       \* for each run, the rows of its file of places
  WithScores,   \* the runs that are given the file of scores
  AdminValues,  \* what administrators set
  Calibrated    \* bound: the districts they set it for

\* The multiplier of a district without a score.
Neutral == 100

ASSUME SeederAssumption ==
  /\ Absent \notin Values \cup Districts
  /\ {90, 105, 120} \subseteq Values /\ Unusable \notin Values
  /\ SeedRate \in Values /\ SeedTier \in [Tiers -> Values]
  /\ Places \in [Runs -> Seq([code : PostalCodes, district : Districts])]
  /\ WithScores \subseteq Runs
  /\ {Neutral} \cup AdminValues \subseteq Values /\ Calibrated \subseteq Districts

VARIABLES
  base,       \* base[r]: the row of system_rate_configs that r inserted
  tiers,      \* credit_tier_configs
  districts,  \* district_risk_configs
  mapping,    \* postal_code_mappings
  stage,      \* the last thing a run has done
  row,        \* the row of system_rate_configs a run has found, or Absent
  added,      \* the multipliers a run will insert, and then has inserted
  met         \* history: the runs that were open at the same time

tables == <<base, tiers, districts, mapping>>
vars == <<base, tiers, districts, mapping, stage, row, added, met, scores>>

Stages == <<"selected", "rate", "tiers", "read", "districts", "mappings">>
Open(r) == stage[r] \in {Stages[i] : i \in 1..6}
Past(r, s) == \E i, j \in 1..6 : Stages[i] = s /\ Stages[j] = stage[r] /\ i <= j

Nothing == [d \in Districts |-> Absent]

SeederTypeOK ==
  /\ base \in [Runs -> Values \cup {Absent}]
  /\ tiers \in [Tiers -> Values \cup {Absent}]
  /\ districts \in [Districts -> Values \cup {Absent}]
  /\ mapping \in [PostalCodes -> Districts \cup {Absent}]
  /\ stage \in [Runs -> {"idle", "committed", "failed"} \cup {Stages[i] : i \in 1..6}]
  /\ row \in [Runs -> Runs \cup {Absent}]
  /\ added \in [Runs -> [Districts -> Values \cup {Absent}]]
  /\ \A r \in Runs : added[r] # Nothing => Past(r, "read")
  /\ met \in SUBSET SUBSET Runs

SeederInit ==
  /\ base = [r \in Runs |-> Absent]
  /\ tiers = [t \in Tiers |-> Absent]
  /\ districts = Nothing
  /\ mapping = [c \in PostalCodes |-> Absent]
  /\ stage = [r \in Runs |-> "idle"]
  /\ row = [r \in Runs |-> Absent]
  /\ added = [r \in Runs |-> Nothing]
  /\ met = {}

-----------------------------------------------------------------------------
(* The files.                                                              *)

RowsOf(r, c) == {i \in DOMAIN Places[r] : Places[r][i].code = c}

LastPlace(r, c) == Places[r][CHOOSE i \in RowsOf(r, c) : \A j \in RowsOf(r, c) : j <= i]

\* Fault: the wrong column.
LastCode(r, c) == LastPlace(r, c).code

\* A postal code stands in several rows; the last one wins.
LastDistrict(r, c) == LastPlace(r, c).district

\* Fault: the districts of the first row of each postal code.
DistrictsOfFirstRows(r) ==
  {Places[r][i].district : i \in {i \in DOMAIN Places[r] :
     \A j \in 1..(i - 1) : Places[r][j].code # Places[r][i].code}}

DistrictsIn(r) == {Places[r][i].district : i \in DOMAIN Places[r]}

ScoreOf(r, d) == IF r \in WithScores /\ d \in DOMAIN scores THEN scores[d] ELSE Neutral

\* There is a file, and the seeder can use all of it that it needs.
ScoresUsable(r) ==
  r \in WithScores =>
    scores # NoFile /\ \A d \in DistrictsIn(r) : ScoreOf(r, d) \in Values

-----------------------------------------------------------------------------
(* Locks: what the other open runs have written.                           *)

Others(r) == {o \in Runs \ {r} : Open(o)}
RateLocked(r, w) == \E o \in Others(r) : Past(o, "rate") /\ row[o] = w
TiersLocked(r) == \E o \in Others(r) : Past(o, "tiers")

Reach(r, s) == stage' = [stage EXCEPT ![r] = s]

-----------------------------------------------------------------------------
(* A run.                                                                  *)

\* Fault: a run inserts its row without looking.
OwnRow(r) == {r}

\* SELECT ... LIMIT 1: any row, or the run will insert its own.  No constraint
\* keeps the table to one row.
FoundRows(r) ==
  LET found == {w \in Runs : base[w] # Absent} IN IF found = {} THEN {r} ELSE found

SelectBaseRate(r) ==
  /\ stage[r] = "idle"
  /\ \E w \in FoundRows(r) : row' = [row EXCEPT ![r] = w]
  /\ met' = met \cup {{r, o} : o \in Others(r)}
  /\ Reach(r, "selected")
  /\ UNCHANGED <<tables, added, scores>>

\* Fault: the base rate is committed on its own.
SeedBaseRateCommitted(r) ==
  /\ stage[r] = "selected" /\ Reach(r, "rate")
  /\ base' = [base EXCEPT ![row[r]] = SeedRate]
  /\ UNCHANGED <<tiers, districts, mapping, row, added, met, scores>>

SeedBaseRate(r) ==
  /\ stage[r] = "selected" /\ ~RateLocked(r, row[r])
  /\ Reach(r, "rate")
  /\ UNCHANGED <<tables, row, added, met, scores>>

\* ON CONFLICT DO UPDATE: waits for whoever has written one of the tiers.
SeedCreditTiers(r) ==
  /\ stage[r] = "rate" /\ ~TiersLocked(r)
  /\ Reach(r, "tiers")
  /\ UNCHANGED <<tables, row, added, met, scores>>

\* The file of scores is read as it is at this moment.
ReadScores(r) ==
  /\ stage[r] = "tiers" /\ ScoresUsable(r)
  /\ added' = [added EXCEPT ![r] =
                 [d \in Districts |-> IF d \in DistrictsIn(r) THEN ScoreOf(r, d) ELSE Absent]]
  /\ Reach(r, "read")
  /\ UNCHANGED <<tables, row, met, scores>>

\* Fault: ON CONFLICT DO UPDATE.
Inserts(r) == UNCHANGED added

\* ON CONFLICT DO NOTHING: only the districts that are absent.
InsertsNew(r) ==
  added' = [added EXCEPT ![r] =
              [d \in Districts |-> IF districts[d] = Absent THEN @[d] ELSE Absent]]

SeedDistricts(r) ==
  /\ stage[r] = "read"
  /\ InsertsNew(r)
  /\ Reach(r, "districts")
  /\ UNCHANGED <<tables, row, met, scores>>

SeedMappings(r) ==
  /\ stage[r] = "districts"
  /\ Reach(r, "mappings")
  /\ UNCHANGED <<tables, row, added, met, scores>>

Commit(r) ==
  /\ stage[r] = "mappings"
  /\ base' = [base EXCEPT ![row[r]] = SeedRate]
  /\ tiers' = SeedTier
  /\ districts' = [d \in Districts |-> IF added[r][d] # Absent THEN added[r][d] ELSE districts[d]]
  /\ mapping' = [c \in PostalCodes |->
                   IF RowsOf(r, c) = {} THEN mapping[c] ELSE LastDistrict(r, c)]
  /\ Reach(r, "committed")
  /\ added' = [added EXCEPT ![r] = Nothing]
  /\ UNCHANGED <<row, met, scores>>

\* An error in a file, a lost connection or the end of the process: rollback.
Fail(r) ==
  /\ Open(r)
  /\ Reach(r, "failed")
  /\ added' = [added EXCEPT ![r] = Nothing]
  /\ UNCHANGED <<tables, row, met, scores>>

-----------------------------------------------------------------------------
(* The configuration API, as ConfigStore refines it: one change at a time, *)
(* to rows no run holds.                                                   *)

AdminRate(v) ==
  /\ \E w \in Runs :
       /\ base[w] # Absent
       /\ ~\E r \in Runs : Past(r, "rate") /\ row[r] = w
       /\ base' = [base EXCEPT ![w] = v]
  /\ UNCHANGED <<tiers, districts, mapping, stage, row, added, met, scores>>

\* A tier is created or updated.
AdminTier(v) ==
  /\ ~\E r \in Runs : Past(r, "tiers")
  /\ \E t \in Tiers : tiers' = [tiers EXCEPT ![t] = v]
  /\ UNCHANGED <<base, districts, mapping, stage, row, added, met, scores>>

AdminDistrict(v) ==
  /\ \E d \in Calibrated : districts[d] # Absent /\ districts' = [districts EXCEPT ![d] = v]
  /\ UNCHANGED <<base, tiers, mapping, stage, row, added, met, scores>>

SeederNext ==
  \/ \E r \in Runs :
       \/ SelectBaseRate(r) \/ SeedBaseRate(r) \/ SeedCreditTiers(r)
       \/ ReadScores(r) \/ SeedDistricts(r) \/ SeedMappings(r) \/ Commit(r) \/ Fail(r)
  \/ \E v \in AdminValues : AdminRate(v) \/ AdminTier(v) \/ AdminDistrict(v)

-----------------------------------------------------------------------------
(* Properties.                                                             *)

\* A base rate is there only together with every tier and all the postal codes
\* of some run's file: a run that fails at any point leaves nothing half-seeded
\* for a calculation to use.
SeededTogether ==
  (\E w \in Runs : base[w] # Absent) =>
    /\ \A t \in Tiers : tiers[t] # Absent
    /\ \E r \in Runs : \A c \in PostalCodes : RowsOf(r, c) # {} => mapping[c] # Absent

\* Every mapped postal code leads to a district that has a multiplier, also
\* after runs with other files that overlapped or failed: there is no foreign
\* key, and a calculation for a code that led nowhere would be refused.
MappingResolves ==
  \A c \in PostalCodes : mapping[c] # Absent => districts[mapping[c]] # Absent

\* A run gives multipliers to districts that had none, and never replaces one
\* an administrator may have calibrated, whenever the two meet.
CalibrationSurvives ==
  [][stage' # stage =>
       \A d \in Districts : districts[d] # Absent => districts'[d] = districts[d]]_vars

\* Two rows of base rates are there only if the runs that inserted them were
\* open at the same time: runs one after the other, whatever happens between
\* them, find and update the one row.
SingletonUnlessOverlap ==
  \A r, w \in Runs : base[r] # Absent /\ base[w] # Absent /\ r # w => {r, w} \in met

=============================================================================
