-------------------------- MODULE BootstrapProofs --------------------------
(***************************************************************************)
(* Theorems about Bootstrap, for any number of runs of the seeder, any     *)
(* files and any configuration; whatever the script of the risk model      *)
(* does to the file of scores in the meantime.                             *)
(*                                                                         *)
(* The argument rests on the lock of the credit tiers: at most one run is  *)
(* past them, so that the districts it found absent stay absent until it   *)
(* ends.  Base rates are locked by nothing when there is no row yet, which *)
(* is why two runs that are open at once may each insert one.              *)
(***************************************************************************)
EXTENDS Bootstrap, WellFoundedInduction, TLAPS

-----------------------------------------------------------------------------
(* The stages of a run, and the rows of its file.                          *)

\* What the guards ask of the stage of a run.
LEMMA StagesReached ==
  ASSUME NEW r
  PROVE  /\ Open(r) <=> stage[r] \in {"selected", "rate", "tiers", "read", "districts", "mappings"}
         /\ Past(r, "rate") <=> stage[r] \in {"rate", "tiers", "read", "districts", "mappings"}
         /\ Past(r, "tiers") <=> stage[r] \in {"tiers", "read", "districts", "mappings"}
         /\ Past(r, "read") <=> stage[r] \in {"read", "districts", "mappings"}
<1>1. /\ Stages[1] = "selected" /\ Stages[2] = "rate" /\ Stages[3] = "tiers"
      /\ Stages[4] = "read" /\ Stages[5] = "districts" /\ Stages[6] = "mappings"
  BY DEF Stages
<1>2. \A i \in 1..6 : i = 1 \/ i = 2 \/ i = 3 \/ i = 4 \/ i = 5 \/ i = 6
  OBVIOUS
<1>3. Open(r) <=> stage[r] \in {"selected", "rate", "tiers", "read", "districts", "mappings"}
  BY <1>1, <1>2 DEF Open
<1>4. Past(r, "rate") <=> stage[r] \in {"rate", "tiers", "read", "districts", "mappings"}
  BY <1>1, <1>2 DEF Past
<1>5. Past(r, "tiers") <=> stage[r] \in {"tiers", "read", "districts", "mappings"}
  BY <1>1, <1>2 DEF Past
<1>6. Past(r, "read") <=> stage[r] \in {"read", "districts", "mappings"}
  BY <1>1, <1>2 DEF Past
<1> QED BY <1>3, <1>4, <1>5, <1>6

\* A postal code that stands in a file has a last row there.
LEMMA LastRow ==
  ASSUME NEW N \in Nat, NEW S \in SUBSET (1..N), S # {}
  PROVE  \E i \in S : \A j \in S : j <= i
<1> DEFINE T == {N - i : i \in S}
<1>1. T \subseteq Nat /\ T # {}
  <2>1. \A i \in S : i \in 1..N /\ N - i \in Nat
    OBVIOUS
  <2>2. PICK i \in S : TRUE
    OBVIOUS
  <2>3. N - i \in T
    OBVIOUS
  <2> QED BY <2>1, <2>3
<1>2. PICK x \in T : \A y \in T : ~(<<y, x>> \in OpToRel(<, Nat))
  BY <1>1, NatLessThanWellFounded, WFMin
<1>3. PICK i \in S : x = N - i
  BY <1>2
<1>4. ASSUME NEW j \in S PROVE j <= i
  <2>1. N - j \in T /\ N - j \in Nat /\ x \in Nat
    BY <1>1, <1>2
  <2>2. ~(N - j < x)
    BY <1>2, <2>1 DEF OpToRel
  <2> QED BY <1>3, <2>2
<1> QED BY <1>4

\* Every row of a file names a district.
LEMMA RowType ==
  ASSUME NEW r \in Runs, NEW i \in DOMAIN Places[r]
  PROVE  Places[r][i].district \in Districts
<1> DEFINE R == [code : PostalCodes, district : Districts]
<1>1. Places[r] \in Seq(R)
  BY SeederAssumption
<1> HIDE DEF R
<1>2. i \in 1..Len(Places[r])
  BY <1>1
<1>3. Places[r][i] \in R
  BY <1>1, <1>2
<1> QED BY <1>3 DEF R

\* Its district is one of the file's.
LEMMA LastDistrictType ==
  ASSUME NEW r \in Runs, NEW c \in PostalCodes, RowsOf(r, c) # {}
  PROVE  LastDistrict(r, c) \in DistrictsIn(r) /\ LastDistrict(r, c) \in Districts
<1>1. Places[r] \in Seq([code : PostalCodes, district : Districts])
  BY SeederAssumption
<1>2. RowsOf(r, c) \in SUBSET (1..Len(Places[r])) /\ Len(Places[r]) \in Nat
  BY <1>1 DEF RowsOf
<1>3. \E i \in RowsOf(r, c) : \A j \in RowsOf(r, c) : j <= i
  BY <1>2, LastRow
<1> DEFINE i == CHOOSE i \in RowsOf(r, c) : \A j \in RowsOf(r, c) : j <= i
<1>4. i \in RowsOf(r, c)
  BY <1>3
<1>5. i \in DOMAIN Places[r] /\ LastDistrict(r, c) = Places[r][i].district
  BY <1>4 DEF LastDistrict, LastPlace, RowsOf
<1> HIDE DEF i
<1>6. Places[r][i].district \in Districts
  BY <1>5, RowType
<1>7. Places[r][i].district \in DistrictsIn(r)
  BY <1>5 DEF DistrictsIn
<1> QED BY <1>5, <1>6, <1>7

-----------------------------------------------------------------------------
(* The inductive invariant.                                                *)

Held == {"read", "districts", "mappings"}

\* A run holds the multipliers of every district of its file that has none; once
\* it has looked, it holds no other.
DistrictsInv ==
  /\ \A r \in Runs : added[r] # Nothing => stage[r] \in Held
  /\ \A r \in Runs : stage[r] \in Held =>
       \A d \in DistrictsIn(r) : added[r][d] # Absent \/ districts[d] # Absent
  /\ \A r \in Runs : stage[r] \in {"districts", "mappings"} =>
       \A d \in Districts : added[r][d] # Absent => districts[d] = Absent
  /\ \A r, o \in Runs : Past(r, "tiers") /\ Past(o, "tiers") => r = o

\* The row of a run that was not there when it looked is its own, and whoever
\* inserts another one until it commits was open at the same time.
RatesInv ==
  /\ \A r \in Runs : base[r] # Absent => stage[r] = "committed"
  /\ \A r \in Runs : Open(r) => row[r] \in Runs /\ (base[row[r]] = Absent => row[r] = r)
  /\ \A r, o \in Runs : Open(r) /\ Open(o) /\ r # o => {r, o} \in met
  /\ \A r, w \in Runs : Open(r) /\ row[r] = r /\ base[w] # Absent /\ r # w => {r, w} \in met
  /\ SingletonUnlessOverlap

SeederInv ==
  /\ base \in [Runs -> Values \cup {Absent}]
  /\ tiers \in [Tiers -> Values \cup {Absent}]
  /\ districts \in [Districts -> Values \cup {Absent}]
  /\ mapping \in [PostalCodes -> Districts \cup {Absent}]
  /\ stage \in [Runs -> {"idle", "committed", "failed", "selected", "rate", "tiers", "read",
                         "districts", "mappings"}]
  /\ row \in [Runs -> Runs \cup {Absent}]
  /\ added \in [Runs -> [Districts -> Values \cup {Absent}]]
  /\ met \in SUBSET SUBSET Runs
  /\ DistrictsInv
  /\ RatesInv
  /\ SeededTogether
  /\ MappingResolves

\* Nothing is seeded, and no run is open.
LEMMA SeederInitially == Init => SeederInv
<1> SUFFICES ASSUME Init PROVE SeederInv
  OBVIOUS
<1> USE DEF SeederInit, Nothing
<1>1. \A r \in Runs : ~Open(r) /\ ~Past(r, "tiers")
  BY StagesReached DEF Init
<1>2. DistrictsInv
  BY <1>1 DEF Init, DistrictsInv, Held
<1>3. RatesInv
  BY <1>1 DEF Init, RatesInv, SingletonUnlessOverlap
<1>4. SeededTogether /\ MappingResolves
  BY DEF Init, SeededTogether, MappingResolves
<1> QED BY <1>2, <1>3, <1>4 DEF Init, SeederInv

\* One run has got on; the others are where they were.
LEMMA RunReaches ==
  ASSUME NEW r \in Runs, NEW s, DOMAIN stage = Runs, Reach(r, s)
  PROVE  /\ \A o \in Runs \ {r} :
              /\ stage'[o] = stage[o]
              /\ Open(o)' <=> Open(o)
              /\ Past(o, "tiers")' <=> Past(o, "tiers")
         /\ stage'[r] = s
         /\ Open(r)' <=> s \in {"selected", "rate", "tiers", "read", "districts", "mappings"}
         /\ Past(r, "tiers")' <=> s \in {"tiers", "read", "districts", "mappings"}
<1>1. stage' = [stage EXCEPT ![r] = s]
  BY DEF Reach
<1>2. stage'[r] = s /\ \A o \in Runs \ {r} : stage'[o] = stage[o]
  BY <1>1
<1>3. /\ Stages[1] = "selected" /\ Stages[2] = "rate" /\ Stages[3] = "tiers"
      /\ Stages[4] = "read" /\ Stages[5] = "districts" /\ Stages[6] = "mappings"
  BY DEF Stages
<1>4. \A i \in 1..6 : i = 1 \/ i = 2 \/ i = 3 \/ i = 4 \/ i = 5 \/ i = 6
  OBVIOUS
<1>5. Open(r)' <=> s \in {"selected", "rate", "tiers", "read", "districts", "mappings"}
  BY <1>2, <1>3, <1>4 DEF Open
<1>6. Past(r, "tiers")' <=> s \in {"tiers", "read", "districts", "mappings"}
  BY <1>2, <1>3, <1>4 DEF Past
<1>7. \A o \in Runs \ {r} : (Open(o)' <=> Open(o)) /\ (Past(o, "tiers")' <=> Past(o, "tiers"))
  BY <1>2 DEF Open, Past
<1> QED BY <1>2, <1>5, <1>6, <1>7

\* The script of the risk model writes nothing that the seeder keeps.
LEMMA SeederUntouched ==
  ASSUME SeederInv, UNCHANGED seederVars
  PROVE  SeederInv'
<1>1. UNCHANGED <<base, tiers, districts, mapping, stage, row, added, met>>
  BY DEF seederVars
<1>2. \A r : Open(r)' <=> Open(r)
  BY <1>1 DEF Open
<1>3. \A r : Past(r, "tiers")' <=> Past(r, "tiers")
  BY <1>1 DEF Past
<1>4. DistrictsInv'
  BY <1>1, <1>3 DEF SeederInv, DistrictsInv, DistrictsIn
<1>5. RatesInv'
  BY <1>1, <1>2 DEF SeederInv, RatesInv, SingletonUnlessOverlap
<1>6. SeededTogether' /\ MappingResolves'
  BY <1>1 DEF SeederInv, SeededTogether, MappingResolves, RowsOf
<1> QED BY <1>1, <1>4, <1>5, <1>6 DEF SeederInv

\* A run selects the row of base rates.
LEMMA SelectKeeps ==
  ASSUME SeederInv, NEW r \in Runs, SelectBaseRate(r)
  PROVE  SeederInv'
<1>1. /\ stage[r] = "idle" /\ stage' = [stage EXCEPT ![r] = "selected"]
      /\ met' = met \cup {{r, o} : o \in Others(r)}
      /\ UNCHANGED <<base, tiers, districts, mapping, added>>
  BY DEF SelectBaseRate, FoundRows, Reach, tables
<1>2. PICK w \in Runs :
        /\ row' = [row EXCEPT ![r] = w]
        /\ base[w] = Absent => w = r /\ \A o \in Runs : base[o] = Absent
  BY DEF SelectBaseRate, FoundRows
<1>3. \A o \in Runs : o # r =>
        /\ stage'[o] = stage[o] /\ row'[o] = row[o]
        /\ Open(o)' <=> Open(o)
        /\ Past(o, "tiers")' <=> Past(o, "tiers")
  BY <1>1, <1>2, RunReaches DEF SeederInv, Reach
<1>4. /\ stage'[r] = "selected" /\ row'[r] = w /\ base[r] = Absent
      /\ Open(r)' /\ ~Past(r, "tiers")'
  <2>1. base[r] = Absent
    BY <1>1 DEF SeederInv, RatesInv
  <2> QED BY <1>1, <1>2, <2>1, RunReaches DEF SeederInv, Reach
<1>5. \A o \in Runs : Open(o) /\ o # r => {r, o} \in met'
  BY <1>1 DEF Others
<1>6. DistrictsInv'
  BY <1>1, <1>3, <1>4 DEF SeederInv, DistrictsInv, DistrictsIn, Held
<1>7. RatesInv'
  <2>1. \A o \in Runs : base'[o] # Absent => stage'[o] = "committed"
    BY <1>1, <1>3, <1>4 DEF SeederInv, RatesInv
  <2>2. \A o \in Runs : Open(o)' => row'[o] \in Runs /\ (base'[row'[o]] = Absent => row'[o] = o)
    BY <1>1, <1>2, <1>3, <1>4 DEF SeederInv, RatesInv
  <2>3. \A o, v \in Runs : Open(o)' /\ Open(v)' /\ o # v => {o, v} \in met'
    <3> SUFFICES ASSUME NEW o \in Runs, NEW v \in Runs, Open(o)', Open(v)', o # v
                 PROVE  {o, v} \in met'
      OBVIOUS
    <3>1. CASE o # r /\ v # r
      BY <1>1, <1>3, <3>1 DEF SeederInv, RatesInv
    <3>2. CASE o = r
      BY <1>3, <1>5, <3>2
    <3>3. CASE v = r
      <4>1. {v, o} = {o, v}
        OBVIOUS
      <4> QED BY <1>3, <1>5, <3>3, <4>1
    <3> QED BY <3>1, <3>2, <3>3
  <2>4. \A o, v \in Runs : Open(o)' /\ row'[o] = o /\ base'[v] # Absent /\ o # v => {o, v} \in met'
    BY <1>1, <1>2, <1>3, <1>4 DEF SeederInv, RatesInv
  <2>5. SingletonUnlessOverlap'
    BY <1>1 DEF SeederInv, RatesInv, SingletonUnlessOverlap
  <2> QED BY <2>1, <2>2, <2>3, <2>4, <2>5 DEF RatesInv
<1>8. SeededTogether' /\ MappingResolves'
  BY <1>1 DEF SeederInv, SeededTogether, MappingResolves, RowsOf
<1>9. met' \in SUBSET SUBSET Runs /\ row' \in [Runs -> Runs \cup {Absent}]
  BY <1>1, <1>2 DEF SeederInv, Others
<1>10. stage' \in [Runs -> {"idle", "committed", "failed", "selected", "rate", "tiers", "read",
                            "districts", "mappings"}]
  BY <1>1 DEF SeederInv
<1> QED BY <1>1, <1>6, <1>7, <1>8, <1>9, <1>10 DEF SeederInv

\* A run writes a base rate, the tiers or the mappings; others wait for its locks.
LEMMA SeedKeeps ==
  ASSUME SeederInv, NEW r \in Runs, SeedBaseRate(r) \/ SeedCreditTiers(r) \/ SeedMappings(r)
  PROVE  SeederInv'
<1>1. PICK s \in {"rate", "tiers", "mappings"} :
        /\ Reach(r, s)
        /\ s = "rate" => stage[r] = "selected"
        /\ s = "tiers" => stage[r] = "rate" /\ ~TiersLocked(r)
        /\ s = "mappings" => stage[r] = "districts"
        /\ UNCHANGED <<base, tiers, districts, mapping, row, added, met>>
  BY DEF SeedBaseRate, SeedCreditTiers, SeedMappings, tables
<1>2. /\ \A o \in Runs \ {r} :
           /\ stage'[o] = stage[o]
           /\ Open(o)' <=> Open(o)
           /\ Past(o, "tiers")' <=> Past(o, "tiers")
      /\ stage'[r] = s /\ Open(r)'
      /\ Past(r, "tiers")' <=> s # "rate"
  BY <1>1, RunReaches DEF SeederInv
<1>3. Open(r) /\ (Past(r, "tiers") <=> stage[r] = "districts")
  BY <1>1, StagesReached
<1>4. s = "tiers" => \A o \in Runs \ {r} : ~Past(o, "tiers")
  BY <1>1, StagesReached DEF TiersLocked, Others
<1>5. DistrictsInv'
  <2>1. \A o \in Runs : added'[o] # Nothing => stage'[o] \in Held
    BY <1>1, <1>2 DEF SeederInv, DistrictsInv, Held
  <2>2. \A o \in Runs : stage'[o] \in Held =>
          \A d \in DistrictsIn(o) : added'[o][d] # Absent \/ districts'[d] # Absent
    BY <1>1, <1>2 DEF SeederInv, DistrictsInv, Held
  <2>3. \A o \in Runs : stage'[o] \in {"districts", "mappings"} =>
          \A d \in Districts : added'[o][d] # Absent => districts'[d] = Absent
    BY <1>1, <1>2 DEF SeederInv, DistrictsInv
  <2>4. \A p, o \in Runs : Past(p, "tiers")' /\ Past(o, "tiers")' => p = o
    <3>1. CASE s = "tiers"
      BY <1>2, <1>4, <3>1
    <3>2. CASE s # "tiers"
      BY <1>1, <1>2, <1>3, <3>2 DEF SeederInv, DistrictsInv
    <3> QED BY <3>1, <3>2
  <2> QED BY <2>1, <2>2, <2>3, <2>4 DEF DistrictsInv, DistrictsIn, Nothing
<1>6. RatesInv'
  BY <1>1, <1>2, <1>3 DEF SeederInv, RatesInv, SingletonUnlessOverlap
<1>7. SeededTogether' /\ MappingResolves'
  BY <1>1 DEF SeederInv, SeededTogether, MappingResolves, RowsOf
<1>8. stage' \in [Runs -> {"idle", "committed", "failed", "selected", "rate", "tiers", "read",
                           "districts", "mappings"}]
  BY <1>1 DEF SeederInv, Reach
<1> QED BY <1>1, <1>5, <1>6, <1>7, <1>8 DEF SeederInv

\* A run reads its scores, or drops the districts that are there.
LEMMA ReadKeeps ==
  ASSUME SeederInv, NEW r \in Runs, ReadScores(r) \/ SeedDistricts(r)
  PROVE  SeederInv'
<1>1. PICK s \in {"read", "districts"} :
        /\ Reach(r, s)
        /\ s = "read" => stage[r] = "tiers" /\ ReadScores(r)
        /\ s = "districts" => stage[r] = "read" /\ SeedDistricts(r)
        /\ UNCHANGED <<base, tiers, districts, mapping, row, met>>
  BY DEF ReadScores, SeedDistricts, InsertsNew, tables
<1>2. /\ \A o \in Runs \ {r} :
           /\ stage'[o] = stage[o]
           /\ Open(o)' <=> Open(o)
           /\ Past(o, "tiers")' <=> Past(o, "tiers")
      /\ stage'[r] = s /\ Open(r)' /\ Past(r, "tiers")'
  BY <1>1, RunReaches DEF SeederInv
<1>3. Open(r) /\ Past(r, "tiers")
  BY <1>1, StagesReached
<1>4. /\ added' \in [Runs -> [Districts -> Values \cup {Absent}]]
      /\ \A o \in Runs \ {r} : added'[o] = added[o]
      /\ \A d \in DistrictsIn(r) : added'[r][d] # Absent \/ districts[d] # Absent
      /\ s = "districts" => \A d \in Districts : added'[r][d] # Absent => districts[d] = Absent
  <2>1. DistrictsIn(r) \subseteq Districts
    BY RowType DEF DistrictsIn
  <2>2. CASE s = "read"
    <3>1. \A d \in DistrictsIn(r) : ScoreOf(r, d) \in Values
      BY <1>1, <2>2, SeederAssumption DEF ReadScores, ScoresUsable, ScoreOf
    <3> DEFINE f == [d \in Districts |-> IF d \in DistrictsIn(r) THEN ScoreOf(r, d) ELSE Absent]
    <3>2. added' = [added EXCEPT ![r] = f]
      BY <1>1, <2>2 DEF ReadScores
    <3>3. f \in [Districts -> Values \cup {Absent}]
      BY <3>1
    <3>4. \A d \in DistrictsIn(r) : f[d] # Absent
      BY <2>1, <3>1, SeederAssumption
    <3> HIDE DEF f
    <3> QED BY <2>2, <3>2, <3>3, <3>4 DEF SeederInv
  <2>3. CASE s = "districts"
    <3> DEFINE f == [d \in Districts |-> IF districts[d] = Absent THEN added[r][d] ELSE Absent]
    <3>1. added' = [added EXCEPT ![r] = f]
      BY <1>1, <2>3 DEF SeedDistricts, InsertsNew, SeederInv
    <3>2. f \in [Districts -> Values \cup {Absent}]
      BY DEF SeederInv
    <3>3. \A d \in DistrictsIn(r) : f[d] # Absent \/ districts[d] # Absent
      BY <1>1, <2>1, <2>3 DEF SeederInv, DistrictsInv, Held
    <3>4. \A d \in Districts : f[d] # Absent => districts[d] = Absent
      OBVIOUS
    <3> HIDE DEF f
    <3> QED BY <3>1, <3>2, <3>3, <3>4 DEF SeederInv
  <2> QED BY <2>2, <2>3
<1>5. DistrictsInv'
  <2>1. \A o \in Runs : added'[o] # Nothing => stage'[o] \in Held
    BY <1>1, <1>2, <1>4 DEF SeederInv, DistrictsInv, Held
  <2>2. \A o \in Runs : stage'[o] \in Held =>
          \A d \in DistrictsIn(o) : added'[o][d] # Absent \/ districts'[d] # Absent
    BY <1>1, <1>2, <1>4 DEF SeederInv, DistrictsInv, Held
  <2>3. \A o \in Runs : stage'[o] \in {"districts", "mappings"} =>
          \A d \in Districts : added'[o][d] # Absent => districts'[d] = Absent
    BY <1>1, <1>2, <1>4 DEF SeederInv, DistrictsInv
  <2>4. \A p, o \in Runs : Past(p, "tiers")' /\ Past(o, "tiers")' => p = o
    BY <1>2, <1>3 DEF SeederInv, DistrictsInv
  <2> QED BY <2>1, <2>2, <2>3, <2>4 DEF DistrictsInv, DistrictsIn, Nothing
<1>6. RatesInv'
  BY <1>1, <1>2, <1>3 DEF SeederInv, RatesInv, SingletonUnlessOverlap
<1>7. SeededTogether' /\ MappingResolves'
  BY <1>1 DEF SeederInv, SeededTogether, MappingResolves, RowsOf
<1>8. stage' \in [Runs -> {"idle", "committed", "failed", "selected", "rate", "tiers", "read",
                           "districts", "mappings"}]
  BY <1>1 DEF SeederInv, Reach
<1> QED BY <1>1, <1>4, <1>5, <1>6, <1>7, <1>8 DEF SeederInv

\* A run that fails takes back what it has not committed.
LEMMA FailKeeps ==
  ASSUME SeederInv, NEW r \in Runs, Fail(r)
  PROVE  SeederInv'
<1>1. /\ Open(r) /\ Reach(r, "failed") /\ added' = [added EXCEPT ![r] = Nothing]
      /\ UNCHANGED <<base, tiers, districts, mapping, row, met>>
  BY DEF Fail, tables
<1>2. /\ \A o \in Runs \ {r} :
           /\ stage'[o] = stage[o]
           /\ Open(o)' <=> Open(o)
           /\ Past(o, "tiers")' <=> Past(o, "tiers")
      /\ stage'[r] = "failed" /\ ~Open(r)' /\ ~Past(r, "tiers")'
  BY <1>1, RunReaches DEF SeederInv
<1>3. stage[r] # "committed"
  BY <1>1, StagesReached
<1>4. Nothing \in [Districts -> Values \cup {Absent}]
  BY DEF Nothing
<1>5. /\ added' \in [Runs -> [Districts -> Values \cup {Absent}]]
      /\ added'[r] = Nothing /\ \A o \in Runs \ {r} : added'[o] = added[o]
  BY <1>1, <1>4 DEF SeederInv
<1>6. DistrictsInv'
  BY <1>1, <1>2, <1>5 DEF SeederInv, DistrictsInv, DistrictsIn, Held
<1>7. RatesInv'
  BY <1>1, <1>2, <1>3 DEF SeederInv, RatesInv, SingletonUnlessOverlap
<1>8. SeededTogether' /\ MappingResolves'
  BY <1>1 DEF SeederInv, SeededTogether, MappingResolves, RowsOf
<1>9. stage' \in [Runs -> {"idle", "committed", "failed", "selected", "rate", "tiers", "read",
                           "districts", "mappings"}]
  BY <1>1 DEF SeederInv, Reach
<1> QED BY <1>1, <1>5, <1>6, <1>7, <1>8, <1>9 DEF SeederInv

\* What a run commits is more than what was there, and a price for every code.
LEMMA CommitKeeps ==
  ASSUME SeederInv, NEW r \in Runs, Commit(r)
  PROVE  /\ SeederInv'
         /\ \A d \in Districts : districts[d] # Absent => districts'[d] = districts[d]
<1>1. /\ stage[r] = "mappings" /\ Reach(r, "committed")
      /\ base' = [base EXCEPT ![row[r]] = SeedRate]
      /\ tiers' = SeedTier
      /\ added' = [added EXCEPT ![r] = Nothing]
      /\ UNCHANGED <<row, met>>
  BY DEF Commit
<1>2. /\ \A o \in Runs \ {r} :
           /\ stage'[o] = stage[o]
           /\ Open(o)' <=> Open(o)
           /\ Past(o, "tiers")' <=> Past(o, "tiers")
      /\ stage'[r] = "committed" /\ ~Open(r)' /\ ~Past(r, "tiers")'
  BY <1>1, RunReaches DEF SeederInv
<1>3. Open(r) /\ Past(r, "tiers") /\ stage[r] \in Held
  BY <1>1, StagesReached DEF Held
<1>4. \A o \in Runs \ {r} : stage[o] \notin Held
  BY <1>3, StagesReached DEF SeederInv, DistrictsInv, Held
<1>5. /\ row[r] \in Runs
      /\ base[row[r]] = Absent => row[r] = r
      /\ \A w \in Runs : base'[w] = IF w = row[r] THEN SeedRate ELSE base[w]
      /\ base' \in [Runs -> Values \cup {Absent}]
      /\ SeedRate # Absent
  BY <1>1, <1>3, SeederAssumption DEF SeederInv, RatesInv
<1>6. /\ districts' = [d \in Districts |->
                       IF added[r][d] # Absent THEN added[r][d] ELSE districts[d]]
      /\ districts' \in [Districts -> Values \cup {Absent}]
      /\ \A d \in Districts : districts[d] # Absent => districts'[d] = districts[d]
      /\ \A d \in DistrictsIn(r) : d \in Districts /\ districts'[d] # Absent
  <2>1. districts' = [d \in Districts |->
                        IF added[r][d] # Absent THEN added[r][d] ELSE districts[d]]
    BY DEF Commit
  <2>2. districts' \in [Districts -> Values \cup {Absent}]
    BY <2>1 DEF SeederInv
  <2>3. \A d \in Districts : districts[d] # Absent => districts'[d] = districts[d]
    BY <1>1, <2>1 DEF SeederInv, DistrictsInv
  <2>4. DistrictsIn(r) \subseteq Districts
    BY RowType DEF DistrictsIn
  <2>5. \A d \in DistrictsIn(r) : districts'[d] # Absent
    BY <1>3, <2>1, <2>4 DEF SeederInv, DistrictsInv
  <2> QED BY <2>1, <2>2, <2>3, <2>4, <2>5
<1>7. /\ mapping' \in [PostalCodes -> Districts \cup {Absent}]
      /\ \A c \in PostalCodes : IF RowsOf(r, c) = {} THEN mapping'[c] = mapping[c]
                                                     ELSE mapping'[c] \in DistrictsIn(r)
  <2>1. mapping' = [c \in PostalCodes |->
                      IF RowsOf(r, c) = {} THEN mapping[c] ELSE LastDistrict(r, c)]
    BY DEF Commit
  <2> QED BY <2>1, LastDistrictType DEF SeederInv
<1>8. /\ added' \in [Runs -> [Districts -> Values \cup {Absent}]]
      /\ added'[r] = Nothing /\ \A o \in Runs \ {r} : added'[o] = added[o]
  <2>1. Nothing \in [Districts -> Values \cup {Absent}]
    BY DEF Nothing
  <2> QED BY <1>1, <2>1 DEF SeederInv
<1>9. DistrictsInv'
  <2>1. \A o \in Runs : added'[o] # Nothing => stage'[o] \in Held
    BY <1>2, <1>8 DEF SeederInv, DistrictsInv
  <2>2. \A o \in Runs : stage'[o] \notin Held
    BY <1>2, <1>4 DEF Held
  <2>3. \A o \in Runs : stage'[o] \notin {"districts", "mappings"}
    BY <2>2 DEF Held
  <2>4. \A p, o \in Runs : Past(p, "tiers")' /\ Past(o, "tiers")' => p = o
    BY <1>2 DEF SeederInv, DistrictsInv
  <2> QED BY <2>1, <2>2, <2>3, <2>4 DEF DistrictsInv, Nothing
<1>10. RatesInv'
  <2>1. \A w \in Runs : base'[w] # Absent => stage'[w] = "committed"
    BY <1>2, <1>5 DEF SeederInv, RatesInv
  <2>2. \A o \in Runs : Open(o)' => row'[o] \in Runs /\ (base'[row'[o]] = Absent => row'[o] = o)
    BY <1>1, <1>2, <1>5 DEF SeederInv, RatesInv
  <2>3. \A o, w \in Runs : Open(o)' /\ Open(w)' /\ o # w => {o, w} \in met'
    BY <1>1, <1>2 DEF SeederInv, RatesInv
  <2>4. \A o, w \in Runs : Open(o)' /\ row'[o] = o /\ base'[w] # Absent /\ o # w => {o, w} \in met'
    BY <1>1, <1>2, <1>3, <1>5 DEF SeederInv, RatesInv
  <2>5. SingletonUnlessOverlap'
    <3> SUFFICES ASSUME NEW o \in Runs, NEW w \in Runs, base'[o] # Absent, base'[w] # Absent, o # w
                 PROVE  {o, w} \in met'
      BY DEF SingletonUnlessOverlap
    <3>1. CASE base[o] # Absent /\ base[w] # Absent
      BY <1>1, <3>1 DEF SeederInv, RatesInv, SingletonUnlessOverlap
    <3>2. CASE base[o] = Absent
      BY <1>1, <1>3, <1>5, <3>2 DEF SeederInv, RatesInv
    <3>3. CASE base[w] = Absent
      <4>1. {w, o} \in met
        BY <1>1, <1>3, <1>5, <3>3 DEF SeederInv, RatesInv
      <4>2. {w, o} = {o, w}
        OBVIOUS
      <4> QED BY <1>1, <4>1, <4>2
    <3> QED BY <3>1, <3>2, <3>3
  <2> QED BY <2>1, <2>2, <2>3, <2>4, <2>5 DEF RatesInv
<1>11. SeededTogether'
  <2>1. \A t \in Tiers : tiers'[t] # Absent
    BY <1>1, SeederAssumption
  <2>2. \A c \in PostalCodes : RowsOf(r, c) # {} => mapping'[c] # Absent
    BY <1>6, <1>7, SeederAssumption
  <2> QED BY <2>1, <2>2 DEF SeededTogether, RowsOf
<1>12. MappingResolves'
  <2> SUFFICES ASSUME NEW c \in PostalCodes, mapping'[c] # Absent
               PROVE  districts'[mapping'[c]] # Absent
    BY DEF MappingResolves
  <2>1. CASE RowsOf(r, c) = {}
    <3>1. mapping'[c] = mapping[c] /\ mapping[c] \in Districts /\ districts[mapping[c]] # Absent
      BY <1>7, <2>1 DEF SeederInv, MappingResolves
    <3> QED BY <1>6, <3>1
  <2>2. CASE RowsOf(r, c) # {}
    BY <1>6, <1>7, <2>2
  <2> QED BY <2>1, <2>2
<1>13. stage' \in [Runs -> {"idle", "committed", "failed", "selected", "rate", "tiers", "read",
                            "districts", "mappings"}]
  BY <1>1 DEF SeederInv, Reach
<1>14. tiers' \in [Tiers -> Values \cup {Absent}]
  BY <1>1, SeederAssumption
<1> QED
  BY <1>1, <1>5, <1>6, <1>7, <1>8, <1>9, <1>10, <1>11, <1>12, <1>13, <1>14 DEF SeederInv

\* An administrator changes what is there, or adds a tier.
LEMMA AdminKeeps ==
  ASSUME SeederInv, NEW v \in AdminValues, AdminRate(v) \/ AdminTier(v) \/ AdminDistrict(v)
  PROVE  SeederInv'
<1>1. v \in Values /\ v # Absent
  BY SeederAssumption
<1>2. UNCHANGED <<mapping, stage, row, added, met>>
  BY DEF AdminRate, AdminTier, AdminDistrict
<1>3. /\ base' \in [Runs -> Values \cup {Absent}]
      /\ \A w \in Runs : base'[w] = Absent <=> base[w] = Absent
  BY <1>1 DEF AdminRate, AdminTier, AdminDistrict, SeederInv
<1>4. /\ tiers' \in [Tiers -> Values \cup {Absent}]
      /\ \A t \in Tiers : tiers[t] # Absent => tiers'[t] # Absent
  BY <1>1 DEF AdminRate, AdminTier, AdminDistrict, SeederInv
<1>5. /\ districts' \in [Districts -> Values \cup {Absent}]
      /\ \A d \in Districts : districts'[d] = Absent <=> districts[d] = Absent
  BY <1>1, SeederAssumption DEF AdminRate, AdminTier, AdminDistrict, SeederInv
<1>6. \A r : (Open(r)' <=> Open(r)) /\ (Past(r, "tiers")' <=> Past(r, "tiers"))
  BY <1>2 DEF Open, Past
<1>7. \A r \in Runs : DistrictsIn(r) \subseteq Districts
  BY RowType DEF DistrictsIn
<1>8. DistrictsInv'
  BY <1>2, <1>5, <1>6, <1>7 DEF SeederInv, DistrictsInv, DistrictsIn, Nothing
<1>9. RatesInv'
  BY <1>2, <1>3, <1>6 DEF SeederInv, RatesInv, SingletonUnlessOverlap
<1>10. SeededTogether'
  BY <1>2, <1>3, <1>4 DEF SeederInv, SeededTogether, RowsOf
<1>11. MappingResolves'
  BY <1>2, <1>5 DEF SeederInv, MappingResolves
<1> QED BY <1>2, <1>3, <1>4, <1>5, <1>8, <1>9, <1>10, <1>11 DEF SeederInv

-----------------------------------------------------------------------------
(* The theorems.                                                           *)

\* Every step of the seeder, of administrators or of the script keeps it.
LEMMA SeederStep ==
  ASSUME SeederInv, [Next]_<<vars, scriptVars, history>>
  PROVE  SeederInv'
<1>1. CASE UNCHANGED seederVars
  BY <1>1, SeederUntouched
<1>2. CASE UNCHANGED <<vars, scriptVars, history>>
  BY <1>1, <1>2 DEF vars, seederVars
<1>3. CASE SeederNext
  BY <1>3, SelectKeeps, SeedKeeps, ReadKeeps, CommitKeeps, FailKeeps, AdminKeeps DEF
      SeederNext
<1> QED BY <1>1, <1>2, <1>3 DEF Next

\* What is known of the tables and of the runs holds in every state.
THEOREM SeederInvariance == Spec => []SeederInv
  BY SeederInitially, SeederStep, PTL DEF Spec

\* A base rate is never there without the tiers and some run's postal codes.
THEOREM SeedingIsAtomic == Spec => []SeededTogether
<1>1. SeederInv => SeededTogether
  BY DEF SeederInv
<1> QED BY <1>1, SeederInvariance, PTL

\* A postal code never leads to a district without a multiplier.
THEOREM MappingsResolve == Spec => []MappingResolves
<1>1. SeederInv => MappingResolves
  BY DEF SeederInv
<1> QED BY <1>1, SeederInvariance, PTL

\* Runs that do not overlap leave one base rate.
THEOREM OneRateUnlessOverlap == Spec => []SingletonUnlessOverlap
<1>1. SeederInv => SingletonUnlessOverlap
  BY DEF SeederInv, RatesInv
<1> QED BY <1>1, SeederInvariance, PTL

\* No run replaces the multiplier of a district.
THEOREM CalibrationIsKept == Spec => CalibrationSurvives
<1> DEFINE Kept == \A d \in Districts : districts[d] # Absent => districts'[d] = districts[d]
<1>1. SeederInv /\ [Next]_<<vars, scriptVars, history>> => [stage' # stage => Kept]_vars
  <2> SUFFICES ASSUME SeederInv, [Next]_<<vars, scriptVars, history>>, stage' # stage
               PROVE  Kept
    OBVIOUS
  <2>1. SeederNext
    BY DEF Next, vars, seederVars
  <2>2. CASE \E r \in Runs : Commit(r)
    BY <2>2, CommitKeeps
  <2>3. CASE districts' = districts
    BY <2>3
  <2>4. CASE \E v \in AdminValues : AdminRate(v) \/ AdminTier(v) \/ AdminDistrict(v)
    BY <2>4 DEF AdminRate, AdminTier, AdminDistrict
  <2>5. CASE \E r \in Runs : \/ SelectBaseRate(r) \/ SeedBaseRate(r) \/ SeedCreditTiers(r)
                             \/ ReadScores(r) \/ SeedDistricts(r) \/ SeedMappings(r) \/ Fail(r)
    BY <2>3, <2>5 DEF SelectBaseRate, FoundRows, SeedBaseRate, SeedCreditTiers, ReadScores,
                      SeedDistricts, InsertsNew, SeedMappings, Fail, tables
  <2> QED BY <2>1, <2>2, <2>4, <2>5 DEF SeederNext
<1> QED BY <1>1, SeederInvariance, PTL DEF Spec, CalibrationSurvives
=============================================================================
