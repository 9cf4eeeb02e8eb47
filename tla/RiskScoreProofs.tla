-------------------------- MODULE RiskScoreProofs --------------------------
(***************************************************************************)
(* Theorems about the file of district risk scores, for any boroughs, any  *)
(* clustering, any files of places and any number of runs of the script    *)
(* and of the seeder.                                                      *)
(*                                                                         *)
(* The argument: a file that the script accepts has every borough in it,   *)
(* so that its clusters are those of the whole country.  A row of the file *)
(* of scores therefore has what its borough is owed under such an edition, *)
(* or was cut off; and what a cut leaves is the neutral multiplier or      *)
(* cannot be used.  While no writer has the file open or has left it open, *)
(* all of the file is what one edition owes, and nothing in it is neutral. *)
(***************************************************************************)
EXTENDS BootstrapProofs, FiniteSetTheorems

-----------------------------------------------------------------------------
(* What the script computes.                                               *)

\* A file of places names districts only.
LEMMA BoroughsAreDistricts ==
  ASSUME NEW i \in Inputs
  PROVE  Boroughs[i] \subseteq Districts /\ East[i] \subseteq Boroughs[i]
<1>1. Boroughs[i] = {PlacesOf[i][n].district : n \in DOMAIN PlacesOf[i]}
  BY DEF Boroughs
<1>2. \A n \in DOMAIN PlacesOf[i] : PlacesOf[i][n].district \in Districts
  BY RiskModelAssumption
<1>3. East[i] \subseteq Boroughs[i]
  BY DEF East
<1> QED BY <1>1, <1>2, <1>3

\* A file that is accepted has all boroughs, and all eastern ones.
LEMMA AcceptedIsWhole ==
  ASSUME NEW i \in Inputs, Accepted(i)
  PROVE  Boroughs[i] = Districts /\ East[i] = Eastern
<1>1. Boroughs[i] \in SUBSET Districts /\ Cardinality(Boroughs[i]) = Cardinality(Districts)
  BY BoroughsAreDistricts, GeographyAssumption DEF Accepted
<1>2. Boroughs[i] = Districts
  BY <1>1, FS_Subset, GeographyAssumption
<1>3. Consistent(i)
  BY DEF Accepted
<1>4. East[i] \subseteq Eastern
  BY <1>3 DEF Eastern
<1>5. ASSUME NEW d \in Eastern PROVE d \in East[i]
  <2>1. PICK j \in Inputs : Consistent(j) /\ d \in East[j]
    BY DEF Eastern
  <2>2. d \in Boroughs[i]
    BY <1>2, <2>1, BoroughsAreDistricts
  <2>3. East[j] \cap Boroughs[i] = East[i] \cap Boroughs[j]
    BY <1>3, <2>1, GeographyAssumption
  <2> QED BY <2>1, <2>2, <2>3
<1> QED BY <1>2, <1>4, <1>5

\* A cluster's boroughs are its eastern and its western ones.
LEMMA ClusterIsSplit ==
  ASSUME NEW S, NEW E, IsFiniteSet(S)
  PROVE  /\ Cardinality(S) \in Nat /\ Cardinality(S \cap E) \in Nat /\ Cardinality(S \ E) \in Nat
         /\ Cardinality(S) = Cardinality(S \cap E) + Cardinality(S \ E)
<1>1. IsFiniteSet(S \cap E) /\ IsFiniteSet(S \ E)
  <2>1. S \cap E \in SUBSET S /\ S \ E \in SUBSET S
    OBVIOUS
  <2> QED BY <2>1, FS_Subset
<1>2. (S \cap E) \cup (S \ E) = S /\ (S \cap E) \cap (S \ E) = {}
  OBVIOUS
<1>3. Cardinality(S) = Cardinality(S \cap E) + Cardinality(S \ E) - Cardinality({})
  BY <1>1, <1>2, FS_Union
<1>4. Cardinality({}) = 0
  BY FS_EmptySet
<1> QED BY <1>1, <1>3, <1>4, FS_CardinalityType

\* The thresholds of 60 and 40 per cent in odds.
LEMMA ThresholdsAreOdds ==
  ASSUME NEW east \in Nat, NEW west \in Nat, east + west > 0
  PROVE  MULTIPLIER_SCALE[ClassifyCluster(east, east + west)] =
           IF 2 * east >= 3 * west THEN 120 ELSE IF 3 * east <= 2 * west THEN 90 ELSE 105
<1> DEFINE c == ClassifyCluster(east, east + west)
<1>1. 10 * east >= 6 * (east + west) <=> 2 * east >= 3 * west
  OBVIOUS
<1>2. 10 * east <= 4 * (east + west) <=> 3 * east <= 2 * west
  OBVIOUS
<1>3. ~(2 * east >= 3 * west /\ 3 * east <= 2 * west)
  OBVIOUS
<1>4. CASE 2 * east >= 3 * west
  <2>1. c = "east"
    BY <1>1, <1>2, <1>3, <1>4 DEF ClassifyCluster
  <2> QED BY <1>4, <2>1 DEF MULTIPLIER_SCALE
<1>5. CASE 3 * east <= 2 * west
  <2>1. c = "west"
    BY <1>1, <1>2, <1>3, <1>5 DEF ClassifyCluster
  <2> QED BY <1>3, <1>5, <2>1 DEF MULTIPLIER_SCALE
<1>6. CASE ~(2 * east >= 3 * west) /\ ~(3 * east <= 2 * west)
  <2>1. c = "mixed"
    BY <1>1, <1>2, <1>6 DEF ClassifyCluster
  <2> QED BY <1>6, <2>1 DEF MULTIPLIER_SCALE
<1> QED BY <1>4, <1>5, <1>6

\* The script computes what a borough's cluster is owed over the whole country.
LEMMA ScoreIsOwed ==
  ASSUME NEW i \in Inputs, Accepted(i), NEW d \in Districts
  PROVE  Score(i, d) = Owed(i, d)
<1> DEFINE S == With(i, d)
<1>1. ClusterOf(i, d) = S /\ East[i] = Eastern
  BY AcceptedIsWhole DEF ClusterOf, With
<1>2. S \in SUBSET Districts /\ d \in S
  BY DEF With
<1>3. IsFiniteSet(S)
  BY <1>2, FS_Subset, GeographyAssumption
<1>4. Cardinality(S) # 0
  BY <1>2, <1>3, FS_EmptySet
<1> HIDE DEF S
<1> DEFINE east == Cardinality(S \cap Eastern)   west == Cardinality(S \ Eastern)
<1>5. east \in Nat /\ west \in Nat /\ Cardinality(S) = east + west /\ east + west > 0
  <2>1. /\ Cardinality(S) \in Nat /\ east \in Nat /\ west \in Nat
        /\ Cardinality(S) = east + west
    BY <1>3, ClusterIsSplit, Zenon
  <2> HIDE DEF east, west
  <2> QED BY <1>4, <2>1
<1>6. Score(i, d) = MULTIPLIER_SCALE[ClassifyCluster(east, east + west)]
  BY <1>1, <1>5 DEF Score
<1>7. Owed(i, d) = IF 2 * east >= 3 * west THEN 120 ELSE IF 3 * east <= 2 * west THEN 90 ELSE 105
  BY DEF Owed, S
<1> HIDE DEF east, west
<1> QED BY <1>5, <1>6, <1>7, ThresholdsAreOdds

\* Three multipliers are all there is, and none of them is the neutral one.
LEMMA OwedType ==
  ASSUME NEW i, NEW d
  PROVE  Owed(i, d) \in {90, 105, 120} /\ Owed(i, d) # Neutral
BY DEF Owed, Neutral

\* What a cut leaves of a multiplier.
LEMMA CutIsNoOther ==
  ASSUME NEW w, NEW v \in CutShort(w)
  PROVE  v \in {w, Unusable, Neutral}
BY DEF CutShort, Neutral

-----------------------------------------------------------------------------
(* The inductive invariant.                                                *)

\* All of the file is what one edition owes.
Whole == \E i \in Inputs : Accepted(i) /\ scores = [d \in Districts |-> Owed(i, d)]

\* What stands in the file is owed, cut off, or the neutral multiplier, and it is
\* all owed unless a writer has begun and not ended; a run of the script that
\* writes had a file it accepts.
ScriptInv ==
  /\ labels \in Labellings /\ input \in Inputs
  /\ script \in {"idle", "computed", "writing", "done", "failed", "killed"}
  /\ script \in {"computed", "writing", "done"} => Accepted(input)
  /\ unfinished \in BOOLEAN
  /\ script = "writing" => unfinished
  /\ script = "done" => ~unfinished
  /\ ~unfinished => scores = NoFile \/ Whole
  /\ scores # NoFile =>
       /\ DOMAIN scores \subseteq Districts
       /\ \A d \in DOMAIN scores : scores[d] \in Due(d) \cup {Neutral, Unusable}

\* Whoever gives a district the neutral multiplier has been given no scores, or
\* has read what an unfinished writer left.
MayGuess(r, d) == d \in DistrictsIn(r) /\ (r \in WithScores => r \in guessed)

\* A run of the seeder holds, and has committed, only what its file was owed, or
\* the neutral multiplier for a reason.
PricesInv ==
  /\ guessed \subseteq Runs
  /\ \A r \in Runs, d \in Districts :
       /\ added[r][d] \in {Absent, Neutral} \cup Due(d)
       /\ added[r][d] = Neutral => MayGuess(r, d)
  /\ PricedByItsCluster
  /\ NeutralOnlyIfUnfinished

ScoresInv == ScriptInv /\ PricesInv

\* At the start there is no file, and nothing is seeded.
LEMMA ScoresInitially == Init => ScoresInv
<1> SUFFICES ASSUME Init PROVE ScoresInv
  OBVIOUS
<1>1. /\ scores = NoFile /\ script = "idle" /\ labels \in Labellings
      /\ unfinished = FALSE /\ guessed = {}
  BY DEF Init, ScriptInit
<1>2. input \in Inputs
  BY RiskModelAssumption DEF Init, ScriptInit
<1>3. \A d \in Districts : districts[d] = Absent /\ \A r \in Runs : added[r][d] = Absent
  BY DEF Init, SeederInit, Nothing
<1>4. Absent # Neutral
  BY SeederAssumption
<1>5. PricedByItsCluster /\ NeutralOnlyIfUnfinished
  BY <1>3, <1>4 DEF PricedByItsCluster, NeutralOnlyIfUnfinished
<1> QED BY <1>1, <1>2, <1>3, <1>4, <1>5 DEF ScoresInv, ScriptInv, PricesInv

\* What a cluster is owed depends on nothing that changes.
LEMMA OwedStays ==
  ASSUME UNCHANGED labels
  PROVE  /\ \A i, d : Owed(i, d)' = Owed(i, d)
         /\ \A i, d : Score(i, d)' = Score(i, d)
         /\ \A d : Due(d)' = Due(d)
<1>1. \A i, d : Owed(i, d)' = Owed(i, d)
  BY DEF Owed, With
<1>2. \A i, d : Score(i, d)' = Score(i, d)
  BY DEF Score, ClusterOf
<1>3. \A d : Due(d)' = Due(d)
  BY <1>1 DEF Due
<1> QED BY <1>1, <1>2, <1>3

\* What is owed under an edition is due.
LEMMA OwedIsDue ==
  ASSUME NEW i \in Inputs, Accepted(i), NEW d
  PROVE  Owed(i, d) \in Due(d)
BY DEF Due

\* A row of the file is within what is allowed, whether it is whole or cut.
LEMMA RowsAllowed ==
  ASSUME NEW i \in Inputs, Accepted(i), NEW S \in SUBSET Boroughs[i], NEW last \in S,
         NEW v \in CutShort(Score(i, last)), NEW file,
         file = [d \in S |-> IF d = last THEN v ELSE Score(i, d)]
  PROVE  /\ DOMAIN file \subseteq Districts
         /\ \A d \in DOMAIN file : file[d] \in Due(d) \cup {Neutral, Unusable}
<1>1. DOMAIN file = S /\ S \subseteq Districts
  BY BoroughsAreDistricts
<1>2. ASSUME NEW d \in S PROVE file[d] \in Due(d) \cup {Neutral, Unusable}
  <2>1. Score(i, d) = Owed(i, d) /\ Owed(i, d) \in Due(d)
    BY <1>1, ScoreIsOwed, OwedIsDue
  <2>2. CASE d = last
    <3>1. file[d] = v /\ v \in CutShort(Owed(i, d))
      BY <2>1, <2>2
    <3> QED BY <2>1, <3>1, CutIsNoOther
  <2>3. CASE d # last
    BY <2>1, <2>3
  <2> QED BY <2>2, <2>3
<1> QED BY <1>1, <1>2

\* The boroughs that are written first are boroughs of the file.
LEMMA FirstAreBoroughs ==
  ASSUME NEW i \in Inputs, NEW n
  PROVE  FirstBoroughs(i, n) \subseteq Boroughs[i]
<1>1. Boroughs[i] = {PlacesOf[i][m].district : m \in DOMAIN PlacesOf[i]}
  BY DEF Boroughs
<1> QED BY <1>1 DEF FirstBoroughs

\* The file is whole when its last writer has closed it, and its rows are due.
LEMMA ClosedIsWhole ==
  ASSUME NEW i \in Inputs, Accepted(i)
  PROVE  [d \in Boroughs[i] |-> Score(i, d)] = [d \in Districts |-> Owed(i, d)]
BY AcceptedIsWhole, ScoreIsOwed

\* Whole rows are due, and a whole file is a file.
LEMMA WholeIsDue ==
  ASSUME Whole
  PROVE  /\ scores # NoFile /\ DOMAIN scores = Districts
         /\ \A d \in Districts : scores[d] \in Due(d) /\ scores[d] # Neutral
<1>1. PICK i \in Inputs : Accepted(i) /\ scores = [d \in Districts |-> Owed(i, d)]
  BY DEF Whole
<1>2. \A d \in Districts : scores[d] = Owed(i, d) /\ Owed(i, d) \in Nat
  BY <1>1, OwedType
<1>3. scores \in [Districts -> Nat]
  BY <1>1, <1>2
<1>4. scores # NoFile
  BY <1>3, RiskModelAssumption
<1> QED BY <1>1, <1>2, <1>4, OwedIsDue, OwedType

\* A file that stays the same stays as good as it was.
LEMMA FileStays ==
  ASSUME ScriptInv, UNCHANGED <<scores, labels>>
  PROVE  /\ Whole' <=> Whole
         /\ scores' # NoFile =>
              /\ DOMAIN scores' \subseteq Districts
              /\ \A d \in DOMAIN scores' : scores'[d] \in Due(d)' \cup {Neutral, Unusable}
<1>1. Whole' <=> Whole
  BY OwedStays DEF Whole
<1>2. \A d : Due(d)' = Due(d)
  BY OwedStays
<1> QED BY <1>1, <1>2 DEF ScriptInv

\* Steps of the script.
LEMMA ScriptKeeps ==
  ASSUME ScriptInv, ScriptNext, Remember
  PROVE  ScriptInv' /\ UNCHANGED labels
<1>0. UNCHANGED labels
  BY DEF ScriptNext, Compute, Refuse, Refusal, OpenOutput, EmptyFile, Flush, Close, Kill,
         scriptVars
<1> USE <1>0
<1>a. unfinished' = (script' = "writing" \/ (unfinished /\ script' # "done"))
  BY DEF Remember
<1>b. \A d : Due(d)' = Due(d)
  BY OwedStays
<1>1. CASE \E i \in Inputs : Compute(i)
  <2>1. PICK i \in Inputs : /\ Accepted(i) /\ script' = "computed" /\ input' = i
                            /\ UNCHANGED scores
    BY <1>1 DEF Compute
  <2>2. unfinished' = unfinished
    BY <1>a, <2>1 DEF ScriptInv
  <2> QED BY <2>1, <2>2, FileStays DEF ScriptInv
<1>2. CASE \E i \in Inputs : Refuse(i)
  <2>1. script' = "failed" /\ UNCHANGED <<scores, input>>
    BY <1>2 DEF Refuse, Refusal
  <2>2. unfinished' = unfinished
    BY <1>a, <2>1 DEF ScriptInv
  <2> QED BY <2>1, <2>2, FileStays DEF ScriptInv
<1>3. CASE OpenOutput
  <2>1. /\ script = "computed" /\ script' = "writing" /\ scores' = [d \in {} |-> Unusable]
        /\ UNCHANGED input
    BY <1>3 DEF OpenOutput, EmptyFile
  <2>2. unfinished' = TRUE
    BY <1>a, <2>1
  <2>3. DOMAIN scores' = {}
    BY <2>1
  <2> QED BY <2>1, <2>2, <2>3 DEF ScriptInv
<1>4. CASE Flush
  <2>1. script = "writing" /\ UNCHANGED <<script, input>>
    BY <1>4 DEF Flush, scriptVars
  <2>2. PICK n \in FlushedAt :
          \E last \in FirstBoroughs(input, n) \ FirstBoroughs(input, n - 1) :
          \E v \in CutShort(Score(input, last)) :
            scores' = [d \in FirstBoroughs(input, n) |-> IF d = last THEN v ELSE Score(input, d)]
    BY <1>4 DEF Flush
  <2> DEFINE S == FirstBoroughs(input, n)
  <2>3. PICK last \in S : \E v \in CutShort(Score(input, last)) :
          scores' = [d \in S |-> IF d = last THEN v ELSE Score(input, d)]
    BY <2>2
  <2>4. PICK v \in CutShort(Score(input, last)) :
          scores' = [d \in S |-> IF d = last THEN v ELSE Score(input, d)]
    BY <2>3
  <2>5. input \in Inputs /\ Accepted(input)
    BY <2>1 DEF ScriptInv
  <2>6. S \in SUBSET Boroughs[input]
    BY <2>5, FirstAreBoroughs
  <2> HIDE DEF S
  <2>7. /\ DOMAIN scores' \subseteq Districts
        /\ \A d \in DOMAIN scores' : scores'[d] \in Due(d) \cup {Neutral, Unusable}
    BY <2>4, <2>5, <2>6, RowsAllowed
  <2>8. unfinished' = TRUE
    BY <1>a, <2>1
  <2> QED BY <1>b, <2>1, <2>5, <2>7, <2>8 DEF ScriptInv
<1>5. CASE Close
  <2>1. /\ script = "writing" /\ script' = "done" /\ UNCHANGED input
        /\ scores' = [d \in Boroughs[input] |-> Score(input, d)]
    BY <1>5 DEF Close
  <2>2. input \in Inputs /\ Accepted(input)
    BY <2>1 DEF ScriptInv
  <2>3. scores' = [d \in Districts |-> Owed(input, d)]
    BY <2>1, <2>2, ClosedIsWhole
  <2>4. \A d \in Districts : scores'[d] \in Due(d)
    BY <2>2, <2>3, OwedIsDue
  <2>5. \A d : Owed(input, d)' = Owed(input, d)
    BY <2>1 DEF Owed, With
  <2>6. Whole'
    <3>1. scores' = [d \in Districts |-> Owed(input, d)']
      BY <2>3, <2>5
    <3> QED BY <2>1, <2>2, <3>1 DEF Whole
  <2>7. unfinished' = FALSE
    BY <1>a, <2>1
  <2>8. DOMAIN scores' = Districts
    BY <2>3
  <2> QED BY <1>b, <2>1, <2>2, <2>4, <2>6, <2>7, <2>8 DEF ScriptInv
<1>6. CASE Kill
  <2>1. script' = "killed" /\ UNCHANGED <<scores, input>>
    BY <1>6 DEF Kill
  <2>2. unfinished' = unfinished
    BY <1>a, <2>1 DEF ScriptInv
  <2> QED BY <2>1, <2>2, FileStays DEF ScriptInv
<1> QED BY <1>1, <1>2, <1>3, <1>4, <1>5, <1>6 DEF ScriptNext

\* A run of the seeder keeps the file as it is.
LEMMA SeederKeepsFile ==
  ASSUME SeederNext
  PROVE  UNCHANGED scores
BY DEF SeederNext, SelectBaseRate, FoundRows, SeedBaseRate, SeedCreditTiers, ReadScores,
       SeedDistricts, InsertsNew, SeedMappings, Commit, Fail, AdminRate, AdminTier,
       AdminDistrict

\* A score the seeder can use is due or neutral, and neutral only if the run may
\* guess from now on.
LEMMA UsableIsDue ==
  ASSUME ScriptInv, NEW r \in Runs, ScoresUsable(r), NEW d \in DistrictsIn(r), d \in Districts
  PROVE  /\ ScoreOf(r, d) \in {Neutral} \cup Due(d)
         /\ ScoreOf(r, d) = Neutral => r \notin WithScores \/ unfinished
<1>1. CASE r \in WithScores /\ d \in DOMAIN scores
  <2>1. scores # NoFile /\ ScoreOf(r, d) = scores[d] /\ scores[d] \in Values
    BY <1>1 DEF ScoresUsable, ScoreOf
  <2>2. scores[d] \in Due(d) \cup {Neutral, Unusable}
    BY <1>1, <2>1 DEF ScriptInv
  <2>3. scores[d] # Unusable
    BY <2>1, SeederAssumption
  <2>4. ~unfinished => scores[d] # Neutral
    BY <2>1, WholeIsDue DEF ScriptInv
  <2> QED BY <2>1, <2>2, <2>3, <2>4
<1>2. CASE r \notin WithScores
  BY <1>2 DEF ScoreOf
<1>3. CASE r \in WithScores /\ d \notin DOMAIN scores
  <2>1. scores # NoFile /\ ScoreOf(r, d) = Neutral
    BY <1>3 DEF ScoresUsable, ScoreOf
  <2>2. unfinished
    BY <1>3, <2>1, WholeIsDue DEF ScriptInv
  <2> QED BY <2>1, <2>2
<1> QED BY <1>1, <1>2, <1>3

\* What has been seeded for a reason keeps its reason.
LEMMA ReasonsStay ==
  ASSUME SeederInv, PricesInv, UNCHANGED labels, Remember,
         \A r \in Runs : stage[r] = "committed" => stage'[r] = "committed",
         \A r \in Runs, d \in Districts :
           /\ added'[r][d] \in {Absent, Neutral} \cup Due(d)
           /\ added'[r][d] = Neutral => MayGuess(r, d)',
         \A d \in Districts :
           \/ districts'[d] = districts[d]
           \/ d \in Calibrated /\ districts'[d] \in AdminValues
           \/ \E r \in Runs : /\ stage'[r] = "committed" /\ districts'[d] = added[r][d]
                              /\ districts'[d] # Absent
  PROVE  PricesInv'
<1>1. guessed \subseteq guessed' /\ guessed' \subseteq Runs
  BY DEF Remember, PricesInv
<1>2. \A d : Due(d)' = Due(d)
  BY OwedStays
<1>3. \A r, d : MayGuess(r, d) => MayGuess(r, d)'
  BY <1>1 DEF MayGuess, DistrictsIn
<1>4. PricedByItsCluster'
  BY <1>2 DEF PricesInv, PricedByItsCluster
<1>5. NeutralOnlyIfUnfinished'
  <2> SUFFICES ASSUME NEW d \in Districts, districts'[d] = Neutral,
                      ~(d \in Calibrated /\ Neutral \in AdminValues)
               PROVE  \E r \in Runs : stage'[r] = "committed" /\ MayGuess(r, d)'
    BY DEF NeutralOnlyIfUnfinished, MayGuess, DistrictsIn
  <2>1. CASE districts[d] = Neutral
    <3>1. PICK r \in Runs : stage[r] = "committed" /\ MayGuess(r, d)
      BY <2>1 DEF PricesInv, NeutralOnlyIfUnfinished, MayGuess
    <3> QED BY <1>3, <3>1
  <2>2. CASE \E r \in Runs : stage'[r] = "committed" /\ districts'[d] = added[r][d]
    <3>1. PICK r \in Runs : stage'[r] = "committed" /\ added[r][d] = Neutral
      BY <2>2
    <3>2. MayGuess(r, d)
      BY <3>1 DEF PricesInv
    <3> QED BY <1>3, <3>1, <3>2
  <2> QED BY <2>1, <2>2
<1> QED BY <1>1, <1>2, <1>4, <1>5 DEF PricesInv

\* A run that has committed is at its end.
LEMMA CommittedStays ==
  ASSUME SeederInv, SeederNext, NEW r \in Runs, stage[r] = "committed"
  PROVE  stage'[r] = "committed"
<1>1. ASSUME NEW o \in Runs, NEW s, Reach(o, s), o # r PROVE stage'[r] = "committed"
  BY <1>1 DEF Reach, SeederInv
<1>2. ~Open(r)
  BY DEF Open, Stages
<1>3. CASE \E v \in AdminValues : AdminRate(v) \/ AdminTier(v) \/ AdminDistrict(v)
  BY <1>3 DEF AdminRate, AdminTier, AdminDistrict
<1>4. CASE \E o \in Runs : \/ SelectBaseRate(o) \/ SeedBaseRate(o) \/ SeedCreditTiers(o)
                           \/ ReadScores(o)
  BY <1>1, <1>4 DEF SelectBaseRate, SeedBaseRate, SeedCreditTiers, ReadScores
<1>5. CASE \E o \in Runs : SeedDistricts(o) \/ SeedMappings(o) \/ Commit(o) \/ Fail(o)
  BY <1>1, <1>2, <1>5 DEF SeedDistricts, SeedMappings, Commit, Fail
<1> QED BY <1>3, <1>4, <1>5 DEF SeederNext

\* A run of the seeder, or an administrator, keeps the prices.
LEMMA PricesKeep ==
  ASSUME SeederInv, ScoresInv, SeederNext, Remember, UNCHANGED labels
  PROVE  PricesInv'
<1> DEFINE Fair == \A r \in Runs, d \in Districts :
                     /\ added'[r][d] \in {Absent, Neutral} \cup Due(d)
                     /\ added'[r][d] = Neutral => MayGuess(r, d)'
           Priced == \A d \in Districts :
                       \/ districts'[d] = districts[d]
                       \/ d \in Calibrated /\ districts'[d] \in AdminValues
                       \/ \E r \in Runs : /\ stage'[r] = "committed"
                                          /\ districts'[d] = added[r][d] /\ districts'[d] # Absent
<1>1. SUFFICES Fair /\ Priced
  BY CommittedStays, ReasonsStay DEF ScoresInv
<1>2. \A r \in Runs, d \in Districts : /\ added[r][d] \in {Absent, Neutral} \cup Due(d)
                                       /\ added[r][d] = Neutral => MayGuess(r, d)'
  BY DEF ScoresInv, PricesInv, Remember, MayGuess, DistrictsIn
<1>3. DOMAIN added = Runs /\ DOMAIN districts = Districts /\ DOMAIN stage = Runs
  BY DEF SeederInv
<1>4. \A d \in Districts : Nothing[d] = Absent /\ Absent # Neutral
  BY SeederAssumption DEF Nothing
<1>5. CASE UNCHANGED <<added, districts>>
  BY <1>2, <1>5
<1>6. ASSUME NEW r \in Runs, ReadScores(r) PROVE Fair /\ Priced
  <2>1. /\ districts' = districts /\ ScoresUsable(r) /\ stage[r] = "tiers" /\ stage'[r] = "read"
        /\ added' = [added EXCEPT ![r] =
             [d \in Districts |-> IF d \in DistrictsIn(r) THEN ScoreOf(r, d) ELSE Absent]]
    BY <1>3, <1>6 DEF ReadScores, tables, Reach
  <2>2. unfinished => r \in guessed'
    BY <2>1 DEF Remember
  <2>3. ASSUME NEW d \in Districts
        PROVE  /\ added'[r][d] \in {Absent, Neutral} \cup Due(d)
               /\ added'[r][d] = Neutral => MayGuess(r, d)'
    <3>1. added'[r][d] = IF d \in DistrictsIn(r) THEN ScoreOf(r, d) ELSE Absent
      BY <1>3, <2>1
    <3>2. CASE d \in DistrictsIn(r)
      <4>1. /\ ScoreOf(r, d) \in {Neutral} \cup Due(d)
            /\ ScoreOf(r, d) = Neutral => r \notin WithScores \/ unfinished
        BY <2>1, <3>2, UsableIsDue DEF ScoresInv
      <4>2. added'[r][d] = ScoreOf(r, d)
        BY <3>1, <3>2
      <4> QED BY <2>2, <3>2, <4>1, <4>2 DEF MayGuess, DistrictsIn
    <3>3. CASE d \notin DistrictsIn(r)
      BY <1>4, <3>1, <3>3
    <3> QED BY <3>2, <3>3
  <2>4. \A o \in Runs \ {r} : added'[o] = added[o]
    BY <1>3, <2>1
  <2> QED BY <1>2, <2>1, <2>3, <2>4
<1>7. ASSUME NEW r \in Runs, SeedDistricts(r) PROVE Fair /\ Priced
  <2>1. /\ districts' = districts
        /\ added' = [added EXCEPT ![r] =
             [d \in Districts |-> IF districts[d] = Absent THEN @[d] ELSE Absent]]
    BY <1>7 DEF SeedDistricts, InsertsNew, tables
  <2>2. \A d \in Districts : added'[r][d] \in {Absent, added[r][d]}
    BY <1>3, <2>1
  <2>3. \A o \in Runs \ {r} : added'[o] = added[o]
    BY <1>3, <2>1
  <2> QED BY <1>2, <1>4, <2>1, <2>2, <2>3
<1>8. ASSUME NEW r \in Runs, Commit(r) \/ Fail(r) PROVE Fair /\ Priced
  <2>1. added' = [added EXCEPT ![r] = Nothing]
    BY <1>8 DEF Commit, Fail
  <2>2. Fair
    <3>1. added'[r] = Nothing /\ \A o \in Runs \ {r} : added'[o] = added[o]
      BY <1>3, <2>1
    <3> QED BY <1>2, <1>4, <3>1
  <2>3. CASE Fail(r)
    BY <2>2, <2>3 DEF Fail, tables
  <2>4. CASE Commit(r)
    <3>1. stage'[r] = "committed"
      BY <1>3, <2>4 DEF Commit, Reach
    <3>2. \A d \in Districts :
            districts'[d] = IF added[r][d] # Absent THEN added[r][d] ELSE districts[d]
      BY <2>4 DEF Commit
    <3> QED BY <2>2, <3>1, <3>2
  <2> QED BY <1>8, <2>3, <2>4
<1>9. ASSUME NEW v \in AdminValues, AdminDistrict(v) PROVE Fair /\ Priced
  <2>1. PICK c \in Calibrated : districts' = [districts EXCEPT ![c] = v] /\ added' = added
    BY <1>9 DEF AdminDistrict
  <2>2. \A d \in Districts : districts'[d] = districts[d] \/ (d = c /\ districts'[d] = v)
    BY <1>3, <2>1
  <2> QED BY <1>2, <2>1, <2>2
<1>10. CASE \E r \in Runs : \/ SelectBaseRate(r) \/ SeedBaseRate(r) \/ SeedCreditTiers(r)
                            \/ SeedMappings(r)
  BY <1>5, <1>10 DEF SelectBaseRate, FoundRows, SeedBaseRate, SeedCreditTiers, SeedMappings,
                     tables
<1>11. CASE \E v \in AdminValues : AdminRate(v) \/ AdminTier(v)
  BY <1>5, <1>11 DEF AdminRate, AdminTier
<1> HIDE DEF Fair, Priced
<1> QED BY <1>6, <1>7, <1>8, <1>9, <1>10, <1>11 DEF SeederNext

\* Every step of the script, of the seeder or of administrators keeps both parts.
LEMMA ScoresStep ==
  ASSUME SeederInv, ScoresInv, [Next]_<<vars, scriptVars, history>>
  PROVE  ScoresInv'
<1>1. CASE ScriptNext /\ UNCHANGED seederVars /\ Remember
  <2>1. ScriptInv' /\ UNCHANGED labels
    BY <1>1, ScriptKeeps DEF ScoresInv
  <2>2. guessed' = guessed \cup {} /\ UNCHANGED <<stage, added, districts>>
    BY <1>1 DEF Remember, seederVars
  <2>3. \A r, d : MayGuess(r, d)' <=> MayGuess(r, d)
    BY <2>2 DEF MayGuess, DistrictsIn
  <2>4. PricesInv'
    BY <1>1, <2>1, <2>2, <2>3, ReasonsStay DEF ScoresInv, PricesInv
  <2> QED BY <2>1, <2>4 DEF ScoresInv
<1>2. CASE SeederNext /\ UNCHANGED scriptVars /\ Remember
  <2>1. UNCHANGED <<scores, script, input, labels>>
    BY <1>2, SeederKeepsFile DEF scriptVars
  <2>2. unfinished' = unfinished
    BY <1>2, <2>1 DEF Remember, ScoresInv, ScriptInv
  <2>3. ScriptInv'
    BY <1>2, <2>1, <2>2, FileStays DEF ScoresInv, ScriptInv
  <2>4. PricesInv'
    BY <1>2, <2>1, PricesKeep
  <2> QED BY <2>3, <2>4 DEF ScoresInv
<1>3. CASE UNCHANGED <<vars, scriptVars, history>>
  <2>1. UNCHANGED <<scores, script, input, labels, unfinished, guessed, stage, added, districts>>
    BY <1>3 DEF vars, scriptVars, history
  <2>2. ScriptInv'
    BY <2>1, FileStays DEF ScoresInv, ScriptInv
  <2>3. \A d : Due(d)' = Due(d)
    BY <2>1, OwedStays
  <2>4. PricesInv'
    BY <2>1, <2>3 DEF ScoresInv, PricesInv, PricedByItsCluster, NeutralOnlyIfUnfinished,
                      MayGuess, DistrictsIn
  <2> QED BY <2>2, <2>4 DEF ScoresInv
<1> QED BY <1>1, <1>2, <1>3 DEF Next

-----------------------------------------------------------------------------
(* The theorems.                                                           *)

\* What is known of the file and of the prices holds in every state.
THEOREM ScoresInvariance == Spec => []ScoresInv
<1>1. SeederInv /\ ScoresInv /\ [Next]_<<vars, scriptVars, history>> => ScoresInv'
  BY ScoresStep
<1> QED BY <1>1, ScoresInitially, SeederInvariance, PTL DEF Spec

\* The tables, the runs and the file have their types.
THEOREM BootstrapTyped == Spec => []TypeOK
<1>1. SeederInv /\ ScoresInv => TypeOK
  <2> SUFFICES ASSUME SeederInv, ScoresInv PROVE TypeOK
    OBVIOUS
  <2>1. ScriptTypeOK
    <3>1. \A d : Due(d) \subseteq {90, 105, 120}
      BY OwedType DEF Due
    <3>2. scores = NoFile \/ (/\ DOMAIN scores \subseteq Districts
                              /\ \A d \in DOMAIN scores :
                                   scores[d] \in {Unusable, 90, 100, 105, 120})
      BY <3>1 DEF ScoresInv, ScriptInv, Neutral
    <3> QED BY <3>2 DEF ScriptTypeOK, ScoresInv, ScriptInv
  <2>2. {"idle", "committed", "failed", "selected", "rate", "tiers", "read", "districts", "mappings"}
          \subseteq {"idle", "committed", "failed"} \cup {Stages[i] : i \in 1..6}
    <3>1. /\ Stages[1] = "selected" /\ Stages[2] = "rate" /\ Stages[3] = "tiers"
          /\ Stages[4] = "read" /\ Stages[5] = "districts" /\ Stages[6] = "mappings"
      BY DEF Stages
    <3> QED BY <3>1
  <2>3. stage \in [Runs -> {"idle", "committed", "failed"} \cup {Stages[i] : i \in 1..6}]
    BY <2>2 DEF SeederInv
  <2>4. \A r \in Runs : added[r] # Nothing => Past(r, "read")
    BY StagesReached DEF SeederInv, DistrictsInv, Held
  <2>5. unfinished \in BOOLEAN /\ guessed \subseteq Runs
    BY DEF ScoresInv, ScriptInv, PricesInv
  <2> QED BY <2>1, <2>3, <2>4, <2>5 DEF TypeOK, SeederTypeOK, SeederInv
<1> QED BY <1>1, SeederInvariance, ScoresInvariance, PTL

\* No file of scores, however it was cut off and whichever edition it was made
\* from, puts another multiplier into the configuration than the neutral one or
\* what a complete edition owes.
THEOREM PricesAreOwed == Spec => []PricedByItsCluster
<1>1. ScoresInv => PricedByItsCluster
  BY DEF ScoresInv, PricesInv
<1> QED BY <1>1, ScoresInvariance, PTL

\* A neutral multiplier is seeded for want of scores or of a finished file, and
\* for no other reason.
THEOREM GuessesAreExplained == Spec => []NeutralOnlyIfUnfinished
<1>1. ScoresInv => NeutralOnlyIfUnfinished
  BY DEF ScoresInv, PricesInv
<1> QED BY <1>1, ScoresInvariance, PTL
=============================================================================
