------------------------------ MODULE RiskModel ------------------------------
(***************************************************************************)
(* scripts/risk_model computes a risk multiplier for every borough from a  *)
(* file of places and writes them to the file the seeder reads.  Boroughs  *)
(* are clustered by k-means, which is external: it is fitted to the places *)
(* and the order of each file, and any labelling may come of it; with its  *)
(* fixed seed, the same one whenever the script is run on the same file.   *)
(*                                                                         *)
(* Multipliers are in hundredths.  What is in the file after a write that  *)
(* was not completed is a beginning of what was to be written: the script  *)
(* opens the file itself and truncates it first.                           *)
(***************************************************************************)
EXTENDS Integers, Sequences, FiniteSets

CONSTANTS
  Districts,    \* the boroughs, REGION3
  Regions,      \* pairs of REGION1 and REGION2
  EastRegions,  \* those with a REGION1 in EAST_GERMAN_STATES
  Clusters,     \* range(N_CLUSTERS)
  Inputs,       \* the files of places the script is run on
  Labellings,   \* what k-means may give for all of them
  PlacesOf,     \* their rows
  Expected,     \* 383
  FlushedAt,    \* bound: how many rows there may be when a buffer is flushed
  NoFile        \* there is no file of scores

ASSUME RiskModelAssumption ==
  /\ Inputs # {} /\ EastRegions \subseteq Regions
  /\ Labellings \subseteq [Inputs -> [Districts -> Clusters]]
  /\ \A i \in Inputs : \A n \in DOMAIN PlacesOf[i] :
       PlacesOf[i][n].district \in Districts /\ PlacesOf[i][n].region \in Regions
  /\ Expected \in Nat \ {0}
  /\ FlushedAt \subseteq 1..Expected
  /\ \A S \in SUBSET Districts : NoFile \notin [S -> Nat]

VARIABLES
  scores,  \* district_risk_scores.csv: the multipliers of the boroughs in it
  script,  \* what the script, or its last run, is at
  input,   \* the file it last computed scores from
  labels   \* for each file, the cluster k-means puts each borough in

scriptVars == <<script, input, labels>>

\* A multiplier that was cut off on its way to the file, before its first
\* digit that is not 0: the seeder cannot read it, or the table refuses it.
Unusable == 0

ScriptTypeOK ==
  /\ scores = NoFile \/
       /\ DOMAIN scores \subseteq Districts
       /\ \A d \in DOMAIN scores : scores[d] \in {Unusable, 90, 100, 105, 120}
  /\ script \in {"idle", "computed", "writing", "done", "failed", "killed"}
  /\ input \in Inputs
  /\ labels \in Labellings

ScriptInit ==
  /\ scores = NoFile
  /\ script = "idle"
  /\ input = CHOOSE i \in Inputs : TRUE
  /\ labels \in Labellings

-----------------------------------------------------------------------------
(* What the script computes from file i.                                   *)

Boroughs == [i \in Inputs |-> {PlacesOf[i][n].district : n \in DOMAIN PlacesOf[i]}]

RegionsOf ==
  [i \in Inputs |-> [d \in Boroughs[i] |->
     {PlacesOf[i][n].region : n \in {n \in DOMAIN PlacesOf[i] : PlacesOf[i][n].district = d}}]]

\* ValueError: a borough that lies in two states or two regions.
Consistent(i) == \A d \in Boroughs[i] : Cardinality(RegionsOf[i][d]) = 1

East == [i \in Inputs |-> {d \in Boroughs[i] : RegionsOf[i][d] \cap EastRegions # {}}]

ClusterOf(i, d) == {e \in Boroughs[i] : labels[i][e] = labels[i][d]}

MULTIPLIER_SCALE == [east |-> 120, mixed |-> 105, west |-> 90]

\* Fault: strict thresholds.
ClassifyStrictly(east, all) ==
  CASE 10 * east > 6 * all -> "east" [] 10 * east < 4 * all -> "west" [] OTHER -> "mixed"

\* A cluster of all boroughs, of which east are eastern: at least 60 per cent
\* make it east, at most 40 west.
ClassifyCluster(east, all) ==
  CASE 10 * east >= 6 * all -> "east" [] 10 * east <= 4 * all -> "west" [] OTHER -> "mixed"

Score(i, d) ==
  LET cluster == ClusterOf(i, d)
  IN  MULTIPLIER_SCALE[ClassifyCluster(Cardinality(cluster \cap East[i]), Cardinality(cluster))]

\* The first n boroughs in the order of their first rows, in which they are
\* written.
FirstBoroughs(i, n) ==
  {PlacesOf[i][m].district : m \in
     {m \in DOMAIN PlacesOf[i] : Cardinality({PlacesOf[i][k].district : k \in 1..m}) <= n}}

\* "1.20" may end as "1.2", "1." or "1", "0.90" as "0.9", "0." or "0", and
\* either before it has begun.
CutShort(v) == {v, Unusable} \cup (IF v > 100 THEN {100} ELSE {})

-----------------------------------------------------------------------------
(* A run of the script.                                                    *)

\* Fault: the number of boroughs is not checked.
AcceptedShort(i) == Consistent(i) /\ Cardinality(Boroughs[i]) >= Cardinality(Clusters)

\* Neither the loading nor k-means, which refuses to make more clusters than
\* there are boroughs, nor the postconditions end the script.
Accepted(i) ==
  /\ Consistent(i)
  /\ Cardinality(Boroughs[i]) >= Cardinality(Clusters) /\ Cardinality(Boroughs[i]) = Expected

MayRun == script \notin {"computed", "writing"}

Compute(i) ==
  /\ MayRun /\ Accepted(i)
  /\ script' = "computed" /\ input' = i
  /\ UNCHANGED <<scores, labels>>

EmptyFile == [d \in {} |-> Unusable]

Refusal(i) == MayRun /\ ~Accepted(i) /\ script' = "failed" /\ UNCHANGED <<input, labels>>

\* Fault: the file is opened before the postconditions are checked.
RefuseLate(i) == Refusal(i) /\ scores' = EmptyFile

Refuse(i) == Refusal(i) /\ UNCHANGED scores

\* to_csv opens the file for writing.
OpenOutput ==
  /\ script = "computed" /\ script' = "writing"
  /\ scores' = EmptyFile
  /\ UNCHANGED <<input, labels>>

\* A buffer goes to the file; the last row in it may be cut.
Flush ==
  /\ script = "writing"
  /\ \E n \in FlushedAt :
       /\ Cardinality(DOMAIN scores) < n
       /\ \E last \in FirstBoroughs(input, n) \ FirstBoroughs(input, n - 1) :
          \E v \in CutShort(Score(input, last)) :
            scores' = [d \in FirstBoroughs(input, n) |-> IF d = last THEN v ELSE Score(input, d)]
  /\ UNCHANGED scriptVars

Close ==
  /\ script = "writing" /\ script' = "done"
  /\ scores' = [d \in Boroughs[input] |-> Score(input, d)]
  /\ UNCHANGED <<input, labels>>

\* The process ends, or the disk is full.
Kill ==
  /\ script \in {"computed", "writing"} /\ script' = "killed"
  /\ UNCHANGED <<scores, input, labels>>

ScriptNext == (\E i \in Inputs : Compute(i) \/ Refuse(i)) \/ OpenOutput \/ Flush \/ Close \/ Kill

=============================================================================
