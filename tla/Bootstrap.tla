------------------------------ MODULE Bootstrap ------------------------------
(***************************************************************************)
(* The risk model's script and the runs of the seeder share one file, the  *)
(* district risk scores, with nothing that keeps one from reading it while *)
(* the other writes it, and nothing that tells a complete file from one    *)
(* whose writer was stopped.                                               *)
(***************************************************************************)
EXTENDS Seeder

VARIABLES
  unfinished,  \* history: the script has opened the file and not closed it since
  guessed      \* history: the runs that read the file of scores in that time

seederVars == <<base, tiers, districts, mapping, stage, row, added, met>>
history == <<unfinished, guessed>>

TypeOK == SeederTypeOK /\ ScriptTypeOK /\ unfinished \in BOOLEAN /\ guessed \subseteq Runs

Init == SeederInit /\ ScriptInit /\ unfinished = FALSE /\ guessed = {}

Remember ==
  /\ unfinished' = (script' = "writing" \/ (unfinished /\ script' # "done"))
  /\ guessed' = guessed \cup {r \in Runs : unfinished /\ stage[r] = "tiers" /\ stage'[r] = "read"}

Next ==
  /\ \/ ScriptNext /\ UNCHANGED seederVars
     \/ SeederNext /\ UNCHANGED scriptVars
  /\ Remember

Spec == Init /\ [][Next]_<<vars, scriptVars, history>>

-----------------------------------------------------------------------------
(* Properties.                                                             *)

\* The eastern boroughs, and all those k-means puts with d when it is given i.
Eastern == UNION {East[i] : i \in {i \in Inputs : Consistent(i)}}
With(i, d) == {e \in Districts : labels[i][e] = labels[i][d]}

\* The boroughs are as many as the script asks for, and lie in one state each,
\* whichever file they are read from.
ASSUME GeographyAssumption ==
  /\ IsFiniteSet(Districts) /\ Cardinality(Districts) = Expected
  /\ \A i, j \in Inputs :
       Consistent(i) /\ Consistent(j) => East[i] \cap Boroughs[j] = East[j] \cap Boroughs[i]

\* What the rule of the risk model means, in odds: three eastern boroughs to
\* two western ones make a cluster dear, two to three cheap.
Owed(i, d) ==
  LET east == Cardinality(With(i, d) \cap Eastern)
      west == Cardinality(With(i, d) \ Eastern)
  IN  IF 2 * east >= 3 * west THEN 120 ELSE IF 3 * east <= 2 * west THEN 90 ELSE 105

\* What d is owed under the editions of the places that the script accepts.
Due(d) == {Owed(i, d) : i \in {i \in Inputs : Accepted(i)}}

\* A multiplier that was seeded is the one its borough's cluster is owed over
\* the whole country, as some complete edition of the places clusters it, or
\* the neutral one: a file of scores made from half the boroughs, or cut off by
\* a writer that was stopped or is still writing, never puts another multiplier
\* into the configuration.
PricedByItsCluster ==
  \A d \in Districts :
    districts[d] \in {Absent, Neutral} \cup Due(d) \cup (IF d \in Calibrated THEN AdminValues ELSE {})

\* A borough is left with the neutral multiplier only by a run that was given no
\* scores, or that read the file while its writer was at work or after it had
\* been stopped: once a run of the script has ended well, neither one that
\* refuses its input nor one that is stopped before it writes makes a seeder
\* guess.
NeutralOnlyIfUnfinished ==
  \A d \in Districts :
    districts[d] = Neutral /\ ~(d \in Calibrated /\ Neutral \in AdminValues) =>
      \E r \in Runs : /\ stage[r] = "committed" /\ d \in DistrictsIn(r)
                      /\ r \notin WithScores \/ r \in guessed

=============================================================================
