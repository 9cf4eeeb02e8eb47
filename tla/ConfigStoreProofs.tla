------------------------- MODULE ConfigStoreProofs -------------------------
(***************************************************************************)
(* Theorems about ConfigStore, for any rows, values, writers and readers,  *)
(* whatever the requests ask for.                                          *)
(***************************************************************************)
EXTENDS ConfigStore, TLAPS

-----------------------------------------------------------------------------
(* Requests.                                                               *)

\* What a request may ask for.
LEMMA OpType ==
  ASSUME NEW o \in Ops
  PROVE  /\ o.value \in Values /\ o.value # Absent
         /\ o.kind \in {"putBase", "putTier", "postTier", "putDistrict", "putRegion"}
         /\ o.kind = "putBase" => o.target = BaseRow
         /\ o.kind \in {"putTier", "postTier"} => o.target \in Tiers
         /\ o.kind = "putDistrict" => o.target \in Districts
         /\ o.kind # "putRegion" => o.target \in Rows
  BY ConfigAssumption DEF Ops, Rows

Present(r) == store[r] # Absent

WriterTypes ==
  /\ store \in [Rows -> Values \cup {Absent}]
  /\ phase \in [Writers -> {"new", "arrived", "writing", "answered", "committed",
                            "refused", "failed", "lost"}]
  /\ op \in [Writers -> Ops \cup {Absent}]
  /\ \A w \in Writers : phase[w] # "new" => op[w] \in OpsOf[w]
  /\ todo \in [Writers -> SUBSET Rows]
  /\ wrote \in [Writers -> SUBSET Rows]
  /\ skipped \subseteq Writers

\* What a request finds.
LEMMA FoundType ==
  ASSUME NEW o \in Ops
  PROVE  /\ Found(o) \subseteq Rows
         /\ o.kind # "putRegion" => Found(o) = {r \in {o.target} : Present(r)}
         /\ o.kind = "putRegion" =>
              Found(o) = {d \in Districts : RegionOf[d] = o.target /\ Present(d)}
<1>1. Districts \subseteq Rows
  BY DEF Rows
<1> QED BY <1>1, OpType DEF Found, Present

\* Requests keep to the rows and the values there are.
LEMMA WriterTypesStep ==
  ASSUME WriterTypes, [Next]_vars
  PROVE  WriterTypes'
<1>1. ASSUME NEW w \in Writers, Arrive(w) PROVE WriterTypes'
  <2>1. \A o \in OpsOf[w] : o \in Ops
    BY ConfigAssumption
  <2> QED BY <1>1, <2>1 DEF Arrive, WriterTypes
<1>2. ASSUME NEW w \in Writers, Lookup(w) PROVE WriterTypes'
  <2>1. op[w] \in Ops
    BY <1>2, ConfigAssumption DEF Lookup, Targets, WriterTypes
  <2>2. {op[w].target} \subseteq Rows \/ op[w].kind # "postTier"
    BY <2>1, OpType
  <2>3. Found(op[w]) \subseteq Rows
    BY <2>1, FoundType
  <2> QED BY <1>2, <2>2, <2>3 DEF Lookup, Targets, WriterTypes
<1>3. ASSUME NEW w \in Writers, NEW r \in Rows, WriteRow(w, r) PROVE WriterTypes'
  BY <1>3 DEF WriteRow, WriterTypes
<1>4. ASSUME NEW w \in Writers, SkipUnchanged(w) PROVE WriterTypes'
  BY <1>4 DEF SkipUnchanged, WriterTypes
<1>5. ASSUME NEW w \in Writers, Respond(w) PROVE WriterTypes'
  BY <1>5 DEF Respond, AllWritten, WriterTypes
<1>6. ASSUME NEW w \in Writers, Commit(w) PROVE WriterTypes'
  <2>1. op[w] \in Ops
    BY <1>6, ConfigAssumption DEF Commit, ReleaseLocks, WriterTypes
  <2>2. op[w].value \in Values
    BY <2>1, OpType
  <2>3. store' \in [Rows -> Values \cup {Absent}]
    BY <1>6, <2>2 DEF Commit, ReleaseLocks, WriterTypes
  <2> QED BY <1>6, <2>3 DEF Commit, ReleaseLocks, WriterTypes
<1>7. ASSUME NEW w \in Writers, Rollback(w) \/ DeadlockAbort(w) PROVE WriterTypes'
  BY <1>7 DEF DeadlockAbort, Rollback, ReleaseLocks, WriterTypes
<1>8. CASE UNCHANGED <<store, writerVars>>
  BY <1>8 DEF WriterTypes, writerVars
<1>9. ASSUME NEW q \in Readers, ReaderNext(q) PROVE UNCHANGED <<store, writerVars>>
  BY <1>9 DEF ReaderNext, ReadMapping, ReadBase, ReadTier, ReadDistrict, GetSystemConfig,
              ListCreditTiers, ListDistricts, GetDistrict, AnswerOne, AnswerList, Begin,
              Read
<1>10. CASE UNCHANGED vars
  BY <1>8, <1>10 DEF vars
<1> QED
  BY <1>1, <1>2, <1>3, <1>4, <1>5, <1>6, <1>7, <1>8, <1>9, <1>10 DEF Next, WriterNext

-----------------------------------------------------------------------------
(* Readers.  What is committed when a reader runs is what it has seen last. *)

ReaderInv ==
  /\ pc \in [Readers -> {"new", "base", "tier", "district", "priced", "getting", "listing",
                         "listed", "refused"}]
  /\ scope \in [Readers -> SUBSET Rows]
  /\ DOMAIN used = Readers /\ DOMAIN seen = Readers
  /\ \A q \in Readers :
       /\ \A s \in seen[q] : s \in [scope[q] -> Values \cup {Absent}]
       /\ Running(q) => View(store, scope[q]) \in seen[q]
       /\ used[q] \in [DOMAIN used[q] -> Values \cup {Absent}]
       /\ \A r \in DOMAIN used[q] :
            r \in scope[q] /\ \E s \in seen[q] : used[q][r] = s[r]
       /\ pc[q] \in {"new", "base", "getting", "listing"} => DOMAIN used[q] = {}
       /\ pc[q] \in {"base", "tier", "district", "priced"} =>
            scope[q] = {BaseRow, TierOf[q], DistrictOf[q]}
       /\ pc[q] = "tier" => DOMAIN used[q] = {BaseRow}
       /\ pc[q] = "district" => DOMAIN used[q] = {BaseRow, TierOf[q]}
       /\ pc[q] = "priced" => DOMAIN used[q] = scope[q]
       /\ pc[q] = "getting" => \E r \in Rows : scope[q] = {r}
       /\ pc[q] = "listed" => used[q] \in seen[q]

ReadsInv == WriterTypes /\ ReaderInv

\* Nobody has read anything.
LEMMA ReadsInitially == Init => ReadsInv
<1> SUFFICES ASSUME Init PROVE ReadsInv
  OBVIOUS
<1>1. WriterTypes
  BY ConfigAssumption DEF Init, WriterTypes
<1>2. ASSUME NEW q \in Readers
      PROVE  /\ used[q] = [r \in {} |-> Absent] /\ seen[q] = {} /\ pc[q] = "new"
             /\ DOMAIN used[q] = {}
  BY DEF Init
<1>3. ReaderInv
  BY <1>2 DEF Init, ReaderInv, Running
<1> QED BY <1>1, <1>3 DEF ReadsInv

\* A writer that commits shows what it has written to every reader that runs.
LEMMA WriterKeepsReads ==
  ASSUME ReadsInv, NEW w \in Writers, WriterNext(w)
  PROVE  ReaderInv'
<1>1. CASE Commit(w)
  <2>1. /\ seen' = [q \in Readers |-> IF Running(q) THEN seen[q] \cup {View(store', scope[q])}
                                                    ELSE seen[q]]
        /\ UNCHANGED <<pc, scope, used>>
    BY <1>1 DEF Commit, ReleaseLocks
  <2>2. store' \in [Rows -> Values \cup {Absent}]
    BY <1>1, WriterTypesStep DEF ReadsInv, WriterTypes, Next, WriterNext
  <2>3. \A q \in Readers : View(store', scope[q]) \in [scope[q] -> Values \cup {Absent}]
    BY <2>2 DEF View, ReadsInv, ReaderInv
  <2>4. \A q \in Readers : Running(q)' <=> Running(q)
    BY <2>1 DEF Running
  <2>5. \A q \in Readers :
          /\ seen[q] \subseteq seen'[q]
          /\ seen'[q] \subseteq seen[q] \cup {View(store', scope[q])}
          /\ Running(q) => View(store', scope[q]) \in seen'[q]
    BY <2>1
  <2>6. DOMAIN seen' = Readers
    BY <2>1
  <2> QED BY <2>1, <2>3, <2>4, <2>5, <2>6 DEF ReadsInv, ReaderInv
<1>2. CASE UNCHANGED <<store, readerVars>>
  BY <1>2 DEF ReadsInv, ReaderInv, readerVars, Running, View
<1> QED
  BY <1>1, <1>2 DEF WriterNext, Arrive, Lookup, Targets, WriteRow, SkipUnchanged, Respond,
                    AllWritten, Rollback, ReleaseLocks, DeadlockAbort

\* A reader that begins sees what is committed at that moment.
LEMMA BeginKeeps ==
  ASSUME ReadsInv, NEW q \in Readers, NEW rows \in SUBSET Rows,
         NEW at \in {"base", "getting", "listing"}, Begin(q, at, rows),
         at = "base" => rows = {BaseRow, TierOf[q], DistrictOf[q]},
         at = "getting" => \E r \in Rows : rows = {r}
  PROVE  ReaderInv'
<1>1. /\ pc[q] = "new" /\ pc' = [pc EXCEPT ![q] = at] /\ scope' = [scope EXCEPT ![q] = rows]
      /\ seen' = [seen EXCEPT ![q] = {View(store, rows)}]
      /\ UNCHANGED <<store, used>>
  BY DEF Begin
<1>2. View(store, rows) \in [rows -> Values \cup {Absent}]
  BY DEF ReadsInv, WriterTypes, View
<1>3. /\ pc'[q] = at /\ scope'[q] = rows /\ seen'[q] = {View(store, rows)}
      /\ \A p \in Readers \ {q} : pc'[p] = pc[p] /\ scope'[p] = scope[p] /\ seen'[p] = seen[p]
      /\ pc' \in [Readers -> {"new", "base", "tier", "district", "priced", "getting", "listing",
                              "listed", "refused"}]
      /\ scope' \in [Readers -> SUBSET Rows] /\ DOMAIN seen' = Readers
  BY <1>1 DEF ReadsInv, ReaderInv
<1>4. \A p \in Readers \ {q} : Running(p)' <=> Running(p)
  BY <1>3 DEF Running
<1>5. DOMAIN used[q] = {}
  BY <1>1 DEF ReadsInv, ReaderInv
<1> QED BY <1>1, <1>2, <1>3, <1>4, <1>5 DEF ReadsInv, ReaderInv

\* A SELECT gives what is committed, which the reader has seen.
LEMMA SelectKeeps ==
  ASSUME ReadsInv, NEW q \in Readers, NEW rows \in SUBSET scope[q], Select(q, rows),
         Running(q), NEW next, pc' = [pc EXCEPT ![q] = next],
         UNCHANGED <<store, scope, seen>>,
         next \in {"tier", "district", "priced", "listed", "refused"},
         next = "tier" => pc[q] = "base" /\ rows = {BaseRow},
         next = "district" => pc[q] = "tier" /\ rows = {TierOf[q]},
         next = "priced" => pc[q] = "district" /\ rows = {DistrictOf[q]},
         next = "listed" => pc[q] \in {"getting", "listing"} /\ rows = scope[q]
  PROVE  ReaderInv'
<1> DEFINE f == [r \in DOMAIN used[q] \cup rows |-> IF r \in rows THEN store[r] ELSE used[q][r]]
<1>1. used' = [used EXCEPT ![q] = f]
  BY DEF Select, Visible
<1>2. /\ DOMAIN f = DOMAIN used[q] \cup rows
      /\ \A r \in rows : f[r] = View(store, scope[q])[r]
      /\ \A r \in DOMAIN used[q] : r \notin rows => f[r] = used[q][r]
      /\ next = "listed" => f = View(store, scope[q])
  BY DEF View, ReadsInv, ReaderInv
<1>3. f \in [DOMAIN f -> Values \cup {Absent}]
  BY DEF ReadsInv, ReaderInv, WriterTypes
<1>4. View(store, scope[q]) \in seen[q]
  BY DEF ReadsInv, ReaderInv
<1> HIDE DEF f
<1>5. /\ pc'[q] = next /\ used'[q] = f /\ DOMAIN used' = Readers
      /\ \A p \in Readers \ {q} : pc'[p] = pc[p] /\ used'[p] = used[p]
      /\ pc' \in [Readers -> {"new", "base", "tier", "district", "priced", "getting", "listing",
                              "listed", "refused"}]
  BY <1>1 DEF ReadsInv, ReaderInv
<1>6. \A p \in Readers \ {q} : Running(p)' <=> Running(p)
  BY <1>5 DEF Running
<1>7. \A r \in DOMAIN f : r \in scope[q] /\ \E s \in seen[q] : f[r] = s[r]
  BY <1>2, <1>4 DEF ReadsInv, ReaderInv
<1>8. /\ next = "tier" => DOMAIN f = {BaseRow}
      /\ next = "district" => DOMAIN f = {BaseRow, TierOf[q]}
      /\ next = "priced" => DOMAIN f = scope[q]
      /\ next \in {"tier", "district", "priced"} => scope[q] = {BaseRow, TierOf[q], DistrictOf[q]}
  BY <1>2 DEF ReadsInv, ReaderInv
<1>9. ASSUME NEW p \in Readers \ {q}
      PROVE  /\ \A s \in seen'[p] : s \in [scope'[p] -> Values \cup {Absent}]
             /\ Running(p)' => View(store', scope'[p]) \in seen'[p]
             /\ used'[p] \in [DOMAIN used'[p] -> Values \cup {Absent}]
             /\ \A r \in DOMAIN used'[p] :
                  r \in scope'[p] /\ \E s \in seen'[p] : used'[p][r] = s[r]
             /\ pc'[p] \in {"new", "base", "getting", "listing"} => DOMAIN used'[p] = {}
             /\ pc'[p] \in {"base", "tier", "district", "priced"} =>
                  scope'[p] = {BaseRow, TierOf[p], DistrictOf[p]}
             /\ pc'[p] = "tier" => DOMAIN used'[p] = {BaseRow}
             /\ pc'[p] = "district" => DOMAIN used'[p] = {BaseRow, TierOf[p]}
             /\ pc'[p] = "priced" => DOMAIN used'[p] = scope'[p]
             /\ pc'[p] = "getting" => \E r \in Rows : scope'[p] = {r}
             /\ pc'[p] = "listed" => used'[p] \in seen'[p]
  BY <1>5, <1>6 DEF ReadsInv, ReaderInv
<1> QED BY <1>2, <1>3, <1>4, <1>5, <1>7, <1>8, <1>9 DEF ReadsInv, ReaderInv

\* A SELECT of one row.
LEMMA ReadKeeps ==
  ASSUME ReadsInv, NEW q \in Readers, NEW r \in scope[q], NEW at, NEW next, Read(q, at, r, next),
         \/ at = "base" /\ r = BaseRow /\ next = "tier"
         \/ at = "tier" /\ r = TierOf[q] /\ next = "district"
         \/ at = "district" /\ r = DistrictOf[q] /\ next = "priced"
         \/ at = "getting" /\ scope[q] = {r} /\ next = "listed"
  PROVE  ReaderInv'
<1> DEFINE n == IF used'[q][r] = Absent THEN "refused" ELSE next
<1>1. /\ pc[q] = at /\ Select(q, {r}) /\ pc' = [pc EXCEPT ![q] = n]
      /\ UNCHANGED <<store, scope, seen>>
  BY DEF Read
<1>2. n = "refused" \/ n = next
  OBVIOUS
<1> HIDE DEF n
<1>3. Running(q)
  BY <1>1 DEF Running
<1>4. /\ {r} \in SUBSET scope[q]
      /\ n \in {"tier", "district", "priced", "listed", "refused"}
      /\ n = "tier" => pc[q] = "base" /\ {r} = {BaseRow}
      /\ n = "district" => pc[q] = "tier" /\ {r} = {TierOf[q]}
      /\ n = "priced" => pc[q] = "district" /\ {r} = {DistrictOf[q]}
      /\ n = "listed" => pc[q] \in {"getting", "listing"} /\ {r} = scope[q]
  BY <1>1, <1>2
<1> QED BY <1>1, <1>3, <1>4, SelectKeeps

\* Every step keeps what is known of the readers.
LEMMA ReadsStep ==
  ASSUME ReadsInv, [Next]_vars
  PROVE  ReadsInv'
<1>1. WriterTypes'
  BY WriterTypesStep DEF ReadsInv
<1>2. ASSUME NEW q \in Readers, ReaderNext(q) PROVE ReaderInv'
  <2>1. {BaseRow, TierOf[q], DistrictOf[q]} \in SUBSET Rows /\ Tiers \in SUBSET Rows
        /\ Districts \in SUBSET Rows /\ BaseRow \in Rows
    BY ConfigAssumption DEF Rows
  <2>2. CASE ReadMapping(q)
    BY <2>1, <2>2, BeginKeeps DEF ReadMapping
  <2>3. CASE ReadBase(q)
    <3>1. BaseRow \in scope[q]
      BY <2>3 DEF ReadBase, Read, ReadsInv, ReaderInv
    <3> QED BY <2>3, <3>1, ReadKeeps DEF ReadBase
  <2>4. CASE ReadTier(q)
    <3>1. TierOf[q] \in scope[q]
      BY <2>4 DEF ReadTier, Read, ReadsInv, ReaderInv
    <3> QED BY <2>4, <3>1, ReadKeeps DEF ReadTier
  <2>5. CASE ReadDistrict(q)
    <3>1. DistrictOf[q] \in scope[q]
      BY <2>5 DEF ReadDistrict, Read, ReadsInv, ReaderInv
    <3> QED BY <2>5, <3>1, ReadKeeps DEF ReadDistrict
  <2>6. CASE GetSystemConfig(q)
    BY <2>1, <2>6, BeginKeeps DEF GetSystemConfig
  <2>7. CASE ListCreditTiers(q)
    BY <2>1, <2>7, BeginKeeps DEF ListCreditTiers
  <2>8. CASE ListDistricts(q)
    <3>1. PICK page \in Pages : Begin(q, "listing", page)
      BY <2>8 DEF ListDistricts
    <3>2. page \in SUBSET Rows
      BY <2>1, ConfigAssumption
    <3> QED BY <3>1, <3>2, BeginKeeps
  <2>9. CASE GetDistrict(q)
    <3>1. PICK d \in Districts : Begin(q, "getting", {d})
      BY <2>9 DEF GetDistrict
    <3>2. d \in Rows /\ {d} \in SUBSET Rows
      BY <2>1
    <3> QED BY <3>1, <3>2, BeginKeeps
  <2>10. CASE AnswerOne(q)
    <3>1. PICK r \in scope[q] : Read(q, "getting", r, "listed")
      BY <2>10 DEF AnswerOne
    <3>2. scope[q] = {r}
      BY <3>1 DEF Read, ReadsInv, ReaderInv
    <3> QED BY <3>1, <3>2, ReadKeeps
  <2>11. CASE AnswerList(q)
    <3>1. /\ pc[q] = "listing" /\ Select(q, scope[q]) /\ pc' = [pc EXCEPT ![q] = "listed"]
          /\ UNCHANGED <<store, scope, seen>>
      BY <2>11 DEF AnswerList
    <3>2. Running(q) /\ scope[q] \in SUBSET scope[q]
      BY <3>1 DEF Running
    <3> QED BY <3>1, <3>2, SelectKeeps
  <2> QED
    BY <1>2, <2>2, <2>3, <2>4, <2>5, <2>6, <2>7, <2>8, <2>9, <2>10, <2>11 DEF ReaderNext
<1>3. CASE UNCHANGED vars
  BY <1>1, <1>3 DEF ReadsInv, ReaderInv, vars, readerVars, Running, View
<1> QED BY <1>1, <1>2, <1>3, WriterKeepsReads DEF ReadsInv, Next

\* What is known of readers and requests holds in every state.
THEOREM ReadsInvariance == Spec => []ReadsInv
  BY ReadsInitially, ReadsStep, PTL DEF Spec

\* The variables have their types.
THEOREM TypeCorrect == Spec => []TypeOK
<1>1. ReadsInv => TypeOK
  <2> SUFFICES ASSUME ReadsInv PROVE TypeOK
    OBVIOUS
  <2>1. \A q \in Readers : DOMAIN used[q] \subseteq scope[q]
    BY DEF ReadsInv, ReaderInv
  <2> QED BY <2>1 DEF ReadsInv, WriterTypes, ReaderInv, TypeOK
<1> QED BY <1>1, ReadsInvariance, PTL

\* Prices are made of committed values, and lists are of one moment.
THEOREM ReadsAreCommitted == Spec => []ReadFromCommitted
<1>1. ReadsInv => ReadFromCommitted
  BY DEF ReadsInv, ReaderInv, ReadFromCommitted
<1> QED BY <1>1, ReadsInvariance, PTL

-----------------------------------------------------------------------------
(* Refinement.  What a request will do when it commits is known as soon as *)
(* it has found its rows: rows of the base rate and of districts neither   *)
(* come nor go, and a tier that a request creates is created by no other.  *)

\* No two writers may create the same tier; CreatedOnce shows why it is needed.
CreatorsDiffer ==
  \A v, w \in Writers : \A o \in OpsOf[v], p \in OpsOf[w] :
    o.kind = "postTier" /\ p.kind = "postTier" /\ o.target = p.target => v = w

InTransaction(w) == phase[w] \in {"writing", "answered"}

WriterInv ==
  /\ WriterTypes
  /\ \A w \in Writers :
       /\ ~InTransaction(w) => todo[w] = {} /\ wrote[w] = {}
       /\ phase[w] \in {"new", "arrived", "refused"} => w \notin skipped
       /\ phase[w] = "answered" => todo[w] = {}
       /\ todo[w] \cap wrote[w] = {}
       /\ InTransaction(w) /\ w \in skipped => todo[w] = {} /\ wrote[w] = {}
       /\ InTransaction(w) => AC!Allowed(op[w])
       /\ InTransaction(w) /\ w \notin skipped => todo[w] \cup wrote[w] = AC!Scope(op[w])

\* Nobody has written anything.
LEMMA WritersInitially == Init => WriterInv
<1> SUFFICES ASSUME Init PROVE WriterInv
  OBVIOUS
<1>1. WriterTypes
  BY ConfigAssumption DEF Init, WriterTypes
<1>2. \A w \in Writers : phase[w] = "new" /\ todo[w] = {} /\ wrote[w] = {} /\ w \notin skipped
  BY DEF Init
<1> QED BY <1>1, <1>2 DEF WriterInv, InTransaction

\* Steps that commit nothing leave alone what requests may do, and to what rows.
LEMMA ScopesStay ==
  ASSUME UNCHANGED store
  PROVE  \A o : AC!Scope(o)' = AC!Scope(o) /\ (AC!Allowed(o)' <=> AC!Allowed(o))
  BY DEF AC!Scope, AC!Allowed

\* The rows a request has found are the ones it is to set.
LEMMA LookupKeeps ==
  ASSUME WriterInv, NEW w \in Writers, Lookup(w)
  PROVE  WriterInv'
<1>1. /\ phase[w] = "arrived"
      /\ UNCHANGED <<store, op, wrote, skipped>>
  BY DEF Lookup, Targets
<1>2. op[w] \in Ops
  BY <1>1, ConfigAssumption DEF WriterInv, WriterTypes
<1>3. WriterTypes'
  BY WriterTypesStep DEF WriterInv, Next, WriterNext
<1>4. CASE Refused(op[w])
  <2>1. phase' = [phase EXCEPT ![w] = "refused"] /\ todo' = todo
    BY <1>4 DEF Lookup, Targets
  <2> QED BY <1>1, <1>3, <2>1, ScopesStay DEF WriterInv, WriterTypes, InTransaction
<1>5. CASE ~Refused(op[w])
  <2> DEFINE rows == IF op[w].kind = "postTier" THEN {op[w].target} ELSE Found(op[w])
  <2>1. phase' = [phase EXCEPT ![w] = "writing"] /\ todo' = [todo EXCEPT ![w] = rows]
    BY <1>5 DEF Lookup, Targets
  <2>2. rows = AC!Scope(op[w]) /\ AC!Allowed(op[w])
    <3>1. CASE op[w].kind = "putRegion"
      BY <1>2, <1>5, <3>1, FoundType DEF Refused, AC!Scope, AC!Allowed, Present
    <3>2. CASE op[w].kind = "postTier"
      BY <1>2, <1>5, <3>2, FoundType DEF Refused, AC!Scope, AC!Allowed, Present
    <3>3. CASE op[w].kind \notin {"putRegion", "postTier"}
      BY <1>2, <1>5, <3>3, FoundType DEF Refused, AC!Scope, AC!Allowed, Present
    <3> QED BY <3>1, <3>2, <3>3
  <2> HIDE DEF rows
  <2>3. wrote[w] = {} /\ w \notin skipped
    BY <1>1 DEF WriterInv, InTransaction
  <2>4. /\ phase'[w] = "writing" /\ todo'[w] = rows /\ wrote'[w] = {} /\ op'[w] = op[w]
        /\ \A v \in Writers \ {w} : phase'[v] = phase[v] /\ todo'[v] = todo[v]
    BY <1>1, <2>1, <2>3 DEF WriterInv, WriterTypes
  <2> QED BY <1>1, <1>3, <2>2, <2>3, <2>4, ScopesStay DEF WriterInv, InTransaction
<1> QED BY <1>4, <1>5

\* Rows that are written were to be written; a base rate that was skipped was
\* the only one.
LEMMA WriteKeeps ==
  ASSUME WriterInv, NEW w \in Writers,
         \/ \E r \in Rows : WriteRow(w, r)
         \/ SkipUnchanged(w) \/ Respond(w) \/ Rollback(w)
  PROVE  WriterInv'
<1>1. WriterTypes' /\ UNCHANGED <<store, op>> /\ InTransaction(w)
  BY WriterTypesStep DEF WriterInv, Next, WriterNext, WriteRow, SkipUnchanged, Respond,
                         AllWritten, Rollback, ReleaseLocks, InTransaction
<1>2. ASSUME NEW r \in Rows, WriteRow(w, r) PROVE WriterInv'
  <2>1. /\ phase[w] = "writing" /\ r \in todo[w]
        /\ wrote'[w] = wrote[w] \cup {r} /\ todo'[w] = todo[w] \ {r}
        /\ \A v \in Writers \ {w} : wrote'[v] = wrote[v] /\ todo'[v] = todo[v]
        /\ UNCHANGED <<phase, skipped>>
    BY <1>2 DEF WriteRow, WriterInv, WriterTypes
  <2>2. w \notin skipped
    BY <1>1, <2>1 DEF WriterInv
  <2>3. /\ todo'[w] \cup wrote'[w] = todo[w] \cup wrote[w]
        /\ todo[w] \cap wrote[w] = {} => todo'[w] \cap wrote'[w] = {}
    BY <2>1
  <2> QED BY <1>1, <2>1, <2>2, <2>3, ScopesStay DEF WriterInv, InTransaction
<1>3. CASE SkipUnchanged(w)
  <2>1. /\ op[w].kind = "putBase" /\ BaseRow \in todo[w]
        /\ phase[w] = "writing" /\ todo'[w] = {}
        /\ \A v \in Writers \ {w} : todo'[v] = todo[v]
        /\ skipped' = skipped \cup {w} /\ UNCHANGED <<phase, wrote>>
    BY <1>3 DEF SkipUnchanged, WriterInv, WriterTypes
  <2>2. op[w] \in Ops
    BY <2>1, ConfigAssumption DEF WriterInv, WriterTypes
  <2>3. w \notin skipped /\ todo[w] \cup wrote[w] = {BaseRow}
    BY <1>1, <2>1, <2>2, OpType DEF WriterInv, AC!Scope
  <2>4. wrote[w] = {}
    BY <2>1, <2>3 DEF WriterInv
  <2> QED BY <1>1, <2>1, <2>4, ScopesStay DEF WriterInv, InTransaction
<1>4. CASE Respond(w)
  <2>1. /\ phase[w] = "writing" /\ phase'[w] = "answered" /\ todo[w] = {}
        /\ \A v \in Writers \ {w} : phase'[v] = phase[v]
        /\ UNCHANGED <<todo, wrote, skipped>>
    BY <1>4 DEF Respond, AllWritten, WriterInv, WriterTypes
  <2> QED BY <1>1, <2>1, ScopesStay DEF WriterInv, InTransaction
<1>5. CASE Rollback(w)
  <2>1. /\ phase'[w] \in {"lost", "failed"} /\ todo'[w] = {} /\ wrote'[w] = {}
        /\ \A v \in Writers \ {w} :
             phase'[v] = phase[v] /\ todo'[v] = todo[v] /\ wrote'[v] = wrote[v]
        /\ UNCHANGED skipped
    BY <1>5 DEF Rollback, ReleaseLocks, WriterInv, WriterTypes
  <2> QED BY <1>1, <2>1, ScopesStay DEF WriterInv, InTransaction
<1> QED BY <1>2, <1>3, <1>4, <1>5

\* What a request writes was there, but for a tier it creates.
LEMMA WrittenWasThere ==
  ASSUME WriterInv, NEW w \in Writers, NEW r \in wrote[w]
  PROVE  /\ InTransaction(w) /\ w \notin skipped /\ op[w] \in Ops /\ r \in AC!Scope(op[w])
         /\ \/ op[w].kind = "postTier" /\ r = op[w].target /\ r \in Tiers /\ ~Present(r)
            \/ op[w].kind # "postTier" /\ Present(r)
<1>1. InTransaction(w) /\ w \notin skipped
  BY DEF WriterInv
<1>2. op[w] \in Ops /\ AC!Allowed(op[w]) /\ r \in AC!Scope(op[w])
  BY <1>1, ConfigAssumption DEF WriterInv, WriterTypes, InTransaction
<1>3. CASE op[w].kind = "postTier"
  BY <1>1, <1>2, <1>3, OpType DEF AC!Scope, AC!Allowed, Present
<1>4. CASE op[w].kind # "postTier"
  BY <1>1, <1>2, <1>4 DEF AC!Scope, AC!Allowed, Present
<1> QED BY <1>1, <1>2, <1>3, <1>4

\* A request that commits takes no row away from another, and gives it none.
LEMMA CommitKeeps ==
  ASSUME WriterInv, CreatorsDiffer, NEW w \in Writers, Commit(w)
  PROVE  WriterInv'
<1>1. /\ phase[w] = "answered" /\ phase'[w] = "committed" /\ wrote'[w] = {} /\ todo[w] = {}
      /\ store' = [r \in Rows |-> IF r \in wrote[w] THEN op[w].value ELSE store[r]]
      /\ \A v \in Writers \ {w} : phase'[v] = phase[v] /\ wrote'[v] = wrote[v]
      /\ UNCHANGED <<op, todo, skipped>>
  BY DEF Commit, ReleaseLocks, WriterInv, WriterTypes
<1>2. op[w] \in Ops /\ op[w].value # Absent
  BY <1>1, ConfigAssumption, OpType DEF WriterInv, WriterTypes
<1>3. WriterTypes'
  BY WriterTypesStep DEF WriterInv, Next, WriterNext
<1>4. \A r \in Rows : store'[r] # Absent <=> Present(r) \/ r \in wrote[w]
  BY <1>1, <1>2 DEF Present
<1>5. \A d \in Districts : store'[d] # Absent <=> Present(d)
  <2>1. \A d \in Districts : d \in Rows /\ d \notin Tiers
    BY ConfigAssumption DEF Rows
  <2> QED BY <1>4, <2>1, WrittenWasThere
<1>6. \A o : AC!Scope(o)' = AC!Scope(o)
  BY <1>5 DEF AC!Scope, Present
<1>7. ASSUME NEW v \in Writers \ {w}, InTransaction(v)
      PROVE  AC!Allowed(op[v])'
  <2>1. op[v] \in Ops /\ op[v] \in OpsOf[v] /\ op[w] \in OpsOf[w] /\ AC!Allowed(op[v])
    BY <1>1, <1>7, ConfigAssumption DEF WriterInv, WriterTypes, InTransaction
  <2>2. CASE op[v].kind = "postTier"
    <3>1. op[v].target \in Rows /\ ~Present(op[v].target)
      BY <2>1, <2>2, OpType DEF AC!Allowed, Present
    <3>2. op[v].target \notin wrote[w]
      <4> SUFFICES ASSUME op[v].target \in wrote[w] PROVE FALSE
        OBVIOUS
      <4>1. op[w].kind = "postTier" /\ op[w].target = op[v].target
        BY <3>1, WrittenWasThere
      <4> QED BY <2>1, <2>2, <4>1 DEF CreatorsDiffer
    <3>3. store'[op[v].target] = Absent
      BY <1>4, <3>1, <3>2
    <3> QED BY <1>1, <2>2, <3>3 DEF AC!Allowed
  <2>3. CASE op[v].kind # "postTier"
    <3>1. PICK r \in AC!Scope(op[v]) : store[r] # Absent
      BY <2>1, <2>3 DEF AC!Allowed
    <3>2. r \in Rows
      BY <2>1, <3>1, OpType DEF AC!Scope, Rows
    <3>3. r \in AC!Scope(op[v])' /\ store'[r] # Absent
      BY <1>1, <1>4, <1>6, <3>1, <3>2 DEF Present
    <3> QED BY <1>1, <2>3, <3>3 DEF AC!Allowed
  <2> QED BY <2>2, <2>3
<1>8. \A v \in Writers \ {w} : InTransaction(v)' <=> InTransaction(v)
  BY <1>1 DEF InTransaction
<1>9. ~InTransaction(w)'
  BY <1>1 DEF InTransaction
<1> QED BY <1>1, <1>3, <1>6, <1>7, <1>8, <1>9 DEF WriterInv

\* Every step keeps what is known of the writers.
LEMMA WritersStep ==
  ASSUME WriterInv, CreatorsDiffer, [Next]_vars
  PROVE  WriterInv'
<1>1. WriterTypes'
  BY WriterTypesStep DEF WriterInv
<1>2. CASE UNCHANGED <<store, writerVars>>
  BY <1>1, <1>2, ScopesStay DEF WriterInv, writerVars, InTransaction
<1>3. ASSUME NEW q \in Readers, ReaderNext(q) PROVE UNCHANGED <<store, writerVars>>
  BY <1>3 DEF ReaderNext, ReadMapping, ReadBase, ReadTier, ReadDistrict, GetSystemConfig,
              ListCreditTiers, ListDistricts, GetDistrict, AnswerOne, AnswerList, Begin,
              Read
<1>4. ASSUME NEW w \in Writers, Arrive(w) PROVE WriterInv'
  <2>1. /\ phase[w] = "new" /\ phase'[w] = "arrived"
        /\ \A v \in Writers \ {w} : phase'[v] = phase[v] /\ op'[v] = op[v]
        /\ UNCHANGED <<store, todo, wrote, skipped>>
    BY <1>4 DEF Arrive, WriterInv, WriterTypes
  <2> QED BY <1>1, <2>1, ScopesStay DEF WriterInv, InTransaction
<1>5. ASSUME NEW w \in Writers, WriterNext(w) PROVE WriterInv'
  BY <1>4, <1>5, LookupKeeps, WriteKeeps, CommitKeeps DEF WriterNext, DeadlockAbort
<1>6. CASE UNCHANGED vars
  BY <1>2, <1>6 DEF vars
<1> QED BY <1>2, <1>3, <1>5, <1>6 DEF Next

\* What is known of requests holds as long as no two of them create the same tier.
LEMMA WritersInvariance ==
  ASSUME CreatorsDiffer
  PROVE  Spec => []WriterInv
  BY WritersInitially, WritersStep, CreatorsDiffer, PTL DEF Spec

\* A step takes effect as a whole, or not at all.
LEMMA StepIsAtomic ==
  ASSUME WriterInv, [Next]_vars
  PROVE  [AC!ConfigNext]_(AC!configVars)
<1>1. ASSUME NEW w \in Writers, Commit(w), w \notin skipped
      PROVE  AC!Apply(w, op[w]) /\ op[w] \in OpsOf[w]
  <2>1. /\ phase[w] = "answered" /\ phase' = [phase EXCEPT ![w] = "committed"]
        /\ store' = [r \in Rows |-> IF r \in wrote[w] THEN op[w].value ELSE store[r]]
        /\ UNCHANGED <<op, skipped>> /\ InTransaction(w)
    BY <1>1 DEF Commit, ReleaseLocks, InTransaction
  <2>2. wrote[w] = AC!Scope(op[w]) /\ AC!Allowed(op[w]) /\ op[w] \in OpsOf[w]
    BY <1>1, <2>1 DEF WriterInv, WriterTypes
  <2>3. DOMAIN store = Rows /\ DOMAIN phase = Writers
    BY DEF WriterInv, WriterTypes
  <2>4. Applied[w] = Absent
    BY <1>1, <2>1 DEF Applied
  <2>5. Applied' = [Applied EXCEPT ![w] = op[w]]
    BY <1>1, <2>1, <2>3 DEF Applied
  <2>6. store' = [r \in DOMAIN store |-> IF r \in AC!Scope(op[w]) THEN op[w].value ELSE store[r]]
    BY <2>1, <2>2, <2>3
  <2> QED BY <2>2, <2>4, <2>5, <2>6 DEF AC!Apply
<1>2. ASSUME NEW w \in Writers, Commit(w), w \in skipped
      PROVE  store' = store /\ Applied' = Applied
  <2>1. /\ phase[w] = "answered" /\ phase' = [phase EXCEPT ![w] = "committed"]
        /\ store' = [r \in Rows |-> IF r \in wrote[w] THEN op[w].value ELSE store[r]]
        /\ UNCHANGED <<op, skipped>> /\ InTransaction(w)
    BY <1>2 DEF Commit, ReleaseLocks, InTransaction
  <2>2. wrote[w] = {} /\ store \in [Rows -> Values \cup {Absent}] /\ DOMAIN phase = Writers
    BY <1>2, <2>1 DEF WriterInv, WriterTypes
  <2>3. store' = store
    BY <2>1, <2>2
  <2>4. Applied' = Applied
    BY <1>2, <2>1, <2>2 DEF Applied
  <2> QED BY <2>3, <2>4
<1>3. ASSUME NEW w \in Writers, SkipUnchanged(w)
      PROVE  AC!Apply(w, op[w]) /\ op[w] \in OpsOf[w]
  <2>1. /\ phase[w] = "writing" /\ op[w].kind = "putBase" /\ BaseRow \in todo[w]
        /\ store[BaseRow] = op[w].value
        /\ skipped' = skipped \cup {w}
        /\ UNCHANGED <<store, phase, op>> /\ InTransaction(w)
    BY <1>3 DEF SkipUnchanged, InTransaction
  <2>2. /\ AC!Allowed(op[w]) /\ op[w] \in OpsOf[w] /\ op[w] \in Ops /\ w \notin skipped
        /\ store \in [Rows -> Values \cup {Absent}]
    BY <2>1, ConfigAssumption DEF WriterInv, WriterTypes
  <2>3. AC!Scope(op[w]) = {BaseRow}
    BY <2>1, <2>2, OpType DEF AC!Scope
  <2>4. store' = [r \in DOMAIN store |-> IF r \in AC!Scope(op[w]) THEN op[w].value ELSE store[r]]
    BY <2>1, <2>2, <2>3
  <2>5. Applied[w] = Absent /\ Applied' = [Applied EXCEPT ![w] = op[w]]
    BY <2>1, <2>2 DEF Applied
  <2> QED BY <2>2, <2>4, <2>5 DEF AC!Apply
<1>4. ASSUME NEW w \in Writers,
             Arrive(w) \/ Lookup(w) \/ Respond(w) \/ Rollback(w) \/ \E r \in Rows : WriteRow(w, r)
      PROVE  store' = store /\ Applied' = Applied
  <2>1. /\ store' = store /\ skipped' = skipped
        /\ \A v \in Writers : phase[v] = "committed" <=> phase'[v] = "committed"
        /\ \A v \in Writers : phase[v] = "committed" \/ v \in skipped => op'[v] = op[v]
    BY <1>4 DEF Arrive, Lookup, Targets, Respond, AllWritten, Rollback, ReleaseLocks,
                WriteRow, WriterInv, WriterTypes
  <2> QED BY <2>1 DEF Applied
<1>5. ASSUME NEW q \in Readers, ReaderNext(q) PROVE UNCHANGED <<store, writerVars>>
  BY <1>5 DEF ReaderNext, ReadMapping, ReadBase, ReadTier, ReadDistrict, GetSystemConfig,
              ListCreditTiers, ListDistricts, GetDistrict, AnswerOne, AnswerList, Begin,
              Read
<1>6. CASE UNCHANGED <<store, writerVars>>
  BY <1>6 DEF Applied, writerVars, AC!configVars
<1>7. CASE UNCHANGED vars
  BY <1>6, <1>7 DEF vars
<1>8. ASSUME NEW w \in Writers, WriterNext(w) PROVE [AC!ConfigNext]_(AC!configVars)
  BY <1>1, <1>2, <1>3, <1>4, <1>8 DEF WriterNext, DeadlockAbort, AC!ConfigNext,
                                      AC!configVars
<1> QED BY <1>5, <1>6, <1>7, <1>8 DEF Next

\* If no two writers may create the same tier, requests that succeed take effect
\* at one moment each, and as a whole.
THEOREM RequestsAreAtomic ==
  ASSUME CreatorsDiffer
  PROVE  Spec => ImplementsAtomicConfig
<1>1. Init => AC!ConfigInit
  BY DEF Init, Applied, AC!ConfigInit
<1> QED
  BY <1>1, StepIsAtomic, WritersInvariance, CreatorsDiffer, PTL
     DEF Spec, ImplementsAtomicConfig, AC!ConfigSpec
=============================================================================
