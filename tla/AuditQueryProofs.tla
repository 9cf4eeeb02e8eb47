-------------------------- MODULE AuditQueryProofs --------------------------
(***************************************************************************)
(* What the steps of AuditQuery keep, for any records, ranges and page     *)
(* sizes.  The argument is about ranks: a record that is in the range when *)
(* the walk begins, and has not been given, has more newer records before  *)
(* it than the pages given so far can hold; records that come in only add  *)
(* newer ones, and a purge takes the oldest.                               *)
(***************************************************************************)
EXTENDS AuditQuery, FunctionTheorems, FiniteSetTheorems, SequenceTheorems, TLAPS

-----------------------------------------------------------------------------
(* The order of a set of records, and its pages.                           *)

\* The records of a set that a descending order puts no later than k.
Newer(rows, k) == {l \in rows : CalculatedAt[k] <= CalculatedAt[l]}
Rank(rows, k) == Cardinality(Newer(rows, k))

TimesDiffer == \A k, l \in Records : CalculatedAt[k] = CalculatedAt[l] => k = l

\* Times can be compared.
LEMMA TimesAreNumbers == \A k \in Records : CalculatedAt[k] \in Nat
  BY QueryAssumption

\* An order of a set is a sequence of all its members.
LEMMA OrderHasAll ==
  ASSUME NEW R \in SUBSET Records, IsFiniteSet(R), NEW s \in Orders(R)
  PROVE  /\ Cardinality(R) \in Nat
         /\ s \in [1..Cardinality(R) -> R]
         /\ s \in Seq(R) /\ Len(s) = Cardinality(R)
         /\ \A i, j \in 1..Cardinality(R) : s[i] = s[j] => i = j
         /\ \A k \in R : \E m \in 1..Cardinality(R) : s[m] = k
<1> DEFINE N == Cardinality(R)
<1>1. N \in Nat
  BY FS_CardinalityType
<1>2. s \in [1..N -> R] /\ \A i, j \in 1..N : i < j => s[i] # s[j]
  BY DEF Orders, Descending
<1>3. \A i, j \in 1..N : s[i] = s[j] => i = j
  BY <1>1, <1>2
<1>4. s \in Injection(1..N, R)
  BY <1>2, <1>3, Fun_IsInj
<1>5. Cardinality(1..N) = N
  BY <1>1, FS_Interval
<1>6. s \in Surjection(1..N, R)
  BY <1>4, <1>5, FS_Injection
<1>7. \A k \in R : \E m \in 1..N : s[m] = k
  BY <1>6 DEF Surjection
<1> QED BY <1>1, <1>2, <1>3, <1>7

\* If times differ, the record at place m is the m-th newest.
LEMMA PlaceIsRank ==
  ASSUME TimesDiffer, NEW R \in SUBSET Records, IsFiniteSet(R), NEW s \in Orders(R),
         NEW m \in 1..Cardinality(R)
  PROVE  Rank(R, s[m]) = m
<1> DEFINE f == [i \in 1..m |-> s[i]]
<1>1. /\ Cardinality(R) \in Nat /\ s \in [1..Cardinality(R) -> R]
      /\ \A i, j \in 1..Cardinality(R) : s[i] = s[j] => i = j
      /\ \A k \in R : \E i \in 1..Cardinality(R) : s[i] = k
  BY OrderHasAll
<1>2. \A i, j \in 1..Cardinality(R) : i < j => CalculatedAt[s[i]] >= CalculatedAt[s[j]]
  BY <1>1 DEF Orders, Descending
<1>3. \A i \in 1..Cardinality(R) : CalculatedAt[s[i]] \in Nat
  BY <1>1, TimesAreNumbers
<1>4. ASSUME NEW i \in 1..m PROVE f[i] \in Newer(R, s[m])
  BY <1>1, <1>2, <1>3 DEF Newer
<1>5. ASSUME NEW k \in Newer(R, s[m]) PROVE \E i \in 1..m : f[i] = k
  <2>1. PICK i \in 1..Cardinality(R) : s[i] = k
    BY <1>1 DEF Newer
  <2>2. CASE i <= m
    BY <1>1, <2>1, <2>2
  <2>3. CASE i > m
    <3>1. CalculatedAt[s[m]] >= CalculatedAt[s[i]]
      BY <1>1, <1>2, <2>3
    <3>2. CalculatedAt[s[m]] <= CalculatedAt[s[i]]
      BY <2>1 DEF Newer
    <3>3. CalculatedAt[s[m]] = CalculatedAt[s[i]]
      BY <1>1, <1>3, <3>1, <3>2
    <3>4. s[m] = s[i]
      BY <1>1, <3>3 DEF TimesDiffer
    <3> QED BY <1>1, <2>3, <3>4
  <2> QED BY <1>1, <2>2, <2>3
<1>6. f \in [1..m -> Newer(R, s[m])]
  BY <1>4
<1>7. \A i, j \in 1..m : f[i] = f[j] => i = j
  BY <1>1
<1>8. f \in Bijection(1..m, Newer(R, s[m]))
  <2> HIDE DEF f
  <2> QED BY <1>5, <1>6, <1>7, Fun_IsBij
<1>9. ExistsBijection(1..m, Newer(R, s[m])) /\ m \in Nat
  BY <1>1, <1>8 DEF ExistsBijection
<1> QED BY <1>9, FS_CountingElements DEF Rank

\* If times differ, there is only one order.
LEMMA OrderIsUnique ==
  ASSUME TimesDiffer, NEW R \in SUBSET Records, IsFiniteSet(R),
         NEW s \in Orders(R), NEW t \in Orders(R)
  PROVE  s = t
<1>1. /\ s \in [1..Cardinality(R) -> R] /\ t \in [1..Cardinality(R) -> R]
      /\ \A k \in R : \E m \in 1..Cardinality(R) : s[m] = k
  BY OrderHasAll
<1>2. ASSUME NEW m \in 1..Cardinality(R) PROVE s[m] = t[m]
  <2>1. PICK n \in 1..Cardinality(R) : s[n] = t[m]
    BY <1>1
  <2>2. Rank(R, s[n]) = n /\ Rank(R, t[m]) = m
    BY PlaceIsRank
  <2> QED BY <2>1, <2>2
<1>3. /\ s = [m \in 1..Cardinality(R) |-> s[m]]
      /\ t = [m \in 1..Cardinality(R) |-> t[m]]
  BY <1>1
<1> QED BY <1>2, <1>3

\* The offset of a page.
LEMMA Products ==
  ASSUME NEW p \in Nat \ {0}, NEW s \in Nat
  PROVE  (p - 1) * s \in Nat /\ p * s = (p - 1) * s + s
  OBVIOUS

PartOf(new, order, page, size) ==
  /\ Len(new) <= size
  /\ \A n \in 1..size :
       /\ n <= Len(new) <=> (page - 1) * size + n <= Len(order)
       /\ n <= Len(new) => new[n] = order[(page - 1) * size + n]

\* A page is the part of the order that its number and its size say.
LEMMA PageIsPart ==
  ASSUME NEW S, NEW order \in Seq(S), NEW page \in Nat \ {0}, NEW size \in Nat
  PROVE  Page(order, page, size) \in Seq(S) /\ PartOf(Page(order, page, size), order, page, size)
<1> DEFINE a == (page - 1) * size
           last == IF page * size < Len(order) THEN page * size ELSE Len(order)
<1>1. a \in Nat /\ page * size = a + size
  BY Products
<1>2. last = IF a + size < Len(order) THEN a + size ELSE Len(order)
  BY <1>1
<1>3. Page(order, page, size) = SubSeq(order, a + 1, last)
  BY DEF Page, Offset
<1> HIDE DEF a, last
<1>4. last \in Nat /\ last <= Len(order) /\ last <= a + size
  BY <1>1, <1>2
<1>5. /\ SubSeq(order, a + 1, last) \in Seq(S)
      /\ Len(SubSeq(order, a + 1, last)) = (IF a <= last THEN last - a ELSE 0)
      /\ \A n \in 1..Len(SubSeq(order, a + 1, last)) : SubSeq(order, a + 1, last)[n] = order[a + n]
  BY <1>1, <1>4
<1>6. \A n \in 1..size :
        /\ n <= Len(SubSeq(order, a + 1, last)) <=> a + n <= Len(order)
        /\ n <= Len(SubSeq(order, a + 1, last)) => SubSeq(order, a + 1, last)[n] = order[a + n]
  BY <1>1, <1>2, <1>5
<1>7. Len(SubSeq(order, a + 1, last)) <= size
  BY <1>1, <1>4, <1>5
<1> QED BY <1>3, <1>5, <1>6, <1>7 DEF a, PartOf

-----------------------------------------------------------------------------
(* The auditor's walk.  Done is the number of the last page it has been    *)
(* given, if it began with the first.                                      *)

There == InRange(table, query)
Started == stage \notin {"idle", "refused"}
Done == IF stage \in {"answered", "walked"} THEN query.page ELSE query.page - 1

\* Types; what a request that is being served has passed; and that the records
\* counted by it are there or purged.
RequestInv ==
  /\ QueryTypeOK
  /\ pages \in Seq(Seq(Records))
  /\ IsFiniteSet(table) /\ IsFiniteSet(purged)
  /\ before \subseteq (table \cup purged) \cap InRange(Records, query)
  /\ stage = "idle" => pages = <<>>
  /\ Started => ~Refused(query) /\ Len(pages) <= Done
  /\ stage \in {"answered", "walked"} => Len(pages) # 0
  /\ stage = "counted" => total <= Cardinality(There) + Cardinality(purged)
  /\ PageAsFullAsTotal

\* A record that was there when the walk began has been given, or there are so
\* many newer ones that a later page must have it.
WalkInv ==
  Started /\ Len(pages) = Done =>
    \A k \in before \cap table :
      \/ Given(k)
      \/ /\ stage # "walked"
         /\ stage = "answered" => Len(LastPage) = query.size
         /\ Rank(There, k) > Done * query.size

\* As long as nothing has come or gone, page i is the i-th part of the range.
Quiet == There = before /\ InRange(purged, query) = {}

IsPart(i, order) ==
  /\ \A n \in 1..query.size : n \in DOMAIN pages[i] <=> (i - 1) * query.size + n \in DOMAIN order
  /\ \A n \in DOMAIN pages[i] : pages[i][n] = order[(i - 1) * query.size + n]

QuietInv ==
  Started /\ Len(pages) = Done /\ Quiet =>
    /\ stage \in {"answered", "walked"} => Orders(before) # {}
    /\ \A order \in Orders(before) : \A i \in 1..Len(pages) : IsPart(i, order)

QueryInv == RequestInv /\ (TimesDiffer => WalkInv /\ QuietInv)

\* The records of the range can be counted.
LEMMA ThereIsFinite ==
  ASSUME RequestInv
  PROVE  /\ There \in SUBSET Records /\ IsFiniteSet(There)
         /\ Cardinality(There) \in Nat /\ Cardinality(purged) \in Nat
         /\ Cardinality(table) \in Nat
<1>1. /\ table \in SUBSET Records /\ There \in SUBSET table
      /\ IsFiniteSet(table) /\ IsFiniteSet(purged)
  BY DEF RequestInv, QueryTypeOK, Requests, There, InRange
<1>2. IsFiniteSet(There)
  BY <1>1, FS_Subset
<1> QED BY <1>1, <1>2, FS_CardinalityType

\* A record that comes after the count only makes the page fuller.
LEMMA InsertKeepsRequest ==
  ASSUME RequestInv, NEW k \in Records, Insert(k)
  PROVE  RequestInv'
<1>1. /\ k \notin table \cup purged /\ table' = table \cup {k} /\ purged' = purged
      /\ UNCHANGED <<query, stage, total, pages, before>>
  BY DEF Insert
<1>2. IsFiniteSet(table')
  BY <1>1, FS_AddElement DEF RequestInv
<1>3. There \in SUBSET There' /\ There' \in SUBSET table'
  BY <1>1 DEF There, InRange
<1>4. Cardinality(There) <= Cardinality(There')
  BY <1>2, <1>3, FS_Subset
<1>5. There' \in SUBSET Records /\ IsFiniteSet(There') /\ Cardinality(There') \in Nat
  BY <1>1, <1>2, <1>3, FS_Subset, FS_CardinalityType DEF RequestInv, QueryTypeOK, Requests
<1>6. stage = "counted" => total <= Cardinality(There') + Cardinality(purged)
  BY <1>4, <1>5, ThereIsFinite DEF RequestInv, QueryTypeOK, Requests
<1>7. QueryTypeOK'
  BY <1>1 DEF RequestInv, QueryTypeOK, Requests
<1> QED
  BY <1>1, <1>2, <1>6, <1>7 DEF RequestInv, Started, Done, PageAsFullAsTotal, LastPage,
                                InRange, Refused

\* A record that goes after the count is one more that is purged.
LEMMA PurgeKeepsRequest ==
  ASSUME RequestInv, Purge
  PROVE  RequestInv'
<1>1. PICK k \in table :
        /\ table' = table \ {k} /\ purged' = purged \cup {k}
        /\ UNCHANGED <<query, stage, total, pages, before>>
  BY DEF Purge
<1>2. IsFiniteSet(table') /\ IsFiniteSet(purged')
  BY <1>1, FS_AddElement, FS_RemoveElement DEF RequestInv
<1>3. There' = There \ {k} /\ k \notin purged
  BY <1>1 DEF There, InRange, RequestInv, QueryTypeOK, Requests
<1>4. Cardinality(There') >= Cardinality(There) - 1 /\ Cardinality(There') \in Nat
  <2>1. IsFiniteSet(There) /\ Cardinality(There) \in Nat
    BY ThereIsFinite
  <2>2. /\ IsFiniteSet(There \ {k})
        /\ Cardinality(There \ {k})
             = IF k \in There THEN Cardinality(There) - 1 ELSE Cardinality(There)
    BY <2>1, FS_RemoveElement
  <2>3. Cardinality(There \ {k}) \in Nat
    BY <2>2, FS_CardinalityType
  <2> QED BY <1>3, <2>1, <2>2, <2>3
<1>5. Cardinality(purged') = Cardinality(purged) + 1
  BY <1>1, <1>3, FS_AddElement DEF RequestInv
<1>6. stage = "counted" => total <= Cardinality(There') + Cardinality(purged')
  BY <1>4, <1>5, ThereIsFinite DEF RequestInv, QueryTypeOK, Requests
<1>7. PageAsFullAsTotal'
  <2> SUFFICES ASSUME stage = "answered", Len(LastPage) # query.size
               PROVE  Len(LastPage) >= total - Cardinality(purged') - (query.page - 1) * query.size
    BY <1>1 DEF PageAsFullAsTotal, LastPage
  <2> DEFINE a == (query.page - 1) * query.size
  <2>1. Len(LastPage) >= total - Cardinality(purged) - a
    BY DEF RequestInv, PageAsFullAsTotal
  <2>2. a \in Int /\ total \in Nat
    BY DEF RequestInv, QueryTypeOK, Requests
  <2>3. Len(LastPage) \in Nat
    <3>1. pages[Len(pages)] \in Seq(Records)
      BY DEF RequestInv
    <3> QED BY <3>1 DEF LastPage
  <2> HIDE DEF a
  <2> QED BY <2>1, <2>2, <2>3, <1>5, ThereIsFinite DEF a
<1>8. QueryTypeOK'
  BY <1>1 DEF RequestInv, QueryTypeOK, Requests
<1> QED
  BY <1>1, <1>2, <1>6, <1>7, <1>8 DEF RequestInv, Started, Done, InRange, Refused

\* A request that is served has passed the checks of its parameters.
LEMMA AskKeepsRequest ==
  ASSUME RequestInv, NEW q \in Queries, Ask(q)
  PROVE  RequestInv'
<1>1. /\ stage = "idle" /\ query' = q /\ stage' \in {"refused", "asked"}
      /\ stage' = "asked" => ~Refused(q)
      /\ before' = InRange(table, q)
      /\ UNCHANGED <<table, purged, total, pages>>
  BY DEF Ask
<1>2. q \in Requests
  BY QueryAssumption
<1>3. pages = <<>> /\ Len(pages) = 0
  BY <1>1 DEF RequestInv
<1>4. QueryTypeOK'
  BY <1>1, <1>2 DEF RequestInv, QueryTypeOK, Requests, InRange
<1>5. before' \subseteq (table' \cup purged') \cap InRange(Records, query')
  BY <1>1 DEF RequestInv, QueryTypeOK, Requests, InRange
<1>6. Started' => ~Refused(query)' /\ Len(pages') <= Done'
  BY <1>1, <1>2, <1>3 DEF Requests, Started, Done, Refused
<1> QED BY <1>1, <1>3, <1>4, <1>5, <1>6 DEF RequestInv, PageAsFullAsTotal

\* What is counted is there.
LEMMA CountKeepsRequest ==
  ASSUME RequestInv, Count
  PROVE  RequestInv'
<1>1. /\ stage = "asked" /\ stage' = "counted" /\ total' = Cardinality(There)
      /\ UNCHANGED <<table, purged, query, pages, before>>
  BY DEF Count, CountedRows, There
<1>2. There' = There
  BY <1>1 DEF There
<1>3. total' \in Nat /\ total' <= Cardinality(There) + Cardinality(purged)
  BY <1>1, ThereIsFinite
<1>4. QueryTypeOK'
  BY <1>1, <1>3 DEF RequestInv, QueryTypeOK, Requests
<1> QED
  BY <1>1, <1>2, <1>3, <1>4 DEF RequestInv, Started, Done, PageAsFullAsTotal, InRange,
                                Refused

\* A page that is not full ends with the range.
LEMMA FetchKeepsRequest ==
  ASSUME RequestInv, Fetch
  PROVE  RequestInv'
<1>1. PICK order \in Orders(There) :
        /\ stage = "counted" /\ stage' = "answered"
        /\ pages' = Append(pages, Page(order, query.page, query.size))
        /\ UNCHANGED <<table, purged, query, total, before>>
  BY DEF Fetch, There
<1> DEFINE new == Page(order, query.page, query.size)
           a == (query.page - 1) * query.size
<1>2. /\ query.page \in Nat \ {0} /\ query.size \in 1..MaxPageSize
      /\ MaxPageSize \in Nat /\ Len(pages) <= query.page - 1
  BY <1>1, QueryAssumption DEF RequestInv, QueryTypeOK, Requests, Started, Refused, Done
<1>3. order \in Seq(There) /\ Len(order) = Cardinality(There)
  BY <1>1, OrderHasAll, ThereIsFinite
<1>4. order \in Seq(Records)
  BY <1>3, ThereIsFinite
<1>5. /\ new \in Seq(Records) /\ Len(new) <= query.size
      /\ \A n \in 1..query.size : n <= Len(new) <=> a + n <= Len(order)
  <2>1. query.size \in Nat
    BY <1>2
  <2>2. new \in Seq(Records) /\ PartOf(new, order, query.page, query.size)
    BY <1>2, <1>4, <2>1, PageIsPart
  <2> QED BY <2>2 DEF PartOf
<1>6. a \in Nat
  BY <1>2, Products
<1> HIDE DEF new, a
<1>7. /\ pages' \in Seq(Seq(Records)) /\ Len(pages') = Len(pages) + 1
      /\ pages'[Len(pages')] = new
      /\ \A i \in 1..Len(pages) : pages'[i] = pages[i]
  BY <1>1, <1>5, AppendProperties DEF RequestInv, new
<1>8. Len(pages) \in Nat
  BY DEF RequestInv
<1>9. ASSUME NEW i \in 1..Len(pages')
      PROVE  pages'[i] \in Seq(Records) /\ Len(pages'[i]) <= MaxPageSize
  <2>1. CASE i = Len(pages')
    BY <1>2, <1>5, <1>7, <2>1
  <2>2. CASE i \in 1..Len(pages)
    BY <1>7, <2>2 DEF RequestInv, QueryTypeOK, Requests
  <2> QED BY <1>7, <1>8, <2>1, <2>2
<1>10. QueryTypeOK'
  BY <1>1, <1>9 DEF RequestInv, QueryTypeOK, Requests
<1>11. Len(new) = query.size \/ Len(new) >= total - Cardinality(purged) - a
  <2>1. CASE query.size <= Len(new)
    BY <1>2, <1>5, <2>1
  <2>2. CASE Len(new) < query.size
    <3>1. a + (Len(new) + 1) > Len(order)
      <4>1. Len(new) \in Nat /\ Len(order) \in Nat /\ query.size \in Nat
        BY <1>2, <1>3, <1>5
      <4>2. Len(new) + 1 \in 1..query.size
        BY <2>2, <4>1
      <4>3. Len(new) + 1 <= Len(new) <=> a + (Len(new) + 1) <= Len(order)
        BY <1>5, <4>2
      <4> QED BY <1>6, <4>1, <4>3
    <3>2. total <= Cardinality(There) + Cardinality(purged)
      BY <1>1 DEF RequestInv
    <3> QED BY <1>3, <1>5, <1>6, <3>1, <3>2, ThereIsFinite DEF RequestInv, QueryTypeOK,
        Requests
  <2> QED BY <1>2, <1>5, <2>1, <2>2
<1>12. PageAsFullAsTotal'
  BY <1>1, <1>7, <1>11 DEF PageAsFullAsTotal, LastPage, a
<1>13. Len(pages') <= Done' /\ Len(pages') # 0
  BY <1>1, <1>2, <1>7, <1>8 DEF Done
<1>14. before' \subseteq (table' \cup purged') \cap InRange(Records, query')
  BY <1>1 DEF RequestInv
<1>15. /\ IsFiniteSet(table') /\ IsFiniteSet(purged')
       /\ ~Refused(query')
  BY <1>1 DEF RequestInv, Started
<1> QED
  BY <1>1, <1>7, <1>10, <1>12, <1>13, <1>14, <1>15 DEF RequestInv, Started

\* The next request has the range and the page size of the last.
LEMMA TurnKeepsRequest ==
  ASSUME RequestInv, RequestFails \/ AskNext \/ AskAgain
  PROVE  RequestInv'
<1>1. CASE RequestFails \/ AskAgain
  <2>1. /\ stage \in {"asked", "counted", "failed"} /\ stage' \in {"asked", "failed"}
        /\ UNCHANGED <<table, purged, query, total, pages, before>>
    BY <1>1 DEF RequestFails, AskAgain
  <2> QED
    BY <2>1 DEF RequestInv, QueryTypeOK, Requests, Started, Done, PageAsFullAsTotal,
                InRange, Refused
<1>2. CASE AskNext /\ Len(LastPage) = query.size
  <2>1. /\ stage = "answered" /\ stage' = "asked" /\ query' = [query EXCEPT !.page = @ + 1]
        /\ UNCHANGED <<table, purged, total, pages, before>>
    BY <1>2 DEF AskNext
  <2>2. /\ query' \in [from : Nat, to : Nat, page : Nat, size : Nat]
        /\ query'.page = query.page + 1 /\ query'.size = query.size
        /\ query'.from = query.from /\ query'.to = query.to
    <3>1. query \in [from : Nat, to : Nat, page : Nat, size : Nat]
      BY DEF RequestInv, QueryTypeOK, Requests
    <3> QED BY <2>1, <3>1
  <2>3. QueryTypeOK'
    BY <2>1, <2>2 DEF RequestInv, QueryTypeOK, Requests
  <2>4. Done' = Done /\ ~Refused(query')
    BY <2>1, <2>2 DEF Done, Refused, RequestInv, QueryTypeOK, Requests, Started
  <2>5. InRange(Records, query') = InRange(Records, query)
    BY <2>2 DEF InRange
  <2> QED BY <2>1, <2>3, <2>4, <2>5 DEF RequestInv, Started, PageAsFullAsTotal
<1>3. CASE AskNext /\ Len(LastPage) # query.size
  <2>1. /\ stage = "answered" /\ stage' = "walked"
        /\ UNCHANGED <<table, purged, query, total, pages, before>>
    BY <1>3 DEF AskNext
  <2> QED
    BY <2>1 DEF RequestInv, QueryTypeOK, Requests, Started, Done, PageAsFullAsTotal,
                InRange, Refused
<1> QED BY <1>1, <1>2, <1>3

-----------------------------------------------------------------------------
(* Ranks only grow while records come, and stay while the oldest go.       *)

\* Ranks are numbers.
LEMMA RankIsNumber ==
  ASSUME RequestInv, NEW k
  PROVE  IsFiniteSet(Newer(There, k)) /\ Rank(There, k) \in Nat
<1>1. Newer(There, k) \in SUBSET There
  BY DEF Newer
<1>2. IsFiniteSet(Newer(There, k))
  BY <1>1, ThereIsFinite, FS_Subset
<1> QED BY <1>2, FS_CardinalityType DEF Rank

\* A record that keeps all its newer ones keeps its rank or gets a later one.
LEMMA RankGrows ==
  ASSUME RequestInv, RequestInv', NEW k, Newer(There, k) \subseteq Newer(There', k)
  PROVE  Rank(There', k) >= Rank(There, k)
<1>1. Newer(There', k) \in SUBSET There'
  BY DEF Newer
<1>2. There' \in SUBSET Records /\ IsFiniteSet(table')
  BY DEF RequestInv, QueryTypeOK, Requests, There, InRange
<1>3. There' \in SUBSET table'
  BY DEF There, InRange
<1>4. IsFiniteSet(Newer(There', k))
  BY <1>1, <1>2, <1>3, FS_Subset
<1> QED BY <1>4, FS_Subset DEF Rank

\* Steps that leave the requests alone, and take away at most a record that
\* no other that is left is older than.
LEMMA TableKeepsWalk ==
  ASSUME RequestInv, RequestInv', TimesDiffer, WalkInv, QuietInv,
         UNCHANGED <<query, stage, total, pages, before>>,
         before \cap table' \subseteq table,
         purged \subseteq purged', table' \subseteq Records,
         \A k \in before \cap table' : Newer(There, k) \subseteq Newer(There', k),
         There' = before /\ InRange(purged', query) = {} => There = before
  PROVE  WalkInv' /\ QuietInv'
<1>1. Done' = Done /\ Started' = Started /\ LastPage' = LastPage
  BY DEF Done, Started, LastPage
<1>2. WalkInv'
  <2> SUFFICES ASSUME Started, Len(pages) = Done, NEW k \in before \cap table'
               PROVE  \/ Given(k)
                      \/ /\ stage # "walked"
                         /\ stage = "answered" => Len(LastPage) = query.size
                         /\ Rank(There', k) > Done * query.size
    BY <1>1 DEF WalkInv, Given
  <2>1. Rank(There', k) >= Rank(There, k)
    BY RankGrows
  <2>2. Rank(There, k) \in Nat /\ Rank(There', k) \in Nat
    <3>1. Rank(There, k) \in Nat
      BY RankIsNumber
    <3>2. Newer(There', k) \in SUBSET table' /\ IsFiniteSet(table')
      BY DEF Newer, There, InRange, RequestInv
    <3> QED BY <3>1, <3>2, FS_Subset, FS_CardinalityType DEF Rank
  <2>3. Done * query.size \in Int
    <3>1. Done \in Int /\ query.size \in Int
      BY DEF Done, RequestInv, QueryTypeOK, Requests
    <3> QED BY <3>1
  <2> QED BY <2>1, <2>2, <2>3 DEF WalkInv
<1>3. Quiet' => Quiet
  BY DEF Quiet, InRange
<1>4. \A i, order : IsPart(i, order)' <=> IsPart(i, order)
  BY DEF IsPart
<1> QED BY <1>1, <1>2, <1>3, <1>4 DEF QuietInv

\* A record that comes in can only push others to later pages.
LEMMA InsertKeepsWalk ==
  ASSUME RequestInv, TimesDiffer, WalkInv, QuietInv, NEW k \in Records, Insert(k)
  PROVE  WalkInv' /\ QuietInv'
<1>1. RequestInv'
  BY InsertKeepsRequest
<1>2. /\ k \notin table \cup purged /\ table' = table \cup {k} /\ purged' = purged
      /\ UNCHANGED <<query, stage, total, pages, before>>
  BY DEF Insert
<1>3. k \notin before
  BY <1>2 DEF RequestInv
<1>4. /\ before \cap table' \subseteq table /\ purged \subseteq purged' /\ table' \subseteq Records
  BY <1>2, <1>3 DEF RequestInv, QueryTypeOK, Requests
<1>5. There \subseteq There' /\ There' \subseteq There \cup {k}
  BY <1>2 DEF There, InRange
<1>6. \A l \in before \cap table' : Newer(There, l) \subseteq Newer(There', l)
  BY <1>5 DEF Newer
<1>7. There' = before => There = before
  BY <1>3, <1>5
<1> QED BY <1>1, <1>2, <1>4, <1>6, <1>7, TableKeepsWalk

\* The record that is purged is older than all others: their ranks stay.
LEMMA PurgeKeepsWalk ==
  ASSUME RequestInv, TimesDiffer, WalkInv, QuietInv, Purge
  PROVE  WalkInv' /\ QuietInv'
<1>1. RequestInv'
  BY PurgeKeepsRequest
<1>2. PICK k \in table :
        /\ \A l \in table : CalculatedAt[k] <= CalculatedAt[l]
        /\ table' = table \ {k} /\ purged' = purged \cup {k}
        /\ UNCHANGED <<query, stage, total, pages, before>>
  BY DEF Purge
<1>3. /\ before \cap table' \subseteq table /\ purged \subseteq purged' /\ table' \subseteq Records
  BY <1>2 DEF RequestInv, QueryTypeOK, Requests
<1>4. There' = There \ {k}
  BY <1>2 DEF There, InRange
<1>5. ASSUME NEW l \in before \cap table' PROVE Newer(There, l) \subseteq Newer(There', l)
  <2>1. l # k /\ l \in table /\ l \in Records /\ k \in Records
    BY <1>2 DEF RequestInv, QueryTypeOK, Requests
  <2>2. CalculatedAt[k] \in Nat /\ CalculatedAt[l] \in Nat
    BY <2>1, TimesAreNumbers
  <2>3. CalculatedAt[k] # CalculatedAt[l]
    BY <2>1 DEF TimesDiffer
  <2>4. ~(CalculatedAt[l] <= CalculatedAt[k])
    BY <1>2, <2>1, <2>2, <2>3
  <2> QED BY <1>4, <2>4 DEF Newer
<1>6. There' = before /\ InRange(purged', query) = {} => There = before
  BY <1>2, <1>4 DEF There, InRange
<1> QED BY <1>1, <1>2, <1>3, <1>5, <1>6, TableKeepsWalk

\* At the start every record of the range has a rank of at least 1.
LEMMA AskKeepsWalk ==
  ASSUME RequestInv, TimesDiffer, NEW q \in Queries, Ask(q)
  PROVE  WalkInv' /\ QuietInv'
<1>1. RequestInv'
  BY AskKeepsRequest
<1>2. /\ stage = "idle" /\ query' = q /\ stage' \in {"refused", "asked"}
      /\ before' = InRange(table, q)
      /\ UNCHANGED <<table, purged, total, pages>>
  BY DEF Ask
<1>3. pages' = <<>> /\ Len(pages') = 0
  BY <1>2 DEF RequestInv
<1>4. ASSUME Started', Len(pages') = Done', NEW k \in before' \cap table'
      PROVE  /\ stage' = "asked"
             /\ Rank(There', k) > Done' * query'.size
  <2>1. stage' = "asked"
    BY <1>2, <1>4 DEF Started
  <2>2. Done' = 0 /\ q.size \in Nat
    BY <1>2, <1>3, <1>4, QueryAssumption DEF Requests
  <2>3. There' = InRange(table, q)
    BY <1>2 DEF There
  <2>4. k \in Newer(There', k)
    <3>1. k \in Records /\ k \in InRange(table, q)
      BY <1>2 DEF RequestInv, QueryTypeOK, Requests
    <3>2. CalculatedAt[k] \in Nat
      BY <3>1, TimesAreNumbers
    <3> QED BY <2>3, <3>1, <3>2 DEF Newer
  <2>5. IsFiniteSet(Newer(There', k))
    <3>1. Newer(There', k) \in SUBSET table
      BY <2>3 DEF Newer, InRange
    <3> QED BY <3>1, FS_Subset DEF RequestInv
  <2>6. Rank(There', k) \in Nat /\ Rank(There', k) # 0
    BY <2>4, <2>5, FS_CardinalityType, FS_EmptySet DEF Rank
  <2> QED BY <1>2, <2>1, <2>2, <2>6
<1>5. WalkInv'
  BY <1>4 DEF WalkInv
<1>6. QuietInv'
  BY <1>2, <1>3 DEF QuietInv
<1> QED BY <1>5, <1>6

\* Steps of a request that give the auditor nothing.
LEMMA TurnKeepsWalk ==
  ASSUME RequestInv, WalkInv, QuietInv, Count \/ RequestFails \/ AskNext \/ AskAgain
  PROVE  WalkInv' /\ QuietInv'
<1>1. CASE Count \/ RequestFails \/ AskAgain
  <2>1. /\ stage \in {"asked", "counted", "failed"} /\ stage' \in {"asked", "counted", "failed"}
        /\ UNCHANGED <<table, purged, query, pages, before>>
    BY <1>1 DEF Count, CountedRows, RequestFails, AskAgain
  <2>2. Done' = Done /\ Started' = Started /\ There' = There /\ Quiet' = Quiet
    BY <2>1 DEF Done, Started, There, Quiet
  <2>3. \A i, order : IsPart(i, order)' <=> IsPart(i, order)
    BY <2>1 DEF IsPart
  <2>4. WalkInv'
    BY <2>1, <2>2 DEF WalkInv, Given
  <2>5. QuietInv'
    BY <2>1, <2>2, <2>3 DEF QuietInv
  <2> QED BY <2>4, <2>5
<1>2. CASE AskNext
  <2>1. /\ stage = "answered"
        /\ UNCHANGED <<table, purged, total, pages, before>>
        /\ \/ /\ Len(LastPage) = query.size
              /\ query' = [query EXCEPT !.page = @ + 1] /\ stage' = "asked"
           \/ Len(LastPage) # query.size /\ stage' = "walked" /\ query' = query
    BY <1>2 DEF AskNext
  <2>2. /\ query'.size = query.size /\ query'.from = query.from /\ query'.to = query.to
        /\ stage' = "asked" => query'.page = query.page + 1
        /\ query.page \in Nat
    <3>1. query \in [from : Nat, to : Nat, page : Nat, size : Nat]
      BY DEF RequestInv, QueryTypeOK, Requests
    <3> QED BY <2>1, <3>1
  <2>3. Done' = Done /\ Started /\ Started'
    BY <2>1, <2>2 DEF Done, Started
  <2>4. /\ There' = There /\ InRange(purged', query') = InRange(purged, query)
        /\ Quiet' = Quiet
    BY <2>1, <2>2 DEF There, InRange, Quiet
  <2>5. \A i, order : IsPart(i, order)' <=> IsPart(i, order)
    BY <2>1, <2>2 DEF IsPart
  <2>6. WalkInv'
    <3> SUFFICES ASSUME Len(pages) = Done, NEW k \in before \cap table
                 PROVE  \/ Given(k)
                        \/ stage' = "asked" /\ Rank(There, k) > Done * query.size
      BY <2>1, <2>2, <2>3, <2>4 DEF WalkInv, Given
    <3> QED BY <2>1, <2>3 DEF WalkInv
  <2>7. QuietInv'
    BY <2>1, <2>3, <2>4, <2>5 DEF QuietInv
  <2> QED BY <2>6, <2>7
<1> QED BY <1>1, <1>2

\* A page gives the records whose rank falls on it.
LEMMA FetchKeepsWalk ==
  ASSUME RequestInv, TimesDiffer, WalkInv, QuietInv, Fetch
  PROVE  WalkInv' /\ QuietInv'
<1>1. PICK order \in Orders(There) :
        /\ stage = "counted" /\ stage' = "answered"
        /\ pages' = Append(pages, Page(order, query.page, query.size))
        /\ UNCHANGED <<table, purged, query, total, before>>
  BY DEF Fetch, There
<1> DEFINE new == Page(order, query.page, query.size)
           a == (query.page - 1) * query.size
<1>2. query.page \in Nat \ {0} /\ query.size \in Nat /\ query.size # 0
  BY <1>1, QueryAssumption DEF RequestInv, QueryTypeOK, Requests, Started, Refused
<1>3. There \in SUBSET Records /\ IsFiniteSet(There) /\ Cardinality(There) \in Nat
  BY ThereIsFinite
<1>4. /\ order \in [1..Cardinality(There) -> There]
      /\ order \in Seq(There) /\ Len(order) = Cardinality(There)
      /\ \A k \in There : \E m \in 1..Cardinality(There) : order[m] = k
  BY <1>1, <1>3, OrderHasAll
<1>5. /\ new \in Seq(Records) /\ Len(new) <= query.size
      /\ \A n \in 1..query.size :
           /\ n <= Len(new) <=> a + n <= Len(order)
           /\ n <= Len(new) => new[n] = order[a + n]
  <2>1. order \in Seq(Records) /\ query.page \in Nat \ {0} /\ query.size \in Nat
    BY <1>2, <1>3, <1>4
  <2>2. new \in Seq(Records) /\ PartOf(new, order, query.page, query.size)
    BY <2>1, PageIsPart
  <2> QED BY <2>2 DEF PartOf
<1>6. a \in Nat /\ query.page * query.size = a + query.size
  BY <1>2, Products
<1> HIDE DEF new, a
<1>7. Len(new) \in Nat /\ Len(pages) \in Nat /\ new \in Seq(Records)
  BY <1>5 DEF RequestInv
<1>8. /\ Len(pages') = Len(pages) + 1
      /\ pages'[Len(pages) + 1] = new
      /\ \A i \in 1..Len(pages) : pages'[i] = pages[i]
  BY <1>1, <1>7, AppendProperties DEF RequestInv, new
<1>9. /\ Done = query.page - 1 /\ Done' = query.page /\ Started
      /\ There' = There /\ Quiet' = Quiet /\ LastPage' = new
  BY <1>1, <1>8 DEF Done, Started, There, Quiet, LastPage
<1>10. Len(pages') = Done' => Len(pages) = Done
  BY <1>2, <1>7, <1>8, <1>9
<1>11. \A k : Given(k) => Given(k)'
  <2> SUFFICES ASSUME NEW k, NEW i \in 1..Len(pages), NEW n \in 1..Len(pages[i]), pages[i][n] = k
               PROVE  Given(k)'
    BY DEF Given
  <2>1. i \in 1..Len(pages') /\ n \in 1..Len(pages'[i]) /\ pages'[i][n] = k
    BY <1>7, <1>8
  <2> QED BY <2>1 DEF Given
<1>12. ASSUME NEW n \in 1..Len(new), NEW k, new[n] = k PROVE Given(k)'
  <2>1. Len(pages) + 1 \in 1..Len(pages')
    BY <1>7, <1>8
  <2>2. n \in 1..Len(pages'[Len(pages) + 1]) /\ pages'[Len(pages) + 1][n] = k
    BY <1>8, <1>12
  <2>3. \E i \in 1..Len(pages') : \E m \in 1..Len(pages'[i]) : pages'[i][m] = k
    BY <2>1, <2>2
  <2> QED BY <2>3 DEF Given
<1>13. WalkInv'
  <2> SUFFICES ASSUME Len(pages) = Done, NEW k \in before \cap table, ~Given(k)'
               PROVE  Len(new) = query.size /\ Rank(There, k) > query.page * query.size
    BY <1>1, <1>9, <1>10 DEF WalkInv
  <2>1. Rank(There, k) > a
    BY <1>9, <1>11 DEF WalkInv, a
  <2>2. k \in There
    BY DEF RequestInv, QueryTypeOK, Requests, There, InRange
  <2>3. PICK m \in 1..Cardinality(There) : order[m] = k
    BY <1>4, <2>2
  <2>4. Rank(There, k) = m
    BY <1>1, <1>3, <2>3, PlaceIsRank
  <2>5. ~(m - a \in 1..query.size)
    <3> SUFFICES ASSUME m - a \in 1..query.size PROVE FALSE
      OBVIOUS
    <3>1. a + (m - a) = m /\ m <= Len(order)
      BY <1>4, <1>6, <2>3
    <3>2. m - a <= Len(new) /\ new[m - a] = order[m]
      BY <1>5, <3>1
    <3>3. m - a \in 1..Len(new) /\ new[m - a] = k
      BY <1>7, <2>3, <3>2
    <3> QED BY <1>12, <3>3
  <2>6. m > a + query.size
    BY <1>2, <1>6, <2>1, <2>3, <2>4, <2>5
  <2>7. Len(new) = query.size
    <3>1. query.size \in 1..query.size /\ a + query.size <= Len(order)
      BY <1>2, <1>3, <1>4, <1>6, <2>3, <2>6
    <3>2. query.size <= Len(new)
      BY <1>5, <3>1
    <3> QED BY <1>2, <1>5, <1>7, <3>2
  <2> QED BY <1>6, <2>4, <2>6, <2>7
<1>14. QuietInv'
  <2> SUFFICES ASSUME Len(pages) = Done, Quiet
               PROVE  /\ Orders(before) # {}
                      /\ \A o \in Orders(before) : \A i \in 1..Len(pages') : IsPart(i, o)'
    BY <1>1, <1>9, <1>10 DEF QuietInv
  <2>1. There = before
    BY DEF Quiet
  <2>2. ASSUME NEW o \in Orders(before), NEW i \in 1..Len(pages')
        PROVE  IsPart(i, o)'
    <3>1. CASE i \in 1..Len(pages)
      <4>1. IsPart(i, o)
        BY <1>9, <3>1 DEF QuietInv
      <4> QED BY <1>1, <1>8, <3>1, <4>1 DEF IsPart
    <3>2. CASE i = Len(pages) + 1
      <4>1. o = order
        BY <1>1, <1>3, <2>1, OrderIsUnique
      <4>2. pages'[i] = new /\ (i - 1) * query'.size = a /\ query' = query
        <5>1. i - 1 = query.page - 1
          BY <1>2, <1>9, <3>2
        <5> QED BY <1>1, <1>8, <3>2, <5>1 DEF a
      <4>3. DOMAIN new = 1..Len(new) /\ DOMAIN o = 1..Len(order)
        BY <1>4, <1>5, <4>1
      <4>4. \A n \in 1..query.size : n \in DOMAIN new <=> a + n \in DOMAIN o
        BY <1>2, <1>4, <1>3, <1>5, <1>6, <1>7, <4>3
      <4>5. \A n \in DOMAIN new : new[n] = o[a + n]
        BY <1>2, <1>5, <1>7, <4>1, <4>3
      <4> QED BY <4>2, <4>4, <4>5 DEF IsPart
    <3> QED BY <1>7, <1>8, <3>1, <3>2
  <2> QED BY <1>1, <2>1, <2>2
<1> QED BY <1>13, <1>14

\* There is no record, and no walk.
LEMMA QueryInitially == QueryInit => QueryInv
<1> SUFFICES ASSUME QueryInit PROVE QueryInv
  OBVIOUS
<1>1. /\ table = {} /\ purged = {} /\ stage = "idle" /\ total = 0 /\ pages = <<>> /\ before = {}
      /\ query = [from |-> 0, to |-> 0, page |-> 0, size |-> 0]
  BY DEF QueryInit
<1>2. Len(pages) = 0 /\ IsFiniteSet(table) /\ IsFiniteSet(purged)
  BY <1>1, FS_EmptySet
<1>3. QueryTypeOK
  BY <1>1, <1>2 DEF QueryTypeOK, Requests
<1>4. RequestInv
  BY <1>1, <1>2, <1>3 DEF RequestInv, Started, PageAsFullAsTotal
<1>5. WalkInv /\ QuietInv
  BY <1>1 DEF WalkInv, QuietInv, Started
<1> QED BY <1>4, <1>5 DEF QueryInv

\* Steps of the database and its schema do not disturb a walk.
LEMMA QueryUntouched ==
  ASSUME QueryInv, UNCHANGED queryVars
  PROVE  QueryInv'
<1>1. UNCHANGED <<table, purged, query, stage, total, pages, before>>
  BY DEF queryVars
<1>2. RequestInv'
  BY <1>1 DEF QueryInv, RequestInv, QueryTypeOK, Requests, Started, Done, There, InRange,
              Refused, PageAsFullAsTotal, LastPage
<1>3. \A i, order : IsPart(i, order)' <=> IsPart(i, order)
  BY <1>1 DEF IsPart
<1>4. TimesDiffer => WalkInv' /\ QuietInv'
  BY <1>1, <1>3 DEF QueryInv, WalkInv, QuietInv, Started, Done, There, InRange, Quiet,
                    Given, LastPage
<1> QED BY <1>2, <1>4 DEF QueryInv
=============================================================================
