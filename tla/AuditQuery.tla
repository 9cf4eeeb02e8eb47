----------------------------- MODULE AuditQuery -----------------------------
(***************************************************************************)
(* An auditor walks the pages of GET /records while the consumer goes on   *)
(* inserting records and the oldest ones are purged.  A request counts the *)
(* records of the range by one statement and reads one page of them,       *)
(* newest first, by another; each statement sees what is committed when it *)
(* starts.  AuditService says when these steps are possible.               *)
(*                                                                         *)
(* The auditor is external: it asks for page after page until one is not   *)
(* full, and again for a page when a request fails.  So is the operator,   *)
(* who purges by retention age.                                            *)
(***************************************************************************)
EXTENDS Integers, Sequences, FiniteSets

CONSTANTS
  Records,       \* the calculations that may be recorded
  CalculatedAt,  \* when the rate service calculated them
  Queries,       \* what the auditor may ask for first
  MaxPageSize    \* _MAX_PAGE_SIZE

\* What a request asks for.
Requests == [from : Nat, to : Nat, page : Nat, size : Nat]

ASSUME QueryAssumption ==
  /\ CalculatedAt \in [Records -> Nat]
  /\ Queries \subseteq Requests
  /\ MaxPageSize \in Nat \ {0}

VARIABLES
  table,   \* the records in calculation_records
  purged,  \* those an operator has removed from it
  query,   \* the request being served, or served last
  stage,   \* how far it has got
  total,   \* what its first statement has counted
  pages,   \* the pages the auditor has been given, in order
  before   \* the records that were in the range when the walk began

queryVars == <<table, purged, query, stage, total, pages, before>>

QueryTypeOK ==
  /\ table \subseteq Records
  /\ purged \subseteq Records \ table
  /\ query \in Requests
  /\ stage \in {"idle", "refused", "asked", "counted", "failed", "answered", "walked"}
  /\ total \in Nat
  /\ \A i \in 1..Len(pages) :
       pages[i] \in Seq(Records) /\ Len(pages[i]) <= MaxPageSize
  /\ before \subseteq Records

QueryInit ==
  /\ table = {}
  /\ purged = {}
  /\ query = [from |-> 0, to |-> 0, page |-> 0, size |-> 0]
  /\ stage = "idle"
  /\ total = 0
  /\ pages = <<>>
  /\ before = {}

-----------------------------------------------------------------------------
\* Both ends of the range are included.
InRange(rows, q) ==
  {k \in rows : q.from <= CalculatedAt[k] /\ CalculatedAt[k] <= q.to}

\* Fault: oldest first.
Ascending(j, k) == CalculatedAt[j] <= CalculatedAt[k]

\* ORDER BY calculated_at DESC
Descending(j, k) == CalculatedAt[j] >= CalculatedAt[k]

\* The order of records that tie is open.
Orders(rows) ==
  {s \in [1..Cardinality(rows) -> rows] :
     \A i, j \in DOMAIN s : i < j => s[i] # s[j] /\ Descending(s[i], s[j])}

\* Fault: OFFSET page * page_size.
OffsetAfter(page, size) == page * size

Offset(page, size) == (page - 1) * size

\* OFFSET ... LIMIT page_size
Page(order, page, size) ==
  LET last == IF page * size < Len(order) THEN page * size ELSE Len(order)
  IN  SubSeq(order, Offset(page, size) + 1, last)

\* Fault: no largest page size.
RefusedUnbounded(q) == q.from >= q.to \/ q.page < 1 \/ q.size < 1

\* 422
Refused(q) == q.from >= q.to \/ q.page < 1 \/ ~(1 <= q.size /\ q.size <= MaxPageSize)

-----------------------------------------------------------------------------
\* The consumer commits a record; it may be older than those in the table.
Insert(k) ==
  /\ k \notin table \cup purged
  /\ table' = table \cup {k}
  /\ UNCHANGED <<purged, query, stage, total, pages, before>>

\* DELETE, by the one role that may: the record calculated first.
Purge ==
  /\ \E k \in table :
       /\ \A l \in table : CalculatedAt[k] <= CalculatedAt[l]
       /\ table' = table \ {k}
       /\ purged' = purged \cup {k}
  /\ UNCHANGED <<query, stage, total, pages, before>>

\* The first request of a walk.
Ask(q) ==
  /\ stage = "idle"
  /\ query' = q
  /\ stage' = IF Refused(q) THEN "refused" ELSE "asked"
  /\ before' = InRange(table, q)
  /\ UNCHANGED <<table, purged, total, pages>>

\* Fault: the count leaves the WHERE clause out.
AllRows == table

CountedRows == InRange(table, query)

Count ==
  /\ stage = "asked" /\ stage' = "counted"
  /\ total' = Cardinality(CountedRows)
  /\ UNCHANGED <<table, purged, query, pages, before>>

Fetch ==
  /\ stage = "counted" /\ stage' = "answered"
  /\ \E order \in Orders(InRange(table, query)) :
       pages' = Append(pages, Page(order, query.page, query.size))
  /\ UNCHANGED <<table, purged, query, total, before>>

\* A lost connection, or the end of the process that serves the request.
RequestFails ==
  /\ stage \in {"asked", "counted"} /\ stage' = "failed"
  /\ UNCHANGED <<table, purged, query, total, pages, before>>

LastPage == pages[Len(pages)]

AskNext ==
  /\ stage = "answered"
  /\ IF Len(LastPage) = query.size
       THEN query' = [query EXCEPT !.page = @ + 1] /\ stage' = "asked"
       ELSE stage' = "walked" /\ UNCHANGED query
  /\ UNCHANGED <<table, purged, total, pages, before>>

AskAgain ==
  /\ stage = "failed" /\ stage' = "asked"
  /\ UNCHANGED <<table, purged, query, total, pages, before>>

-----------------------------------------------------------------------------
(* Properties.  NothingSkipped and QuietWalkIsExact are for records that   *)
(* differ in calculated_at.                                                *)

Given(k) == \E i \in 1..Len(pages) : \E n \in 1..Len(pages[i]) : pages[i][n] = k

\* A walk from page 1 to a page that is not full has been given every record
\* that was in the range when it began and still is, whatever is inserted,
\* wherever in the order, or purged, between its requests and between the
\* statements of one request, and however often one has failed.
NothingSkipped ==
  stage = "walked" /\ Len(pages) = query.page => \A k \in before \cap table : Given(k)

\* The records a response counts are there to be read, or have been purged:
\* its page is as full as its total says, although the two come from different
\* snapshots.
PageAsFullAsTotal ==
  stage = "answered" =>
    \/ Len(LastPage) = query.size
    \/ Len(LastPage) >= total - Cardinality(purged) - (query.page - 1) * query.size

\* If nothing is inserted into the range or purged from it during the walk, the
\* pages put together are the range, newest first, each record once.
QuietWalkIsExact ==
  /\ stage = "walked" /\ Len(pages) = query.page
  /\ InRange(table, query) = before /\ InRange(purged, query) = {}
  => \E order \in [1..Cardinality(before) -> before] :
       /\ \A i \in 1..Len(pages), n \in 1..query.size :
            n \in DOMAIN pages[i] <=> (i - 1) * query.size + n \in DOMAIN order
       /\ \A i \in 1..Len(pages) : \A n \in DOMAIN pages[i] :
            pages[i][n] = order[(i - 1) * query.size + n]
       /\ \A i, j \in DOMAIN order : i < j => CalculatedAt[order[i]] > CalculatedAt[order[j]]

=============================================================================
