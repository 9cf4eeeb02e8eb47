--------------------------- MODULE MCAuditService ---------------------------
(* Instances of AuditService for TLC: up to four records, two instances.   *)
EXTENDS AuditService, TLC

CONSTANTS a, b, c, d, i1, i2

DistinctTimes == [k \in Records |-> CASE k = a -> 1 [] k = b -> 2 [] k = c -> 3 [] OTHER -> 4]

\* Two ranges that records fall into and out of; what the endpoint refuses.
Ranged(from, to, page, size) == [from |-> from, to |-> to, page |-> page, size |-> size]
SomeQueries ==
  {Ranged(2, 4, 1, 1), Ranged(1, 3, 1, 2),
   Ranged(3, 3, 1, 1), Ranged(1, 4, 0, 1), Ranged(1, 4, 1, 0), Ranged(1, 4, 1, MaxPageSize + 1)}

InstanceSymmetry == Permutations(Instances)
=============================================================================
