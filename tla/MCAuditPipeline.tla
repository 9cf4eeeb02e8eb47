--------------------------- MODULE MCAuditPipeline --------------------------
(* Instances of AuditPipeline for TLC. *)
EXTENDS AuditPipeline

CONSTANTS k1, k2, k3, id1, id2

\* k1 and k2 carry one correlation id.
SharedCidOf == [k \in Calcs |-> IF k = k3 THEN id2 ELSE id1]

\* Every calculation has its own, as when a gateway issues them.
OwnCidOf == [k \in Calcs |-> k]

\* The rows of k2 and k3 carry the same time.
TiedCreatedAt == [k \in Calcs |-> IF k = k1 THEN 1 ELSE 2]
=============================================================================
