---------------------------- MODULE MCConfigStore ---------------------------
(* Instances of ConfigStore for TLC: one region of two districts, tier tA   *)
(* seeded and tier tB not.                                                  *)
EXTENDS ConfigStore

CONSTANTS base, tA, tB, d1, d2, g, w1, w2

OneRegion == [d \in Districts |-> g]

\* A calculation asks for tier A and district d1.
AsksTier     == [q \in Readers |-> tA]
AsksDistrict == [q \in Readers |-> d1]

Seeded == [r \in Rows |-> IF r = tB THEN Absent ELSE 1]

\* Anything but creates, which only w1 makes.
OneCreator == [w \in Writers |-> IF w = w1 THEN Ops ELSE {o \in Ops : o.kind # "postTier"}]

AnyOperation == [w \in Writers |-> Ops]
=============================================================================
