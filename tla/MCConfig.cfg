CONSTANTS
  base = base
  tA = tA
  tB = tB
  d1 = d1
  d2 = d2
  g = g
  w1 = w1
  w2 = w2
  BaseRow = base
  Tiers = {tA, tB}
  Districts = {d1, d2}
  RegionOf <- OneRegion
  Values = {1, 2}
  Absent = Absent
  Writers = {w1, w2}
  Readers = {q1}
  OpsOf <- OneCreator
  TierOf <- AsksTier
  DistrictOf <- AsksDistrict
  Pages = {{d1, d2}}
  SeededStore <- Seeded
SPECIFICATION LiveSpec
INVARIANTS TypeOK ReadFromCommitted
PROPERTIES ImplementsAtomicConfig EveryRequestEnds
CHECK_DEADLOCK FALSE
