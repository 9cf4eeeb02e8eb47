CONSTANTS
  r1 = r1
  r2 = r2
  A = A
  B = B
  e1 = e1
  e2 = e2
  e3 = e3
  e4 = e4
  w1 = w1
  w2 = w2
  w3 = w3
  code1 = code1
  code2 = code2
  eastR = eastR
  westR = westR
  good = good
  moved = moved
  short = short
  torn = torn
  Absent = Absent
  NoFile = NoFile
  Tiers = {A}
  Districts = {e1, e2, e3, e4, w1, w2, w3}
  PostalCodes = {code1, code2}
  Values = {80, 90, 100, 103, 105, 115, 120}
  SeedRate = 103
  SeedTier <- MCSeedTier
  Places <- MCPlaces
  WithScores = {r1, r2}
  AdminValues = {80}
  Calibrated = {w1}
  Runs = {r1, r2}
  Regions = {eastR, westR}
  EastRegions = {eastR}
  Clusters = {0, 1}
  Labellings <- MCLabellings
  Inputs = {good, moved, short, torn}
  PlacesOf <- MCPlacesOf
  Expected = 7
  FlushedAt = {3}
SPECIFICATION Spec
INVARIANTS TypeOK SeededTogether MappingResolves PricedByItsCluster NeutralOnlyIfUnfinished SingletonUnlessOverlap
PROPERTIES CalibrationSurvives
CHECK_DEADLOCK FALSE
