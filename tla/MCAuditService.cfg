CONSTANTS
  a = a
  b = b
  c = c
  d = d
  i1 = i1
  i2 = i2
  Instances = {i1, i2}
  Records = {a, b, c, d}
  CalculatedAt <- DistinctTimes
  Queries <- SomeQueries
  MaxPageSize = 2
SPECIFICATION Spec
INVARIANTS TypeOK NothingSkipped PageAsFullAsTotal QuietWalkIsExact AppendOnly ServesWholeSchema UsableUnlessInterrupted
SYMMETRY InstanceSymmetry
CHECK_DEADLOCK FALSE
