CONSTANTS
  Scale = 10
  ColumnLimit = 99
  InputScale = 40
  Inputs = {0, 1, 2, 30, 165, 397, 398}
  Seeded <- MCSeeded
  AuditScale = 10
  AuditLimit = 99999
  Coefficients = 1000000
  Terms = {1, 12, 13, 36, 37, 60, 61}
SPECIFICATION Spec
INVARIANTS TypeOK RecordIsReproducible RefusedIsTiny PricedByBand
CHECK_DEADLOCK FALSE
