CONSTANTS
  k1 = k1
  k2 = k2
  k3 = k3
  id1 = id1
  id2 = id2
  Calcs = {k1, k2, k3}
  Cids = {id1, id2}
  CidOf <- SharedCidOf
  CreatedAt <- TiedCreatedAt
  Foreign = {f1}
  Unstorable = {k3}
  Relays = {p1, p2}
  Consumers = {c1}
  BatchSize = 2
  MaxQueue = 1
  None = None
SPECIFICATION Spec
INVARIANTS TypeOK NoEventLost ConflictIsAudited LedgerConsistent OnlyForeignRejected IndInv
PROPERTIES SettledIsDone ImplementsLedger
CHECK_DEADLOCK FALSE
