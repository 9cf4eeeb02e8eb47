CONSTANTS
  k1 = k1
  k2 = k2
  k3 = k3
  id1 = id1
  id2 = id2
  Calcs = {k1, k2}
  Cids = {k1, k2}
  CidOf <- OwnCidOf
  CreatedAt <- TiedCreatedAt
  Foreign = {f1}
  Unstorable = {}
  Relays = {p1}
  Consumers = {c1}
  BatchSize = 2
  MaxQueue = 2
  None = None
SPECIFICATION LiveSpec
PROPERTIES CommittedIsRecorded ComesToRest
CHECK_DEADLOCK FALSE
