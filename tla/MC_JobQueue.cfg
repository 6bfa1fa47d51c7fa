\* Two worker processes with one consumer each, one operator, one crash or failed call.
CONSTANTS
  Jobs = {j1}
  Orphans = {}
  Workers = {w1, w2}
  PoolSize = 1
  Operators = {o1}
  MaxRetries = 1
  ClaimBatch = 2
  MaxMessages = 3
  MaxFaults = 1
  NoDelivery = NoDelivery
SPECIFICATION Spec
SYMMETRY Symmetry
CHECK_DEADLOCK FALSE
INVARIANTS TypeOK NoJobLost AckAfterPersist EntriesReachable RetriesBounded DeletableDeadLetter
PROPERTY ImplementsLedger
