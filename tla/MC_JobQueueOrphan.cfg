\* A job whose result the database refuses every time, and a single consumer.
CONSTANTS
  Jobs = {j1}
  Orphans = {j1}
  Workers = {w1}
  PoolSize = 1
  Operators = {}
  MaxRetries = 1
  ClaimBatch = 2
  MaxMessages = 2
  MaxFaults = 1
  NoDelivery = NoDelivery
SPECIFICATION FairSpec
CHECK_DEADLOCK FALSE
PROPERTY EveryJobSettles
