\* One job; MaxMessages is never reached, so that no guard of the bound delays progress.
CONSTANTS
  Jobs = {j1}
  Orphans = {}
  Workers = {w1, w2}
  PoolSize = 1
  Operators = {}
  MaxRetries = 1
  ClaimBatch = 2
  MaxMessages = 5
  MaxFaults = 1
  NoDelivery = NoDelivery
SPECIFICATION FairSpec
CHECK_DEADLOCK FALSE
PROPERTIES EveryJobSettles QueueDrains
