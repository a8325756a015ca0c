SPECIFICATION FairSpec
CONSTANTS
  r1 = r1
  r2 = r2
  NumEvents = 2
  Dual <- DualRows
  Relays <- ReplicaSet
  BatchSize = 2
  SendTries = 2
  MaxAttempts = 2
  MaxCrashes = 1
  MaxDbErrors = 0
  MaxUnheard = 1
CHECK_DEADLOCK FALSE
PROPERTIES DeliveredDespiteCrashes
