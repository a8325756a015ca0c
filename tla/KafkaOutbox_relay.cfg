SPECIFICATION FairSpec
CONSTANTS
  NumEvents = 2
  Dual <- DualRows
  r1 = r1
  r2 = r2
  Relays <- ReplicaSet
  BatchSize = 2
  SendTries = 2
  MaxAttempts = 2
  MaxCrashes = 1
  MaxDbErrors = 1
  MaxUnheard = 2
CHECK_DEADLOCK FALSE
INVARIANTS ClaimExclusive SentIsOnEveryCluster CopiesWithinAttempts DeadIsExhausted OutboxInvariant
PROPERTIES PublishOnlyWhileClaimed ImplementsDelivery EventuallySettled
