SPECIFICATION ConsumersSpec
CONSTANTS
  c1 = c1
  c2 = c2
  p1 = p1
  p2 = p2
  Consumers <- Duo
  Partitions <- OnePartition
  NumMsgs = 2
  TopicOf <- StatusTwice
  PartOf <- AllFirst
  Poison <- None
  MaxAttempts = 2
  DlqFails = TRUE
  MaxErrors = 3
  MaxRedisErrors = 1
  MaxCrashes = 1
  MaxMoves = 1
  LogLength = 4
  KeyOf <- LateDuplicate
  Malformed <- Second
  Submitted <- OddOnes
  Refused = {}
  BatchLimit = 2
  FailureLimit = 2
  PauseAfter = 2
  TimerOn = TRUE
  MaxCallErrors = 2
  MaxRestarts = 1
  Reports <- Three
  TypeOf <- OneDamage
  Unlocked = "no report"
  Replicas = {"one"}
  BatchSize = 2
  MaxChanges = 1
  MaxFaults = 1
CHECK_DEADLOCK FALSE
INVARIANTS WebhookInvariant AtMostOnce AnchorInvariant ProcessedIsAccounted AnnouncedIsRooted BackendInvariant
PROPERTIES StatusNeverRegresses NoAnchorAfterProcessed
