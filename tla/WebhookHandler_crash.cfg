SPECIFICATION Spec
CONSTANTS
  c1 = c1
  c2 = c2
  p1 = p1
  p2 = p2
  Consumers <- Solo
  Partitions <- OnePartition
  NumMsgs = 2
  TopicOf <- StatusTwice
  PartOf <- AllFirst
  Poison <- None
  MaxAttempts = 2
  DlqFails = FALSE
  MaxErrors = 0
  MaxRedisErrors = 0
  MaxCrashes = 1
  MaxMoves = 0
CHECK_DEADLOCK FALSE
INVARIANTS CommittedIsHandled

