SPECIFICATION AnchorSpec
CONSTANTS
  LogLength = 3
  KeyOf <- DistinctKeys
  Malformed <- None
  Submitted <- OddOnes
  Refused <- None
  BatchLimit = 2
  FailureLimit = 2
  PauseAfter = 2
  TimerOn = TRUE
  MaxCallErrors = 0
  MaxRestarts = 0
CHECK_DEADLOCK FALSE
INVARIANTS CommittedIsSettled

