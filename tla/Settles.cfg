SPECIFICATION SettlesSpec
CONSTANTS
  LogLength = 4
  KeyOf <- LateDuplicate
  Malformed = {}
  Submitted = {1, 3}
  Refused = {2}
  BatchLimit = 2
  FailureLimit = 2
  PauseAfter = 2
  TimerOn = FALSE
  MaxCallErrors = 2
  MaxRestarts = 1
  Consumers <- OneConsumer
  Partitions <- TwoPartitions
  NumMsgs = 5
  PartOf <- WideParts
  TopicOf <- WideTopics
  Poison = {1}
  MaxAttempts = 2
  DlqFails = FALSE
  MaxErrors = 3
  MaxRedisErrors = 0
  MaxCrashes = 0
  MaxMoves = 0
  anna = anna
  anna2 = anna2
  bela = bela
  c1 = c1
  p1 = p1
  p2 = p2
  global = global
  b1 = b1
  b2 = b2
  nobody = nobody
CHECK_DEADLOCK FALSE
INVARIANTS CommittedIsSettled CommittedIsHandled
PROPERTIES AcceptedIsSettled BreachesAreHandled
