SPECIFICATION Spec
CONSTANTS
  anna = anna
  anna2 = anna2
  bela = bela
  Clients <- AllClients
  KeyOf <- SentTwice
  HashOf <- SamePayload
  ScanAttempts = 2
  SlowOwners = FALSE
  MaxTxErrors = 0
  MaxLateErrors = 1
  MaxCrashes = 0
  MaxCloses = 0
CHECK_DEADLOCK FALSE
INVARIANTS ReleaseStartsClean

