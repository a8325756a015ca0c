SPECIFICATION Spec
CONSTANTS
  anna = anna
  anna2 = anna2
  bela = bela
  Clients <- AllClients
  KeyOf <- SentTwice
  HashOf <- SamePayload
  ScanAttempts = 2
  SlowOwners = FALSE
  MaxTxErrors = 1
  MaxLateErrors = 1
  MaxCrashes = 1
  MaxCloses = 1
CHECK_DEADLOCK FALSE
INVARIANTS OneOwnerPerKey EachReportOnce AnswersAgree FilingInvariant
PROPERTIES MergedWhileOpen
