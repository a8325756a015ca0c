SPECIFICATION CacheSpec
CONSTANTS
  Readers <- TwoReaders
  Replicas = {"one"}
  ReplicaOf <- OneProcess
  None = None
  MaxWrites = 2
  MaxLosses = 0
CHECK_DEADLOCK FALSE
INVARIANTS FreshAfterBump
