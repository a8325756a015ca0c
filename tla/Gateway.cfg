SPECIFICATION GatewaySpec
CONSTANTS
  a = a
  b = b
  anna = anna
  bela = bela
  global = global
  c1 = c1
  c2 = c2
  r1 = r1
  r2 = r2
  r3 = r3
  r4 = r4
  cora = cora
  dora = dora
  edna = edna
  Requests <- TwoRequests
  Counters <- ThreeCounters
  Permits <- RouteThenGlobal
  MaxRate <- RateLimits
  MaxInflight <- OneAtATime
  MaxAborts = 1
  MaxFaults = 2
  Reports <- FourReports
  PortalReports = {r1, r2, r3}
  TypeOf <- OneLamp
  CellOf <- TwoCells
  Unlocked = Unlocked
  MaxMoves = 1
  MaxMishaps = 1
  Complaints = {c1, c2}
  LifecycleRequests = {"q"}
  Nobody = Nobody
  TopTier = 3
  StartScores <- JustTrusted
  MaxRequests = 2
  MaxSlips = 1
  Readers <- ThreeReaders
  Replicas = {"one", "two"}
  ReplicaOf <- FirstServesTwo
  None = None
  MaxWrites = 1
  MaxLosses = 1
  i1 = i1
  i2 = i2
  d1 = d1
  d2 = d2
  t1 = t1
  t2 = t2
  Items = {i1, i2}
  Photos = {i1}
  Refusable = {i1}
  Tabs = {t1, t2}
  Drains <- TwoDrains
  TabOf <- OneEach
  Nothing = Nothing
  MaxBreaks = 2
  MaxReloads = 1
SYMMETRY Alike
CHECK_DEADLOCK FALSE
INVARIANTS CounterIsTrue RateIsTrue BackstopArmed WorkWithinInflight IntakeInvariant LifecycleInvariant RepeatsAreAccounted SharedFillsAreFresh OfflineInvariant
PROPERTIES ReportsOnlyEscalate
