SPECIFICATION Spec
CONSTANTS
  BudgetRoads = {d1, d2}
  SeedRoad = d1
  BudgetIds = {i1, i2}
  SeedId = i1
  Amounts = {1, 4}
  SeedAmounts <- MCSeedAmounts
  Times = {0, 2}
  SixMonths = 0
  TwoYears = 1
  MaxRecords = 2
  Roads = {d1, d2}
  SeedRoads = {d2}
  RoadClients = {"nhai", "watch"}
  MspOf <- MCMspOf
  RoadAdmins = {"nhai"}
  ContractIds = {k1}
  Contractors = {r1}
  NoContractor = nobody
  Scores = {1, 2}
  Details = {t1}
  MaxVersion = 3
  Officers = {o1, o2}
  FirstSeed = o1
  OtherSeeds = {o2}
  Posts = {p1, p2}
  AuthorityClients = {a1}
  Cases = {x1, x2}
  ActionTypes = {"ACKNOWLEDGED", "RESOLVED"}
  Seconds = {0, 1}
  MaxAuthorityVersion = 3
  MaxLog = 2
  Rules <- MCRules
  CountryOf <- MCCountryOf
  WildcardOf <- MCWildcardOf
  SeedRules = {"north", "all"}
  Offices = {ward, district}
  NoOffice = none
  RuleClients = {u1}
  MaxEscalationDepth = 3
  MaxRuleVersion = 2
  Roots = {m1, m2}
  SeedRoot = m1
  Anchored = {x1, x2}
  SeedAnchored = x1
  Routes <- MCRoutes
  Tiers = {1, 6}
  Evidence = {e1}
  AnchorSeconds = {0, 1}
  Events <- MCEvents
  ReportsOf <- MCReportsOf
  MaxEndorsed = 5
CHECK_DEADLOCK FALSE
INVARIANTS RecordsHold LedgerInvariant
PROPERTIES RoadsAreVersioned NoLostRoadUpdate RecordsKept
