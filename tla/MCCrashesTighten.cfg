SPECIFICATION MCSpec
CHECK_DEADLOCK FALSE
CONSTANTS
  Database = {dev, test}
  Rep = {1}
  MinHits = 1
  Items = 1
  ProbeItems = 1
  Backstop = 2
  ProbeBackstop = 2
  RunSpend = 20
  ProbeSpend = 10
  RequestCap = 5
  SpendCap = 20
  Price = {2, 6}
  Ceiling = 4
  MaxSession = 3
  MaxKill = 1
  Driver = {1, 2}
  Worker = {1, 2}
  Main = 1
  MaxRequests = 5
  MaxDollars = 5
  Cost <- MCCost
  Jobs = 2
  TallyCount = 2
  CapTestMax = 2
  HourlyLimit = 1
  MaxCrash = 1
  None = None
INVARIANT
  CrashesOnlyTighten
