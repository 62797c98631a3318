\* One address more than the limit remembers; every limit can be reached.
SPECIFICATION Spec
CONSTANTS
  None = None
  Invite = {i1, i2}
  Address = {a1, a2, a3}
  Request = {r1, r2}
  ExchangeLimit = 2
  ExchangeWindow = 2
  SessionLimit = 2
  SessionWindow = 1
  MaxKeys = 2
  DailyLimit = 2
  MaxRequests = 4
  MaxTime = 2
  MaxDay = 1
SYMMETRY Symmetry
INVARIANTS
  LimitsRemember
  CapCountsForwarded
