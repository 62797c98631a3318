SPECIFICATION MCClientSpec
CONSTANTS
  FailureThreshold = 2
  Cooldown = 2
  MaxCall = 1
  Caller = {c1}
  Call = {c1, c2, c3}
  MaxRequests = 8
  Paid = FALSE
  MaxSpend = 3
  Estimate = 2
  Costs = {0, 2}
  Priciest = 2
  MaxWait = 2
  Delays = {0, 1}
  FallbackWait = 2
  MaxTransient = 2
  first = c1
  Backoff <- MCBackoff
  RequestTimeout = 2
  CallTimeout = 2
SYMMETRY Symmetry
INVARIANTS
  UnansweredCallsOpenIt
