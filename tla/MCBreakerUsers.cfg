SPECIFICATION MCSpec
CONSTANTS
  FailureThreshold = 2
  Cooldown = 2
  MaxCall = 4
  Caller = {c1, c2, c3}
  Call = {m1, m2, m3}
  MaxRequests = 5
  Paid = TRUE
  MaxSpend = 3
  Estimate = 2
  Costs = {0, 2}
  Priciest = 2
  MaxWait = 1
  Delays = {0, 1}
  FallbackWait = 2
  MaxTransient = 1
  first = m1
  Backoff <- MCBackoff
  RequestTimeout = 1
  CallTimeout = 4
INVARIANTS
  OpenExactlyOnAFailureRun
  SlotHeldByALiveTrial
  CapsHold
  WaitsWithinLimit
  SlotMeansCallInFlight
PROPERTIES
  NoCallDuringCooldown
  NeverShutOut
  EveryCallEnds
