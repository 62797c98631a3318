SPECIFICATION MCSpec
CONSTANTS
  FailureThreshold = 1
  Cooldown = 1
  r1 = r1
  r2 = r2
  qa = qa
  Request = {r1, r2}
  Specialist = {reporting}
  Clarifying = {reporting}
  QA = qa
  Text = {t1}
  HopCap <- MCHopCap
  RouteCap = 1
  Budget = 6
  Reserve = 1
  MaxRetries = 2
  MaxCost = 2
  Costs = {0, 1}
INVARIANTS
  TrialIsARequestInFlight
  ResponsesValidate
  BudgetsKept
  FailedAttemptHidden
PROPERTIES
  EveryRequestAnswered
  KeepsThePromise
