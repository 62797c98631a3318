SPECIFICATION Spec
CONSTANTS
  lazy = lazy
  fast = fast
  fill = fill
  refill = refill
  current = current
  old = old
  Comment = {1, 2, 3}
  Scopes <- MCOneScope
  Version = {current}
  Cap = 2
  Question = {lazy}
  Backfill = {}
  VersionOf <- MCVersionOf
  QAVersion = current
  StoredOnly = {}
  Cell <- MCCell
  Confidence <- MCConfidence
  Quotes = 1
INVARIANT
  HonestAnswersPass
CHECK_DEADLOCK FALSE
