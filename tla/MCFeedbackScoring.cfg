SPECIFICATION Spec
CONSTANTS
  lazy = lazy
  fast = fast
  fill = fill
  refill = refill
  current = current
  old = old
  Comment = {1, 2, 3}
  Scopes <- MCScopes
  Version = {current, old}
  Cap = 2
  Question = {lazy, fast}
  Backfill = {fill, refill}
  VersionOf <- MCVersionOf
  QAVersion = current
  StoredOnly = {fast}
  Cell <- MCCell
  Confidence <- MCConfidence
  Quotes = 1
INVARIANTS
  CompleteCoversAll
  NewestAreCounted
  InsertedOnce
  QAPassMeansConsistent
  BackfillFallsShortOnlyIfRaced
CHECK_DEADLOCK FALSE
