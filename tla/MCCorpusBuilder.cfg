SPECIFICATION Spec
CHECK_DEADLOCK FALSE
CONSTANTS
  c1 = c1
  c2 = c2
  fine = fine
  weekday = weekday
  dated = dated
  Cells <- MCCells
  PlainCell = {c1}
  Required <- MCRequired
  Q99 <- MCQ99
  MinimalId = {1}
  Shuffle <- MCShuffle
  Comment = {fine, weekday}
  Violation <- MCViolation
  Before <- MCBefore
  BatchSize = 2
  Rounds = 1
  JudgePasses = 1
  EmptyParseAttempts = 2
  MaxRetries = 1
  DailyCap <- MCDailyCap
  PaidMax = 1
  Paying = {"topup"}
  MaxId = 4
  MaxDay = 2
  MaxStart = 2
  MaxCrash = 1
INVARIANTS
  NoDuplicatePasses
  SentWithinCap
  CorpusHasNoGap
PROPERTIES
  StagesOnlyGrow
