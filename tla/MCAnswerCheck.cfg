SPECIFICATION MCSpec
CHECK_DEADLOCK FALSE
CONSTANTS
  None = None
  Technicians <- MCTechnicians
  Accounts <- MCAccounts
  WordsOf <- MCWordsOf
  Locations <- MCLocations
  RegionOf <- MCRegionOf
  Alphabet <- MCAlphabet
  WindowStart = 1
  WindowEnd = 4
  MaxGroups = 2
  MaxMatches = 2
  MinCases = 2
  RateUnit = 10000
  POne = 100
  Alpha = 5
  PValue <- MCPValue
  Requests <- MCRequests
  Databases <- MCDatabases
  AsOf = 4
  MonthLength = 2
  TextGroups = 1
  MinDenominator = 2
  QAAsOf = 4
  QAMonth = 2
  QAMinCases = 2
  QARanked = 1
  InterpModes = {"advisory", "enforce"}
  RecomputeModes = {TRUE, FALSE}
  ForecastRequests <- MCForecastRequests
  ForecastWorlds <- MCForecastWorlds
  ForecastAsOf = 6
  ForecastMonth = 3
  WeekLength = 2
  LastWeek = 5
  MaxHorizon = 4
  Bands <- MCBands
  HistoryWeeks = 2
  YearEndDays = {12}
  Predicted <- MCPredicted
  SentimentRequests <- MCSentimentRequests
  SentimentWorlds <- MCSentimentWorlds
  SentimentAsOf = 6
  SentimentMonth = 2
  QuarterMonths = 2
  TrendMonths = 3
  SentimentStart = 1
  SentimentEnd = 6
  MaxSpan = 6
  ScoreCap = 2
  ExamplesLimit = 2
  MinSide = 2
  TrendAlpha = 500
  TwoProportion <- MCTwoProportion
  Classify <- MCClassify
  Threshold = 6000
  FlagBand = 1
  RatingFails <- MCRatingFails
INVARIANTS
  HonestPasses
  FaultsCaught
  ToolKeepsItsWord
  PairsHold
