SPECIFICATION Spec
CONSTANTS
  Candidates = {6, 7, 8, 9, 10, 13, 14}
  FirstDay = 3
  LastDay = 14
  MaxCount = 3
  LongestClosure = 12
  BucketSize = 2
  DayLength = 10
  TradingDay <- EveryDay
  RegularHours <- Hours
  SpecialSessions <- NoSpecial
  NoVolume = NoVolume
  Symbol = {comi}
  Times = {1, 4, 5, 6, 7}
  Prices = {1, 2}
  Volumes <- Totals
  MaxTicks = 3
  None = None
INVARIANTS
  SettlesAfterNSessions
  CountUndoesAdd
  BarsAreTheBuckets
  RestartMergesBuckets
  MergeIsByPriority
  FailuresLoseNothing
  ComparisonForetellsMerge
CHECK_DEADLOCK FALSE
