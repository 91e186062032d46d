SPECIFICATION Spec
CONSTANTS
  BucketSize = 2
  DayLength = 8
  TradingDay <- WeekDay
  RegularHours <- Hours
  SpecialSessions <- Ramadan
  NoVolume = NoVolume
  Symbol = {comi, etel}
  Price = {1, 2}
  SessionStart = 2
  SessionEnd = 6
  MaxTime = 7
  Sleep = 1
  MaxFailures = 2
  MaxTraded = 0
  MaxKills = 0
INVARIANTS
  SettledBucketsStored
CHECK_DEADLOCK FALSE
