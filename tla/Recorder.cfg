SPECIFICATION FairSpec
CONSTANTS
  BucketSize = 2
  DayLength = 8
  TradingDay <- WeekDay
  RegularHours <- Hours
  SpecialSessions <- Ramadan
  NoVolume = NoVolume
  Symbol = {comi}
  Price = {1, 2}
  SessionStart = 2
  SessionEnd = 6
  MaxTime = 7
  Sleep = 1
  MaxFailures = 2
  MaxTraded = 1
  MaxKills = 1
INVARIANTS
  TypeOK
  SettledBucketsStored
  BarsInsideSession
  GivesUpAfterFailuresInARow
PROPERTIES
  OpenBucketNotPersisted
  EventuallyStops
CHECK_DEADLOCK FALSE
