SPECIFICATION RecordSpec
CONSTANTS
  None = None
  FirstDay = 8
  LastDay = 15
  Candidates <- Holidays
  LongestClosure = 10
  Basket = 7
  Present <- Presence
  StartClose = 6251
  Least = 8
  SplitDays = {10}
  SplitLags <- Lags
  Thresholds <- Limits
  EdgeIsBeyond <- OfWholeCloses
  Sample = 365
INVARIANTS
  StrictIsTrue
  HonestGapsPass
CHECK_DEADLOCK FALSE
