SPECIFICATION RiskSpec
CONSTANTS
  Symbol <- Comi
  Price <- Mills
  Quantity = {1, 2}
  LastDay = 3
  MaxExecutions = 3
  MaxSeeds = 1
  InitialCash = 3000
  SettleDate <- SettlesOn
  Month <- MonthOf
  FreeTrades = 3
  FlatFee = 2000
  FeeDivisor = 1000
  Proposal <- UrgentOrders
  NoOrder = NoOrder
  MaxInFlight = 1
  Tradable <- Comi
  AvgVolume <- NoVolume
  VolumeShare = 5
  MaxOrder = 10000
  MaxPosition = 100
  DailyLoss = 50
  MaxNew = 1
  RiskFree = 3
  ExitReserve = 1
PROPERTIES
  ProceedsSettleFirst
CHECK_DEADLOCK FALSE
