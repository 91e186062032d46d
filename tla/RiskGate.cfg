SPECIFICATION RiskSpec
CONSTANTS
  Symbol <- Comi
  Price <- Mills
  Quantity = {1, 3}
  LastDay = 2
  MaxExecutions = 5
  MaxSeeds = 1
  InitialCash = 5000
  SettleDate <- SettlesOn
  Month <- MonthOf
  FreeTrades = 4
  FlatFee = 2000
  FeeDivisor = 1000
  Proposal <- RoutedOrders
  NoOrder = NoOrder
  MaxInFlight = 2
  Tradable <- Comi
  AvgVolume <- NoVolume
  VolumeShare = 5
  MaxOrder = 10000
  MaxPosition = 200
  DailyLoss = 50
  MaxNew = 1
  RiskFree = 4
  ExitReserve = 2
INVARIANTS
  RiskTypeOK
  ReserveIsForExits
  NewPositionsCapped
  EntriesAreFree
  ExitsDeliverable
PROPERTIES
  EntriesNeverOverdraw
CHECK_DEADLOCK FALSE
