SPECIFICATION Spec
CONSTANTS
  comi = comi
  Symbol = {comi}
  Price <- Mills
  Quantity = {1, 2}
  LastDay = 3
  MaxExecutions = 3
  MaxSeeds = 1
  InitialCash = 4000
  SettleDate <- SettlesOn
  Month <- MonthOf
  FreeTrades = 1
  FlatFee = 2000
  FeeDivisor = 1000
INVARIANTS
  BooksBalance
PROPERTIES
  OldestSoldFirst
  ImplementsDelivery
CHECK_DEADLOCK FALSE
