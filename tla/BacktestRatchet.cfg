SPECIFICATION Spec
CONSTANTS
  None = None
  Breakout <- SmallBreakout
  Baseline <- SmallBaseline
  Average = 2
  Series <- BreakoutSeries
  Capital = 500
  VolumeDivisor = 20
  Slippage = 2
  Band = 20
  SettleDate <- SettlesOn
  Month <- MonthOf
  FreeTrades = 1
PROPERTIES
  StopRatchets
CHECK_DEADLOCK FALSE
