SPECIFICATION Spec
CONSTANTS
  None = None
  Breakout <- SmallBreakout
  Baseline <- SmallBaseline
  Average = 2
  Series <- AllSeries
  Capital = 500
  VolumeDivisor = 20
  Slippage = 2
  Band = 20
  SettleDate <- SettlesOn
  Month <- MonthOf
  FreeTrades = 1
INVARIANTS
  ExitsOnFirstDeliverableBar
  AllowanceCountsTrades
  NoLookAhead
  BreakoutIsNotADip
CHECK_DEADLOCK FALSE
