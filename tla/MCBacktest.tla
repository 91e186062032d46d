----------------------------- MODULE MCBacktest -----------------------------
(***************************************************************************)
(* Small instances of Backtest: for a strategy that may want anything,     *)
(* bars that differ in what the fills look at, on the trading days of a    *)
(* week and the next Sunday; for the two of the package, bars that differ  *)
(* in what the indicators look at.                                         *)
(***************************************************************************)
EXTENDS Backtest

Calendar == INSTANCE TradingCalendar WITH Holidays <- {}, LongestClosure <- 7

(* Day 6 is a Sunday, 9 a Wednesday, 13 the Sunday after.                  *)
SettlesOn(d) == Calendar!AddSessions(d, 2)
MonthOf(d)   == d \div 9

Bar(open, high, close, volume) ==
  [open |-> open, high |-> high, low |-> Min({open, close}), close |-> close, volume |-> volume]

Dated(b, d) == b @@ [date |-> d]

InBand(b, i) ==
  b[i + 1].high * 100 <= b[i].close * (100 + Band) /\ b[i + 1].low * 100 >= b[i].close * (100 - Band)

(* An ordinary bar, one that opens limit-up after it, one that opens       *)
(* limit-down after that, and one without volume.                          *)
Fills == {Bar(50, 50, 50, 40), Bar(60, 60, 60, 40), Bar(48, 50, 50, 40), Bar(50, 50, 50, 1)}

Days == {SetToSortSeq(S, <) : S \in kSubset(5, {6, 7, 8, 9, 10, 13})}

FillSeries ==
  {[i \in 1 .. 5 |-> Dated(b[i], days[i])] :
     b \in {b \in [1 .. 5 -> Fills] : \A i \in 1 .. 4 : InBand(b, i)}, days \in Days}

(* Quiet bars at three levels, one with a wick, and on volume a rise and a *)
(* fall, each within the band of the close before.                         *)
Signals ==
  {Bar(80, 80, 80, 20), Bar(96, 96, 96, 20), Bar(96, 112, 96, 20), Bar(112, 112, 112, 20),
   Bar(96, 112, 112, 100), Bar(112, 112, 96, 100)}

SignalDays == <<6, 7, 8, 9, 13, 14>>

SignalSeries ==
  {[i \in 1 .. 6 |-> Dated(b[i], SignalDays[i])] :
     b \in {b \in [1 .. 6 -> Signals] : \A i \in 1 .. 5 : InBand(b, i)}}

AllSeries(s)      == IF s = "any" THEN FillSeries ELSE SignalSeries
BreakoutSeries(s) == IF s = "breakout" THEN SignalSeries ELSE {}

(* The defaults, scaled down to a few bars.                                *)
SmallBreakout ==
  [channel |-> 2, atr |-> 2, multiple |-> 2, volume |-> 250, turnover |-> 400,
   fast |-> 1, slow |-> 2]
SmallBaseline == [rsi |-> 2, short |-> 1, long |-> 2, hold |-> 1]
=============================================================================
