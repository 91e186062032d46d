------------------------------ MODULE Backtest ------------------------------
(***************************************************************************)
(* run_backtest (backtest/engine.py): the replay of a strategy over the    *)
(* bars of one symbol, one bar a step.                                     *)
(*                                                                         *)
(* The strategy is one of the two of the package, or "any", one that may   *)
(* want anything, as Strategy is a protocol.  Profit and tax are sums over *)
(* the trades and are left out; of a commission the model keeps whether it *)
(* was charged.                                                            *)
(***************************************************************************)
EXTENDS Strategies

CONSTANTS
  Series(_),      \* the series a strategy may be replayed over
  Capital,        \* capital_egp
  VolumeDivisor,  \* 1 / volume_cap
  Slippage,       \* in thousandths
  Band,           \* price_band, in percent
  SettleDate(_),  \* calendar.add_sessions(date, settlement_sessions)
  Month(_),
  FreeTrades

Price  == Nat \ {0}
Candle ==
  {c \in [date : Int, open : Price, high : Price, low : Price, close : Price, volume : Nat] :
     {c.open, c.close} \subseteq c.low .. c.high}

ASSUME BacktestConstants ==
  /\ \A s \in {"any", "breakout", "baseline"} : \A b \in Series(s) : b \in Seq(Candle)
  /\ Capital \in Nat /\ VolumeDivisor \in Nat \ {0} /\ Slippage \in Nat /\ FreeTrades \in Nat

VARIABLES
  strategy,
  bars,        \* the candles
  at,          \* i, the bar the strategy sees
  position,    \* None, or the entry, its quantity and its settlement date
  trades,      \* result.trades
  executions   \* CostModel._executions

vars == <<strategy, bars, at, position, trades, executions>>

Months == {Month(bars[i].date) : i \in DOMAIN bars}

Init ==
  /\ strategy \in {"any", "breakout", "baseline"}
  /\ bars \in Series(strategy)
  /\ at = 1 /\ position = None /\ trades = <<>>
  /\ executions = [m \in Months |-> 0]

----------------------------------------------------------------------------
Wants(signal) ==
  \/ strategy = "any"
  \/ signal = Intent(strategy, bars, at, IF position = None THEN None ELSE position.entry)

(* _fill_price: an open at the limit of the band does not fill.  Both fill *)
(* prices are in thousandths.                                              *)
Buyable(bar)  == bar.open * 100 < bars[at].close * (100 + Band)
Sellable(bar) == bar.open * 100 > bars[at].close * (100 - Band)
BuyPrice(bar) == bar.open * (1000 + Slippage)

(* _position_size                                                          *)
Size(bar) == Min({(Capital * 1000) \div BuyPrice(bar), bar.volume \div VolumeDivisor})

Next1 == bars[at + 1]
CanEnter == Buyable(Next1) /\ Size(Next1) > 0

Enter ==
  /\ at < Len(bars) /\ position = None /\ Wants("enter") /\ CanEnter
  /\ position' = [entry |-> at + 1, quantity |-> Size(Next1), settles |-> SettleDate(Next1.date)]
  /\ at' = at + 1
  /\ UNCHANGED <<strategy, bars, trades, executions>>

(* Mutant of ExitBars: the sale does not wait for settlement.              *)
ExitBarsAtOnce == at + 1 .. Len(bars)

(* _index_on_or_after: the bars at which the shares can be delivered.      *)
ExitBars == {j \in at + 1 .. Len(bars) : bars[j].date >= position.settles}

CanExit == ExitBars # {} /\ Sellable(bars[Min(ExitBars)])

Counted(counts, m) == [counts EXCEPT ![m] = @ + 1]
Charged(counts, m) == IF counts[m] < FreeTrades THEN 0 ELSE 1

(* Mutant of ExitMonth: both executions are counted in the entry's month.  *)
ExitMonthOfEntry(exit) == Month(bars[position.entry].date)

ExitMonth(exit) == Month(bars[exit].date)

(* _close_position: both commissions are charged here, the entry's first.  *)
Exit ==
  /\ at < Len(bars) /\ position # None /\ Wants("exit") /\ CanExit
  /\ LET exit  == Min(ExitBars)
         entryMonth == Month(bars[position.entry].date)
         after == Counted(executions, entryMonth)
     IN  /\ trades' = Append(trades,
              [signal |-> at, entry |-> position.entry, exit |-> exit,
               quantity |-> position.quantity,
               charged |-> Charged(executions, entryMonth) + Charged(after, ExitMonth(exit))])
         /\ executions' = Counted(after, ExitMonth(exit))
  /\ position' = None
  /\ at' = at + 1
  /\ UNCHANGED <<strategy, bars>>

(* Nothing wanted, or what is wanted cannot be filled.                     *)
Stay ==
  /\ at < Len(bars)
  /\ \/ Wants("hold")
     \/ position = None /\ (Wants("exit") \/ (Wants("enter") /\ ~CanEnter))
     \/ position # None /\ (Wants("enter") \/ (Wants("exit") /\ ~CanExit))
  /\ at' = at + 1
  /\ UNCHANGED <<strategy, bars, position, trades, executions>>

Next == Enter \/ Exit \/ Stay

Spec == Init /\ [][Next]_vars

----------------------------------------------------------------------------
(* Every trade is closed at the first bar after its signal at which the    *)
(* shares had settled, weekends and missing sessions included              *)
(* (_close_position: "the sell waits for settlement").                     *)
ExitsOnFirstDeliverableBar ==
  \A k \in DOMAIN trades :
    LET t == trades[k]
        deliverable(j) == bars[j].date >= SettleDate(bars[t.entry].date)
    IN  /\ t.signal < t.exit /\ deliverable(t.exit)
        /\ \A j \in t.signal + 1 .. t.exit - 1 : ~deliverable(j)

EntriesIn(m) == {k \in DOMAIN trades : Month(bars[trades[k].entry].date) = m}
ExitsIn(m)   == {k \in DOMAIN trades : Month(bars[trades[k].exit].date) = m}

(* What the months have above the allowance, together.                     *)
Excess(counts) ==
  LET months == SetToSeq(Months)
  IN  SumOf([k \in DOMAIN months |-> Max({0, counts[months[k]] - FreeTrades})])

(* The allowance counts each side of each trade in the month it is dated,  *)
(* and charges just what exceeds it, though both sides are counted at the  *)
(* exit, which may be in a later month, or never come (CostModel).         *)
AllowanceCountsTrades ==
  /\ \A m \in Months : executions[m] = Cardinality(EntriesIn(m)) + Cardinality(ExitsIn(m))
  /\ SumOf([k \in DOMAIN trades |-> trades[k].charged]) = Excess(executions)

(* No look-ahead: what a strategy wants after bar i is what it would want  *)
(* if the series ended there, with and without a position (base.py         *)
(* "Decide using bars 0..i only").                                         *)
NoLookAhead ==
  at = 1 /\ strategy # "any" =>
    \A i \in DOMAIN bars : \A entry \in {None} \cup 1 .. i :
      Intent(strategy, bars, i, entry) = Intent(strategy, SubSeq(bars, 1, i), i, entry)

(* mean_reversion.py: "a breakout can never trigger it".  A breakout to a  *)
(* high above all that came before is not an entry of the baseline.        *)
BreakoutIsNotADip ==
  at = 1 /\ strategy = "baseline" =>
    \A i \in DOMAIN bars :
      BreakoutEnters(bars, i) /\ (\A j \in 1 .. i - 1 : bars[j].high < bars[i].close)
        => ~BaselineEnters(bars, i)

(* breakout.py:17 "A chandelier stop ... ratcheting up and never down":    *)
(* while a position is held its stop does not fall.                        *)
StopRatchets ==
  [][position # None /\ position' = position /\ at' < Len(bars)
       /\ BreakoutStop(bars, position.entry, at) # None
       => BreakoutStop(bars, position.entry, at') >= BreakoutStop(bars, position.entry, at)]_vars
=============================================================================
