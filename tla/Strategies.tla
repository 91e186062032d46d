----------------------------- MODULE Strategies -----------------------------
(***************************************************************************)
(* The two strategies (strategies/breakout.py, mean_reversion.py): what    *)
(* each wants at the next open, having seen a bar.  prepare and evaluate   *)
(* are both handed the whole series, so that no later bar is used is a     *)
(* property of the indicators and not of the interface.                    *)
(***************************************************************************)
EXTENDS Indicators

CONSTANTS
  Breakout,  \* BreakoutParams: channel, atr, multiple, volume (percent), turnover, fast, slow
  Baseline,  \* MeanReversionParams: rsi, short, long, hold
  Average    \* the period relative_volume and turnover_egp default to

(* A period is at least a bar; the package only ever uses the defaults.    *)
ASSUME StrategyConstants ==
  {Breakout.channel, Breakout.atr, Breakout.fast, Breakout.slow,
   Baseline.rsi, Baseline.short, Baseline.long, Average} \subseteq Nat \ {0}

(* _look_for_entry and _entry_blocker: a missing indicator blocks.         *)
BreakoutEnters(bars, i) ==
  LET channel  == DonchianHigh(bars, Breakout.channel)[i]
      volume   == RelativeVolume(bars, Average)[i]
      turnover == Turnover(bars, Average)[i]
      fast     == Sma(Closes(bars), Breakout.fast)[i]
      slow     == Sma(Closes(bars), Breakout.slow)[i]
  IN  /\ None \notin {channel, volume, turnover, fast, slow, Atr(bars, Breakout.atr)[i]}
      /\ bars[i].close > channel
      /\ volume >= Breakout.volume /\ turnover >= Breakout.turnover
      /\ fast > slow

BreakoutStop(bars, entry, i) ==
  ChandelierStop(bars, entry, i, Atr(bars, Breakout.atr), Breakout.multiple)

(* _manage                                                                 *)
BreakoutExits(bars, entry, i) ==
  LET stop == BreakoutStop(bars, entry, i) IN stop # None /\ bars[i].close <= stop

(* evaluate: the cascade of the predecessor.                               *)
BaselineEnters(bars, i) ==
  LET rsi    == Rsi(bars, Baseline.rsi)[i]
      short  == Sma(Closes(bars), Baseline.short)[i]
      long   == Sma(Closes(bars), Baseline.long)[i]
      volume == RelativeVolume(bars, Average)[i]
      close  == bars[i].close
  IN  /\ None \notin {rsi, short, long, volume}
      /\ \/ RsiAtMost(rsi, 30) /\ close >= short /\ close >= long /\ volume >= 150
         \/ RsiAtMost(rsi, 40) /\ close >= short

BaselineExits(entry, i) == i - entry >= Baseline.hold

BreakoutWants(bars, i, entry) ==
  CASE entry = None /\ BreakoutEnters(bars, i)       -> "enter"
    [] entry # None /\ BreakoutExits(bars, entry, i) -> "exit"
    [] OTHER                                         -> "hold"

BaselineWants(bars, i, entry) ==
  CASE entry = None /\ BaselineEnters(bars, i) -> "enter"
    [] entry # None /\ BaselineExits(entry, i) -> "exit"
    [] OTHER                                   -> "hold"

(* Strategy.evaluate; entry is None when there is no position.             *)
Intent(strategy, bars, i, entry) ==
  IF strategy = "breakout" THEN BreakoutWants(bars, i, entry) ELSE BaselineWants(bars, i, entry)
=============================================================================
