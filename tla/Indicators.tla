----------------------------- MODULE Indicators -----------------------------
(***************************************************************************)
(* The indicators the strategies read (features/indicators.py), over a     *)
(* sequence of daily bars.  An indicator is a sequence of the same length, *)
(* None where there is not enough history.                                 *)
(*                                                                         *)
(* Prices are integers.  Wilder's means are kept as fractions; the other   *)
(* quotients are rounded down, and exact when the prices are multiples of  *)
(* a sufficient power of the periods, which the instances see to.          *)
(***************************************************************************)
EXTENDS FiniteSetsExt, SequencesExt, Sums

CONSTANT None

Mean(values)         == SumOf(values) \div Len(values)
Ending(values, i, p) == SubSeq(values, i - p + 1, i)

Closes(bars)  == [i \in DOMAIN bars |-> bars[i].close]
Volumes(bars) == [i \in DOMAIN bars |-> bars[i].volume]

Sma(values, p) ==
  [i \in DOMAIN values |-> IF i < p THEN None ELSE Mean(Ending(values, i, p))]

(* The body of the loop.  A mean is sum / over, kept as the two so that    *)
(* none of the divisions is rounded.                                       *)
Decayed(mean, value, p) ==
  [sum |-> mean.sum * (p - 1) + value * mean.over, over |-> mean.over * p]

(* A simple mean first, which then decays by 1/p.                          *)
WilderSmooth(values, p) ==
  LET out[i \in DOMAIN values] ==
        CASE i < p -> None
          [] i = p -> [sum |-> SumOf(Ending(values, i, p)), over |-> p]
          [] OTHER -> Decayed(out[i - 1], values[i], p)
  IN  out

(* What bar i > 1 ranges over, the gap from the close before it included.  *)
TrueRange(bars, i) ==
  LET before == bars[i - 1].close IN
  Max({bars[i].high, before}) - Min({bars[i].low, before})

Ranges(bars) == [k \in 1 .. Len(bars) - 1 |-> TrueRange(bars, k + 1)]

Quotient(mean) == mean.sum \div mean.over

(* Mutant of Atr: the smoothed ranges, which lack the first bar, are not   *)
(* moved back in place.                                                    *)
AtrUnaligned(bars, p) ==
  [i \in DOMAIN bars |->
     IF i < p \/ i = Len(bars) THEN None ELSE Quotient(WilderSmooth(Ranges(bars), p)[i])]

Atr(bars, p) ==
  [i \in DOMAIN bars |-> IF i <= p THEN None ELSE Quotient(WilderSmooth(Ranges(bars), p)[i - 1])]

(* The highest high of the p bars before the current one.                  *)
DonchianHigh(bars, p) ==
  [i \in DOMAIN bars |-> IF i <= p THEN None ELSE Max({bars[j].high : j \in i - p .. i - 1})]

(* In percent of the mean volume of the p bars before the current one.     *)
RelativeVolume(bars, p) ==
  [i \in DOMAIN bars |->
     LET sum == SumOf(Ending(Volumes(bars), i - 1, p)) IN
     IF i <= p \/ sum = 0 THEN None ELSE (bars[i].volume * p * 100) \div sum]

Turnover(bars, p) == Sma([i \in DOMAIN bars |-> bars[i].close * bars[i].volume], p)

(* Mutant of Moves: losses are taken for gains.                            *)
MovesSwapped(bars, sign) ==
  [k \in 1 .. Len(bars) - 1 |-> Max({0, -sign * (bars[k + 1].close - bars[k].close)})]

(* The gains (sign 1) or the losses (sign -1) from close to close.         *)
Moves(bars, sign) ==
  [k \in 1 .. Len(bars) - 1 |-> Max({0, sign * (bars[k + 1].close - bars[k].close)})]

(* rsi: 100 * gain / (gain + loss), and 100 without a loss; the strategy   *)
(* only asks how it compares to a level, and the means of gains and losses *)
(* are over the same number.                                               *)
Rsi(bars, p) ==
  [i \in DOMAIN bars |->
     IF i <= p THEN None
     ELSE [gain |-> WilderSmooth(Moves(bars, 1), p)[i - 1].sum,
           loss |-> WilderSmooth(Moves(bars, -1), p)[i - 1].sum]]

RsiAtMost(value, level) ==
  value.loss > 0 /\ 100 * value.gain <= level * (value.gain + value.loss)

(* The highest high since the entry, less a multiple of the current ATR.   *)
ChandelierStop(bars, entry, i, atr, multiple) ==
  IF i < entry \/ atr[i] = None THEN None
  ELSE Max({bars[j].high : j \in entry .. i}) - multiple * atr[i]
=============================================================================
