------------------------------ MODULE Quality -------------------------------
(***************************************************************************)
(* The gates on a daily series that block a symbol (data/quality.py).      *)
(* What is only a warning blocks nothing and is left out.  A fetch is what *)
(* DailyFeed parses, with the splits the feed reports.                     *)
(***************************************************************************)
EXTENDS Integers, Sequences, FiniteSetsExt

CONSTANTS
  Thresholds,             \* [minBars, errorDrop, band, staleSessions]; the band is 100 / band
  IsTradingDay(_),
  SessionsBetween(_, _),
  EdgeIsBeyond(_, _)      \* EdgeIsBeyond(from, to): whether binary floats put a close
                          \* that moved by exactly the band beyond it

(* Mutant of Elapsed: the sessions strictly between the two bars.          *)
ElapsedBetween(before, bar) == Max({1, SessionsBetween(before.date + 1, bar.date)})

Elapsed(before, bar) == Max({1, SessionsBetween(before.date, bar.date)})

(* factor to the power of n.                                               *)
Compounded(factor, n) ==
  LET over[k \in 0 .. n] == IF k = 0 THEN 1 ELSE factor * over[k - 1]
  IN  over[n]

(* By how much a move exceeds what the daily band compounds to over the    *)
(* sessions elapsed, over a positive factor; 0 at the edge of the band.    *)
Excess(before, bar) ==
  LET n    == Elapsed(before, bar)
      one  == Compounded(Thresholds.band, n)
      move == IF bar.close > before.close THEN bar.close - before.close
                                          ELSE before.close - bar.close
  IN  move * one - before.close * (Compounded(Thresholds.band + 1, n) - one)

(* abs(change) > (1 + limit) ** sessions - 1, both sides in binary floats: *)
(* they decide at the edge, (1 + 0.2) - 1 being less than 0.2.             *)
BeyondBand(before, bar) ==
  \/ Excess(before, bar) > 0
  \/ Excess(before, bar) = 0 /\ EdgeIsBeyond(before.close, bar.close)

NearSplit(split, bar) == split.date - bar.date \in -10 .. 10

(* _split_explains: the closes are in the ratio of the split, or in its    *)
(* inverse, to within three tenths.                                        *)
Matches(before, bar, numerator, denominator) ==
  LET observed == 10 * bar.close * denominator
      expected == before.close * numerator
  IN  7 * expected <= observed /\ observed <= 13 * expected

SplitExplains(splits, before, bar) ==
  \E s \in splits :
    /\ NearSplit(s, bar) /\ s.numerator # 0
    /\ \/ Matches(before, bar, s.numerator, s.denominator)
       \/ Matches(before, bar, s.denominator, s.numerator)

(* _check_price_jumps                                                      *)
Jumps(fetch) ==
  {i \in 2 .. Len(fetch.candles) :
     LET before == fetch.candles[i - 1]  bar == fetch.candles[i]
     IN  BeyondBand(before, bar) /\ ~SplitExplains(fetch.splits, before, bar)}

(* egx_drop_fraction: of the rows dropped only those on sessions count.    *)
RealDrops(fetch) == {i \in DOMAIN fetch.dropped : IsTradingDay(fetch.dropped[i].date)}

HighDropRate(fetch) ==
  LET drops == Cardinality(RealDrops(fetch))
  IN  drops * 100 >= Thresholds.errorDrop * (Len(fetch.candles) + drops)

StaleLastBar(fetch, asOf) ==
  asOf - fetch.candles[Len(fetch.candles)].date > 2 * Thresholds.staleSessions

(* check_series: the errors of its report; without one, is_usable.         *)
Errors(fetch, asOf) ==
  IF fetch.candles = <<>> THEN {"no_data"} ELSE
     (IF Len(fetch.candles) < Thresholds.minBars THEN {"insufficient_history"} ELSE {})
       \cup (IF HighDropRate(fetch) THEN {"high_drop_rate"} ELSE {})
       \cup (IF Jumps(fetch) # {} THEN {"unexplained_price_jump"} ELSE {})
       \cup (IF StaleLastBar(fetch, asOf) THEN {"stale_last_bar"} ELSE {})
=============================================================================
