----------------------------- MODULE DailyFeed ------------------------------
(***************************************************************************)
(* A daily series as the Yahoo client makes it of the rows of the feed     *)
(* (data/yahoo.py).                                                        *)
(*                                                                         *)
(* A row is a date, a close (None for a row with a null field or one that  *)
(* contradicts itself) and a volume.  Opens, highs and lows only matter to *)
(* the placeholder test, where a bar without volume is taken to be flat.   *)
(***************************************************************************)
EXTENDS Sums, FiniteSetsExt, TLC

CONSTANT None

Placeholder(row) == row.volume = 0

(* Candle: a row that is whole and does not contradict itself.             *)
Whole(rows) == Picked(rows, {i \in DOMAIN rows : rows[i].close # None})

(* Placeholders at the end of the series are dropped, and only those.      *)
Trimmed(candles) ==
  SubSeq(candles, 1, Max({0} \cup {i \in DOMAIN candles : ~Placeholder(candles[i])}))

(* parse_chart: the bars, and the dates of the rows dropped as unusable.   *)
ParseChart(rows) ==
  [candles |-> Trimmed(Whole(rows)),
   dropped |-> Picked(rows, {i \in DOMAIN rows : rows[i].close = None})]

(* OHLCVSeries refuses bars that do not ascend, or two of one date.        *)
Ascending(candles) == \A i \in 2 .. Len(candles) : candles[i - 1].date < candles[i].date

(* looks_daily: the median of the gaps between bars is at most four days.  *)
LooksDaily(candles) ==
  Len(candles) < 3 \/
    LET gaps == SortSeq([i \in 1 .. Len(candles) - 1 |-> candles[i + 1].date - candles[i].date], <)
        n    == Len(gaps)
    IN  gaps[(n + 1) \div 2] + gaps[n \div 2 + 1] <= 8

(* How a fetch ends: with bars; with the error that says there are none;   *)
(* or with an exception nobody expects.                                    *)
Bars(candles) == [is |-> "bars", candles |-> candles]
Unavailable   == [is |-> "unavailable", candles |-> <<>>]
Broken        == [is |-> "broken", candles |-> <<>>]

(* fetch_daily on a chart; min_bars is 0 for every caller.                 *)
FetchDaily(rows) ==
  LET candles == ParseChart(rows).candles IN
  CASE ~Ascending(candles) -> Broken
    [] Ascending(candles) /\ (candles = <<>> \/ ~LooksDaily(candles)) -> Unavailable
    [] OTHER -> Bars(candles)
=============================================================================
