---------------------------- MODULE MarketRecord ----------------------------
(***************************************************************************)
(* What the exchange did, what the feed kept of it, and what the calendar  *)
(* file says (market_calendar/verify.py, egx.py, `egx verify-calendar      *)
(* --write`).  The feed loses sessions at random and shows a few bars on   *)
(* days the exchange was closed, and may report a split days off; the      *)
(* calendar is derived from it, and the data gates and the settlement      *)
(* dates are computed with the calendar.                                   *)
(***************************************************************************)
EXTENDS Closures, Sequences, FiniteSetsExt

CONSTANTS
  Basket,             \* basket_size: the symbols the evidence is drawn from
  Present(_, _),      \* Present(d, open): how many of them may have a bar for d
  StartClose,         \* the close before FirstDay of the symbol that is followed
  Least,              \* bound: no close is below it, lest rounding spoil a ratio
  SplitDays,          \* bound: the sessions on which its shares split in two
  SplitLags,          \* bound: how far off the feed may date a split
  Thresholds,         \* QualityThresholds
  EdgeIsBeyond(_, _), \* what binary floats make of a move of exactly the band
  Sample              \* days of history the evidence covers

ASSUME RecordConstants ==
  /\ FirstDay <= LastDay /\ Candidates \subseteq FirstDay .. LastDay
  /\ Basket \in Nat \ {0} /\ Sample \in Nat /\ None \notin Int
  /\ StartClose \in Nat /\ Least \in Nat /\ StartClose >= Least /\ Least >= 8
  /\ SplitLags \subseteq -10 .. 10

(* The defaults of QualityThresholds, which no caller changes.             *)
ASSUME ThresholdsAssumption == Thresholds.band = 5 /\ Thresholds.errorDrop = 25

VARIABLES
  closures,  \* the holidays of the exchange, which nobody told the program
  today,
  presence,  \* symbols with a bar, per day
  rows,      \* the rows of the feed for the symbol that is followed
  close,     \* its close at the exchange
  lag,       \* how far off the feed dates its splits
  file       \* holidays.yaml, and the first day it was rebuilt for

recordVars == <<closures, today, presence, rows, close, lag, file>>

Recorded == INSTANCE TradingCalendar WITH Holidays <- file.holidays
Feed     == INSTANCE DailyFeed
Gate     == INSTANCE Quality WITH
              IsTradingDay <- Recorded!IsTradingDay,
              SessionsBetween <- Recorded!SessionsBetween

RecordInit ==
  /\ closures \in SUBSET Candidates
  /\ today = FirstDay /\ presence = [d \in FirstDay .. LastDay |-> 0]
  /\ rows = <<>> /\ close = StartClose /\ lag \in SplitLags
  /\ file \in [holidays : SUBSET Candidates, verified : {FirstDay - 1}, from : {None}]

----------------------------------------------------------------------------
Open(d) == Calendar(closures)!IsTradingDay(d)

(* The row a day leaves: a null row, a bar, and on a session without a     *)
(* trade a bar without volume.                                             *)
Row(c, v)   == [date |-> today, close |-> c, volume |-> v]
Null        == Row(None, 0)
RowsOf(c)   == {Null, Row(c, 1)} \cup (IF c = close THEN {Row(c, 0)} ELSE {})

(* Prices within a fifth of another: the ends of the band and its middle.  *)
Within(price) == {price, (price * 6) \div 5, (price * 4 + 4) \div 5}

(* The price the daily band is around.                                     *)
Reference == IF today \in SplitDays THEN close \div 2 ELSE close

Session ==
  /\ today < LastDay /\ Open(today)
  /\ \E c \in Within(Reference) :
       c >= Least /\ close' = c /\ \E row \in RowsOf(c) : rows' = Append(rows, row)
  /\ \E n \in Present(today, TRUE) : presence' = [presence EXCEPT ![today] = n]
  /\ today' = today + 1
  /\ UNCHANGED <<closures, lag, file>>

ClosedDay ==
  /\ today < LastDay /\ ~Open(today)
  /\ rows' = Append(rows, Null)
  /\ \E n \in Present(today, FALSE) : presence' = [presence EXCEPT ![today] = n]
  /\ today' = today + 1
  /\ UNCHANGED <<closures, close, lag, file>>

----------------------------------------------------------------------------
(* verify_calendar: the range of the evidence.                             *)
Sampled == {d \in FirstDay .. LastDay : presence[d] > 0}
End     == Max(Sampled)
Start   == Max({Min(Sampled), End - Sample})

(* build_evidence: the weekdays on which almost nothing traded.  What it   *)
(* calls false holidays and ambiguous is reported and written nowhere.     *)
Weekdays            == {d \in Start .. End : Calendar({})!IsTradingDay(d)}
AtLeast(d, percent) == presence[d] * 100 >= percent * Basket
ClosedDays          == {d \in Weekdays : ~AtLeast(d, 15)}

(* Mutant of VerifiedThrough: the day of the run and not of the last bar.  *)
VerifiedToday == today

VerifiedThrough == End

(* --write: the file lists what is closed in the range, and nothing else.  *)
Rewrite ==
  /\ Sampled # {}
  /\ file' = [holidays |-> ClosedDays, verified |-> VerifiedThrough, from |-> Start]
  /\ UNCHANGED <<closures, today, presence, rows, close, lag>>

RecordNext == Session \/ ClosedDay \/ Rewrite

RecordSpec == RecordInit /\ [][RecordNext]_recordVars

----------------------------------------------------------------------------
(* _check_coverage: a strict calendar refuses what it has to look up past  *)
(* verified_through; add_sessions looks up nothing past its answer.        *)
StrictlyAnswers(d, n) == Recorded!AddSessions(d, n) <= file.verified

(* A calendar rebuilt from a record in which, over the days it was rebuilt *)
(* for, the market was there on every session and next to nobody on a      *)
(* closed day, never gives a wrong settlement date to those who keep it    *)
(* strict (egx.py "Refusing to guess", verify.py).                         *)
Telling ==
  \A d \in file.from .. file.verified :
    Calendar({})!IsTradingDay(d) => (Open(d) <=> AtLeast(d, 15))

StrictIsTrue ==
  file.from # None /\ Telling =>
    \A d \in file.from .. LastDay, n \in 0 .. 2 :
      StrictlyAnswers(d, n) => Recorded!AddSessions(d, n) = Calendar(closures)!AddSessions(d, n)

(* The series the gates see.                                               *)
Fetched ==
  LET parsed == Feed!ParseChart(rows) IN
  [candles |-> parsed.candles, dropped |-> parsed.dropped,
   splits |-> {[date |-> d + lag, numerator |-> 2, denominator |-> 1] :
                 d \in {d \in SplitDays : d < today /\ Open(d)}}]

SessionRows == {i \in DOMAIN rows : Open(rows[i].date)}
Lost        == {i \in SessionRows : rows[i].close = None}
Idle        == {i \in DOMAIN rows :
                  rows[i].close # None /\ \A j \in i .. Len(rows) : rows[j].volume = 0}

(* What the gates refuse was wrong with the feed, whichever sessions it    *)
(* lost, unless the calendar file calls a session closed or the price moved*)
(* by the whole band on every session of a step.  Such a move floats may   *)
(* put beyond the band, although "No cushion is needed"; any other price   *)
(* inside the daily band is an error only where the feed lost the sessions *)
(* around a split.  And with all closures in the file, the drop rate is an *)
(* error exactly when a quarter of the sessions up to the last trade was   *)
(* lost (quality.py "The allowance therefore compounds", yahoo.py          *)
(* "counting only bars that fall on real EGX sessions").                   *)
HonestGapsPass ==
  (\A d \in file.holidays : ~Open(d)) =>
    /\ \A i \in Gate!Jumps(Fetched) :
         Gate!Excess(Fetched.candles[i - 1], Fetched.candles[i]) # 0 =>
           LET before == Fetched.candles[i - 1].date  bar == Fetched.candles[i].date
           IN  /\ \E d \in SplitDays : before < d /\ d <= bar
               /\ Calendar(closures)!SessionsBetween(before, bar) > 1
    /\ file.holidays = closures /\ Fetched.candles # <<>> =>
         ("high_drop_rate" \in Gate!Errors(Fetched, today)
            <=> 4 * Cardinality(Lost) >= Cardinality(SessionRows) - Cardinality(Idle))
=============================================================================
