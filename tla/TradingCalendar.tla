-------------------------- MODULE TradingCalendar ---------------------------
(***************************************************************************)
(* Session arithmetic of EGXCalendar (market_calendar/egx.py).  A date is  *)
(* an integer, day 0 a Monday.  Settlement dates are computed with it.     *)
(***************************************************************************)
EXTENDS Integers, FiniteSets

CONSTANTS
  Holidays,       \* the non-trading days holidays.yaml records
  LongestClosure  \* bound: a session starts within this many days of any day

Weekday(d) == d % 7

(* Sunday to Thursday.                                                     *)
TradingWeekdays == {6, 0, 1, 2, 3}

IsTradingDay(d) == Weekday(d) \in TradingWeekdays /\ d \notin Holidays

(* The first trading day strictly after d, the last one strictly before.   *)
NextSession(d) ==
  CHOOSE s \in d + 1 .. d + LongestClosure :
    IsTradingDay(s) /\ \A e \in d + 1 .. s - 1 : ~IsTradingDay(e)

PreviousSession(d) ==
  CHOOSE s \in d - LongestClosure .. d - 1 :
    IsTradingDay(s) /\ \A e \in s + 1 .. d - 1 : ~IsTradingDay(e)

(* Mutant of AddSessions: the roll forward counts twice.                   *)
AddSessionsRolledTwice(d, n) ==
  LET start == IF IsTradingDay(d) THEN d ELSE NextSession(NextSession(d))
      after[k \in 0 .. n] == IF k = 0 THEN start ELSE NextSession(after[k - 1])
  IN  after[n]

(* Advance n sessions; a start that is no trading day rolls forward first. *)
AddSessions(d, n) ==
  LET start == IF IsTradingDay(d) THEN d ELSE NextSession(d)
      after[k \in 0 .. n] == IF k = 0 THEN start ELSE NextSession(after[k - 1])
  IN  after[n]

TradingDaysIn(start, end) == {d \in start .. end : IsTradingDay(d)}

(* Mutant of SessionsBetween: the end is counted.                          *)
SessionsBetweenClosed(start, end) == Cardinality(TradingDaysIn(start, end))

(* Sessions in [start, end), 0 when end <= start.                          *)
SessionsBetween(start, end) == Cardinality(TradingDaysIn(start, end - 1))
=============================================================================
