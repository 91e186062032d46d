---------------------------- MODULE SessionHours ----------------------------
(***************************************************************************)
(* The phases of a trading day and the hours of special sessions           *)
(* (market_calendar/egx.py).  An instant is an integer; every day has      *)
(* DayLength of them, and the time of day is the remainder.                *)
(***************************************************************************)
EXTENDS Integers, Sequences, FiniteSetsExt

CONSTANTS
  DayLength,
  TradingDay(_),   \* EGXCalendar.is_trading_day
  RegularHours,    \* DEFAULT_SCHEDULE
  SpecialSessions  \* in the order of holidays.yaml

ASSUME HoursAssumption == DayLength \in Nat \ {0}

(* SessionSchedule.phase_at: each phase up to the next boundary.           *)
PhaseAt(hours, t) ==
  CASE t < hours.preOpen    -> "closed"
    [] t \in hours.preOpen .. hours.continuous - 1 -> "pre_open"
    [] t \in hours.continuous .. hours.auction - 1 -> "continuous"
    [] t \in hours.auction .. hours.atClose - 1    -> "closing_auction"
    [] t \in hours.atClose .. hours.end - 1        -> "trading_at_close"
    [] t >= hours.end       -> "closed"

Covers(special, day) == day \in special.start .. special.end

(* schedule_for: the first special session that covers the day.            *)
ScheduleFor(day) ==
  LET covering == {k \in DOMAIN SpecialSessions : Covers(SpecialSessions[k], day)}
  IN  IF covering = {} THEN RegularHours ELSE SpecialSessions[Min(covering)].hours

SessionPhase(when) ==
  LET day == when \div DayLength IN
  IF TradingDay(day) THEN PhaseAt(ScheduleFor(day), when % DayLength) ELSE "closed"

(* is_open: an order can be submitted, in the auctions too.                *)
IsOpen(when) == SessionPhase(when) # "closed"
=============================================================================
