------------------------------ MODULE Closures ------------------------------
(***************************************************************************)
(* The days an instance looks at, those of them on which the exchange may  *)
(* be closed, and EGXCalendar under any holidays (market_calendar/egx.py). *)
(***************************************************************************)
EXTENDS Integers

CONSTANTS
  None,               \* no value, as of a null field
  FirstDay, LastDay,  \* bounds: the days looked at
  Candidates,         \* bound: the days on which the exchange may be closed
  LongestClosure

Calendar(Holidays) == INSTANCE TradingCalendar

(* No closure is longer than the longest.                                  *)
ASSUME ClosureAssumption ==
  /\ FirstDay \in Int /\ LastDay \in Int /\ Candidates \subseteq Int
  /\ LongestClosure \in Nat /\ LongestClosure >= 3
  /\ \A c \in Candidates : \A d \in c - LongestClosure .. c - 1 :
       \E s \in d + 1 .. d + LongestClosure : Calendar(Candidates)!IsTradingDay(s)
=============================================================================
