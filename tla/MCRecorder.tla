----------------------------- MODULE MCRecorder -----------------------------
(* A session of two buckets, and an instant before and after it: a Monday  *)
(* (day 0) of the weeks in which the exchange opens late and closes early. *)
EXTENDS Recorder

Calendar == INSTANCE TradingCalendar WITH Holidays <- {}, LongestClosure <- 7

WeekDay(d) == Calendar!IsTradingDay(d)
Hours      == [preOpen |-> 1, continuous |-> 2, auction |-> 5, atClose |-> 6, end |-> 7]
ShortHours == [preOpen |-> 2, continuous |-> 3, auction |-> 4, atClose |-> 5, end |-> 6]
Ramadan    == <<[start |-> 0, end |-> 3, hours |-> ShortHours]>>

(* The runs are of the session the theorems are about.                     *)
ASSUME SessionOfTheRuns == HoursAnnounced /\ WholeBuckets
=============================================================================
