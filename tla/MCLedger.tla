------------------------------ MODULE MCLedger ------------------------------
(* A small ledger on the real session arithmetic. *)
EXTENDS Ledger

Calendar == INSTANCE TradingCalendar WITH Holidays <- {}, LongestClosure <- 7

(* Day 0 is a Monday; the month changes on day 2. *)
SettlesOn(d) == Calendar!AddSessions(d, 2)
MonthOf(d)   == d \div 2
Mills        == {1000, 3000}
=============================================================================
