----------------------------- MODULE MCRiskGate -----------------------------
(* Small instances of RiskGate: one month per two days, T+2 settlement. *)
EXTENDS RiskGate, Routing

Calendar == INSTANCE TradingCalendar WITH Holidays <- {}, LongestClosure <- 7

SettlesOn(d) == Calendar!AddSessions(d, 2)
MonthOf(d)   == d \div 2
Mills        == {1000, 2000}

(* What the routing makes of an entry and an ordinary exit at the higher   *)
(* price, a stop below it, and an urgent exit.                             *)
Entries      == UNION {Routed("COMI", "buy", u, "t2", 1, 2000, TRUE) : u \in Urgency}
RoutedOrders == Entries \cup Routed("COMI", "sell", "normal", "t2", 1, 2000, TRUE)
                        \cup ProtectiveStop("COMI", 1, 1000)
UrgentOrders == Entries \cup Routed("COMI", "sell", "urgent", "t2", 1, 2000, TRUE)

Comi  == {"COMI"}
NoVolume == [s \in Comi |-> 0]
=============================================================================
