------------------------------ MODULE Routing -------------------------------
(***************************************************************************)
(* How an order gets its type and its price (execution/orders.py).  Prices *)
(* are in mills, and the program rounds them to piasters, 10 mills.        *)
(***************************************************************************)
EXTENDS Orders

Urgency == {"patient", "normal", "urgent"}

(* RoutingPolicy, its offsets in thousandths.                              *)
Policy == [entry |-> 5, urgentExit |-> 30]

(* round(last * (1 + offset), 2): of a tie, which binary floats decide,    *)
(* either neighbour.                                                       *)
Rounded(last, offset) ==
  LET exact == last * (1000 + offset)  \* in thousandths of a mill
      down  == (exact \div 10000) * 10
  IN  {p \in {down, down + 10} : 1000 * p - exact \in -5000 .. 5000}

AtMarket        == {[type |-> "market", limit |-> NoPrice]}
AtLimit(prices) == {[type |-> "limit", limit |-> p] : p \in prices}

(* Mutant of ChooseOrderType: what is liquid is bought at market.          *)
ChooseOrderTypeMarketEntry(side, urgency, settlement, last, liquid) ==
  IF side = "buy" /\ liquid THEN AtMarket ELSE AtLimit(Rounded(last, 0))

(* choose_order_type; liquid: the turnover is known and over the minimum.  *)
ChooseOrderType(side, urgency, settlement, last, liquid) ==
  CASE settlement = "t0" ->
         AtLimit(Rounded(last, IF urgency = "urgent" THEN -Policy.urgentExit ELSE 0))
    [] settlement # "t0" /\ side = "buy" -> AtLimit(Rounded(last, Policy.entry))
    [] settlement # "t0" /\ side = "sell" /\ urgency = "urgent" ->
         IF liquid THEN AtMarket ELSE AtLimit(Rounded(last, -Policy.urgentExit))
    [] OTHER -> AtLimit(Rounded(last, 0))

(* The orders a caller can build from the decision.                        *)
Routed(symbol, side, urgency, settlement, quantity, last, liquid) ==
  {[symbol |-> symbol, side |-> side, type |-> d.type, quantity |-> quantity,
    limit |-> d.limit, stop |-> NoPrice, settlement |-> settlement] :
     d \in ChooseOrderType(side, urgency, settlement, last, liquid)}

(* protective_stop: a stop that rests at the broker, which sells at market *)
(* when it is reached.                                                     *)
ProtectiveStop(symbol, quantity, level) ==
  {[symbol |-> symbol, side |-> "sell", type |-> "stop", quantity |-> quantity,
    limit |-> NoPrice, stop |-> p, settlement |-> "t2"] : p \in Rounded(level, 0)}
=============================================================================
