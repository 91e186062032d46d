------------------------------- MODULE Orders -------------------------------
(***************************************************************************)
(* The order value (execution/orders.py) and the identity a ticket derives *)
(* from it (execution/tickets.py).  An order is a record; a price the      *)
(* program leaves as None is NoPrice, because both readers of a price      *)
(* (`limit_price or stop_price`, `limit_price or 0`) treat None as 0 and a *)
(* present price is validated to be positive.                              *)
(***************************************************************************)
EXTENDS Integers

NoPrice == 0

Side       == {"buy", "sell"}
OrderType  == {"market", "limit", "stop"}
Settlement == {"t0", "t1", "t2"}

(* Orders the constructor accepts: the field types and _check_prices.      *)
ValidOrder(o) ==
  /\ o.side \in Side /\ o.type \in OrderType /\ o.settlement \in Settlement
  /\ o.quantity \in Nat \ {0}
  /\ o.limit \in Nat /\ o.stop \in Nat
  /\ o.type = "limit"    => o.limit # NoPrice
  /\ o.type = "stop"     => o.stop # NoPrice
  /\ o.type = "market"   => o.limit = NoPrice
  /\ o.settlement = "t0" => o.type = "limit"

OrderPrice(o) == IF o.limit # NoPrice THEN o.limit ELSE o.stop

(* Order.notional: a market order carries no price, so its notional is 0.  *)
Notional(o) == o.quantity * OrderPrice(o)

(* ticket_id: a hash of these fields and of the Cairo day.  The hash is    *)
(* taken as injective; what it is computed FROM is what matters.           *)
TicketId(o, day) ==
  [symbol |-> o.symbol, side |-> o.side, type |-> o.type,
   quantity |-> o.quantity, limit |-> o.limit, stop |-> o.stop, day |-> day]
=============================================================================
