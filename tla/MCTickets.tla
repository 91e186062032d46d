----------------------------- MODULE MCTickets ------------------------------
(* Small instances of Tickets for TLC. *)
EXTENDS Tickets, TLC

Limit(s, q, p, settle) ==
  [symbol |-> s, side |-> "buy", type |-> "limit", quantity |-> q,
   limit |-> p, stop |-> NoPrice, settlement |-> settle]

Small == Limit("BIOC", 1, 5, "t2")
OneOrder  == {Small}
=============================================================================
