----------------------------- MODULE Deliveries -----------------------------
(***************************************************************************)
(* What settlement promises of a holding, with no lots: shares that can be *)
(* delivered today, and shares that arrive on a later day.  A purchase     *)
(* arrives on its settlement date; a sale takes the exact quantity sold    *)
(* from the deliverable shares, or does not happen.                        *)
(***************************************************************************)
EXTENDS Integers

CONSTANTS Symbol, Quantity, Date, SettleDate(_)

VARIABLES today, deliverable, arriving

deliveryVars == <<today, deliverable, arriving>>

Init ==
  /\ today = 0
  /\ deliverable = [s \in Symbol |-> 0]
  /\ arriving = [s \in Symbol |-> [d \in Date |-> 0]]

Receive(s, q) ==
  deliverable' = [deliverable EXCEPT ![s] = @ + q] /\ UNCHANGED <<today, arriving>>

(* A purchase that settles beyond the last day arrives after the end.      *)
Buy(s, q) ==
  /\ arriving' = [arriving EXCEPT ![s] = [d \in Date |->
                    IF d = SettleDate(today) THEN @[d] + q ELSE @[d]]]
  /\ UNCHANGED <<today, deliverable>>

Sell(s, q) ==
  /\ q <= deliverable[s]
  /\ deliverable' = [deliverable EXCEPT ![s] = @ - q]
  /\ UNCHANGED <<today, arriving>>

NextDay ==
  /\ today + 1 \in Date /\ today' = today + 1
  /\ deliverable' = [s \in Symbol |-> deliverable[s] + arriving[s][today']]
  /\ arriving' = [s \in Symbol |-> [arriving[s] EXCEPT ![today'] = 0]]

Next == NextDay \/ \E s \in Symbol, q \in Quantity : Receive(s, q) \/ Buy(s, q) \/ Sell(s, q)

Spec == Init /\ [][Next]_deliveryVars
=============================================================================
