--------------------------- MODULE MCMarketRecord ---------------------------
(* Small instances of MarketRecord: a week, from Tuesday (day 8), of which *)
(* a Wednesday and a Sunday may be holidays; the shares split on the       *)
(* Thursday, which the feed dates ten days early or late.                  *)
EXTENDS MarketRecord

Holidays == {9, 13}
Lags     == {-10, 10}
Limits   == [minBars |-> 3, errorDrop |-> 25, band |-> 5, staleSessions |-> 5]

(* The closes are whole numbers.  The quotient of a move by the band is    *)
(* then more than 1.2 ** n - 1, for all n up to 24.                        *)
OfWholeCloses(from, to) == TRUE

(* Of seven symbols: one bar is noise, three are ambiguous.                *)
Presence(d, open) ==
  CASE open /\ d \in Candidates -> {3, 7}
    [] open                     -> {7}
    [] d \in Candidates         -> {0, 1}
    [] OTHER                    -> {0}
=============================================================================
