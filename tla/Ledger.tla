------------------------------- MODULE Ledger -------------------------------
(***************************************************************************)
(* The lot-level portfolio ledger (portfolio/ledger.py) with the cost      *)
(* model it charges (backtest/costs.py).                                   *)
(*                                                                         *)
(* Money is an integer number of mills (1/1000 EGP): with prices in whole  *)
(* EGP the 0.1% commission is then exact, so rounding to piastres, which   *)
(* no property here is about, is left out.                                 *)
(***************************************************************************)
EXTENDS Sums, SequencesExt

CONSTANTS
  Symbol,
  Price,          \* execution prices, in mills
  Quantity,       \* share counts of one execution or one seeded lot
  LastDay,        \* bound on the clock
  MaxExecutions,  \* bound on executions
  MaxSeeds,       \* bound on lots seeded before the first execution or after
  InitialCash,
  SettleDate(_),  \* calendar.add_sessions(when, SETTLEMENT_SESSIONS)
  Month(_),       \* (when.year, when.month)
  FreeTrades,     \* free_trades_per_month of the cost model
  FlatFee,        \* COMMISSION_FLAT_EGP, in mills
  FeeDivisor      \* 1 / COMMISSION_RATE

Date   == 0 .. LastDay
Months == {Month(d) : d \in Date}

ASSUME LedgerConstants ==
  /\ IsFiniteSet(Symbol) /\ Price \subseteq Nat \ {0} /\ Quantity \subseteq Nat \ {0}
  /\ LastDay \in Nat /\ MaxExecutions \in Nat /\ MaxSeeds \in Nat /\ InitialCash \in Int
  /\ FreeTrades \in Nat /\ FlatFee \in Nat /\ FeeDivisor \in Nat \ {0}

ASSUME SettlementAssumption ==
  \A d \in Date : /\ SettleDate(d) \in Nat /\ SettleDate(d) > d
                  /\ \A e \in d .. LastDay : SettleDate(e) >= SettleDate(d)

VARIABLES
  today,       \* the date the operator is at
  cash,        \* Ledger.cash_egp
  lots,        \* Ledger.lots: per symbol, the open lots in list order
  realised,    \* Ledger.realised
  executions,  \* CostModel._executions
  acquired     \* history: shares ever held per symbol, cost of the seeded lots,
               \* commission charged to purchases, lots ever opened

ledgerVars == <<cash, lots, realised, executions, acquired>>
vars       == <<today, ledgerVars>>

Init ==
  /\ today = 0 /\ cash = InitialCash
  /\ lots = [s \in Symbol |-> <<>>] /\ realised = <<>>
  /\ executions = [m \in Months |-> 0]
  /\ acquired = [shares |-> [s \in Symbol |-> 0], seedCost |-> 0, buyFees |-> 0, lots |-> 0]

----------------------------------------------------------------------------
Total(Value(_), seq) == SumOf([i \in DOMAIN seq |-> Value(seq[i])])

Symbols == SetToSeq(Symbol)

(* Mutant of Settled: the settlement day itself is taken for unsettled.    *)
SettledLate(lot) == lot.preExisting \/ today > lot.settles

(* Lot.settled_on(today)                                                   *)
Settled(lot) == lot.preExisting \/ today >= lot.settles

Deliverable(lot) == IF Settled(lot) THEN lot.quantity ELSE 0

HeldQuantity(s)     == Total(LAMBDA lot : lot.quantity, lots[s])
SellableQuantity(s) == Total(Deliverable, lots[s])
CostOf(held)        == Total(LAMBDA lot : lot.quantity * lot.price, held)
BookCost            == Total(LAMBDA s : CostOf(lots[s]), Symbols)

GrossPnl(t) == (t.exit - t.entry) * t.quantity
RealisedPnl == Total(LAMBDA t : GrossPnl(t) - t.commission, realised)

SoldQuantity(s) == Total(LAMBDA t : IF t.symbol = s THEN t.quantity ELSE 0, realised)

(* CostModel.commission: the month's first executions are free.            *)
Commission(notional) ==
  IF executions[Month(today)] < FreeTrades THEN 0 ELSE FlatFee + notional \div FeeDivisor

CountExecution == executions' = [executions EXCEPT ![Month(today)] = @ + 1]

AllMonths == SetToSeq(Months)
Executed  == Total(LAMBDA m : executions[m], AllMonths)

----------------------------------------------------------------------------
Lot(q, p, settles, preExisting) ==
  [quantity |-> q, price |-> p, settles |-> settles, preExisting |-> preExisting,
   id |-> acquired.lots + 1]

Appended(s, lot) == lots' = [lots EXCEPT ![s] = Append(@, lot)]

(* Ledger.add_pre_existing: settled, and cash is not touched.              *)
AddPreExisting(s, q, p) ==
  /\ Appended(s, Lot(q, p, 0, TRUE))
  /\ acquired' = [acquired EXCEPT !.shares = [acquired.shares EXCEPT ![s] = @ + q],
                               !.seedCost = @ + q * p, !.lots = @ + 1]
  /\ UNCHANGED <<cash, realised, executions>>

(* Ledger.buy: nothing is checked here, the risk gates are the caller's.   *)
Buy(s, q, p) ==
  LET fee == Commission(q * p) IN
  /\ cash' = cash - (q * p + fee)
  /\ CountExecution
  /\ Appended(s, Lot(q, p, SettleDate(today), FALSE))
  /\ acquired' = [acquired EXCEPT !.shares = [acquired.shares EXCEPT ![s] = @ + q],
                               !.buyFees = @ + fee, !.lots = @ + 1]
  /\ UNCHANGED realised

(* Mutant of Taken: the newest settled lot is sold first.                  *)
TakenLifo(held, q, i) ==
  LET after == Total(Deliverable, SubSeq(held, i + 1, Len(held)))
  IN  IF Settled(held[i]) THEN Max({0, Min({held[i].quantity, q - after})}) ELSE 0

(* What a sale of q shares takes from the i-th lot: the loop of sell, over *)
(* the settled lots in list order.                                         *)
Taken(held, q, i) ==
  LET before == Total(Deliverable, SubSeq(held, 1, i - 1))
  IN  IF Settled(held[i]) THEN Max({0, Min({held[i].quantity, q - before})}) ELSE 0

(* The RealisedTrades of a sale: the first one bears the whole commission. *)
Slice(s, q, p, fee, i) ==
  [symbol |-> s, quantity |-> Taken(lots[s], q, i), entry |-> lots[s][i].price, exit |-> p,
   date |-> today,
   commission |-> IF \E j \in 1 .. i - 1 : Taken(lots[s], q, j) > 0 THEN 0 ELSE fee]

Slices(s, q, p, fee) ==
  Picked([i \in DOMAIN lots[s] |-> Slice(s, q, p, fee, i)],
         {i \in DOMAIN lots[s] : Taken(lots[s], q, i) > 0})

Lessened(held, q) ==
  [i \in DOMAIN held |-> [held[i] EXCEPT !.quantity = @ - Taken(held, q, i)]]

(* Mutant of Remaining: emptied lots stay.                                 *)
RemainingWithEmpty(held, q) == Lessened(held, q)

(* The lots a sale of q shares leaves; the emptied ones are dropped.       *)
Remaining(held, q) ==
  Picked(Lessened(held, q), {i \in DOMAIN held : Lessened(held, q)[i].quantity > 0})

(* Mutant of Sellable: a sale is bounded by what is held.                  *)
SellableHeld(s, q) == q <= HeldQuantity(s)

Sellable(s, q) == q <= SellableQuantity(s)

(* Ledger.sell: raises, and changes nothing, beyond the settled quantity.  *)
Sell(s, q, p) ==
  LET fee == Commission(q * p) IN
  /\ Sellable(s, q)
  /\ cash' = cash + (q * p - fee)
  /\ CountExecution
  /\ lots' = [lots EXCEPT ![s] = Remaining(@, q)]
  /\ realised' = realised \o Slices(s, q, p, fee)
  /\ UNCHANGED acquired

Execute ==
  /\ Executed < MaxExecutions
  /\ \E s \in Symbol, q \in Quantity, p \in Price : Buy(s, q, p) \/ Sell(s, q, p)
  /\ UNCHANGED today

Seed == \E s \in Symbol, q \in Quantity, p \in Price :
  /\ acquired.lots - Executed < MaxSeeds
  /\ AddPreExisting(s, q, p)
  /\ UNCHANGED today

NextDay == today < LastDay /\ today' = today + 1 /\ UNCHANGED ledgerVars

Next == Execute \/ Seed \/ NextDay

Spec == Init /\ [][Next]_vars

----------------------------------------------------------------------------
LotType == [quantity : Nat \ {0}, price : Price, settles : Nat, preExisting : BOOLEAN,
            id : Nat \ {0}]

TradeType == [symbol : Symbol, quantity : Nat \ {0}, entry : Price, exit : Price,
              date : Date, commission : Nat]

(* Every variable has its type; a lot in the book holds at least a share.  *)
TypeOK ==
  /\ today \in Date /\ cash \in Int
  /\ lots \in [Symbol -> Seq(LotType)]
  /\ realised \in Seq(TradeType)
  /\ executions \in [Months -> Nat]
  /\ acquired \in [shares : [Symbol -> Nat], seedCost : Nat, buyFees : Nat, lots : Nat]

(* Nothing is lost or invented, however sales cut the lots and split the   *)
(* commission: cash and the cost of what is still held are what was there  *)
(* at the start, the seeded holdings and the realised result after fees;   *)
(* and every share ever acquired is held or in a realised trade            *)
(* (Ledger.buy and sell against book_cost and realised_pnl).               *)
BooksBalance ==
  /\ cash + BookCost = InitialCash + acquired.seedCost + RealisedPnl - acquired.buyFees
  /\ \A s \in Symbol : acquired.shares[s] = HeldQuantity(s) + SoldQuantity(s)

Lots(s) == {lots[s][i] : i \in DOMAIN lots[s]}

(* The lot of the same identity is there, untouched, after the step.       *)
Untouched(s, lot) == lot \in Lots(s)'

(* FIFO: shares leave a lot only when every settled lot opened before it   *)
(* is gone; which shares left decides the realised gain and the tax.       *)
OldestSoldFirst ==
  [][\A s \in Symbol : \A old, new \in Lots(s) :
       old.id < new.id /\ Settled(old) /\ ~Untouched(s, new)
         => \A lot \in Lots(s)' : lot.id # old.id]_vars

Arriving(s, d) ==
  Total(LAMBDA lot : IF ~Settled(lot) /\ lot.settles = d THEN lot.quantity ELSE 0, lots[s])

(* What the book promises of delivery.                                     *)
Delivery == INSTANCE Deliveries WITH
  deliverable <- [s \in Symbol |-> SellableQuantity(s)],
  arriving    <- [s \in Symbol |-> [d \in Date |-> Arriving(s, d)]]

(* The lot ledger delivers exactly what the account of deliveries allows.  *)
ImplementsDelivery == Delivery!Spec
=============================================================================
