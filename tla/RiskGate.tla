------------------------------ MODULE RiskGate ------------------------------
(***************************************************************************)
(* The pre-trade gates (risk/engine.py) over the lot ledger and its cost   *)
(* model.                                                                  *)
(*                                                                         *)
(* RiskEngine.check is pure: the caller gathers a RiskContext, asks, and   *)
(* executes later, when a human has approved and the broker has filled.    *)
(* No caller is in the package, so the driver is external: it asks with    *)
(* the state of the moment, has at most MaxInFlight allowed orders that    *)
(* are neither filled nor dropped, and books a fill in the ledger.  What   *)
(* happens to the ledger between the check and the fill is the subject.    *)
(***************************************************************************)
EXTENDS Ledger, Orders

CONSTANTS
  Proposal,     \* the orders that may be proposed
  NoOrder,
  MaxInFlight,
  Tradable,     \* symbols whose instrument is tradable
  AvgVolume,    \* avg_daily_volume, per symbol; 0 if unknown, as the gate reads it
  VolumeShare,  \* max_volume_share, in percent
  MaxOrder,     \* max_order_egp, in mills
  MaxPosition,  \* max_position_pct
  DailyLoss,    \* daily_loss_limit_pct
  MaxNew,       \* max_new_positions_per_day
  RiskFree,     \* free_trades_per_month of RiskLimits
  ExitReserve   \* exit_reserve

Slot   == 1 .. MaxInFlight
Budget == RiskFree - ExitReserve

ASSUME RiskConstants ==
  /\ \A o \in Proposal : ValidOrder(o) /\ o.symbol \in Symbol /\ o.quantity \in Quantity
  /\ NoOrder \notin Proposal /\ Tradable \subseteq Symbol
  /\ AvgVolume \in [Symbol -> Nat] /\ VolumeShare \in Nat
  /\ MaxInFlight \in Nat \ {0} /\ MaxNew \in Nat \ {0}
  /\ MaxOrder \in Nat /\ MaxPosition \in Nat /\ DailyLoss \in Nat
  /\ RiskFree \in Nat /\ ExitReserve \in Nat /\ ExitReserve < RiskFree

(* The engine and the cost model have a constant each for the allowance.   *)
ASSUME AllowanceAssumption == RiskFree <= FreeTrades

ASSUME MonthAssumption ==
  \A d \in Date : Month(d) \in Nat /\ \A e \in d .. LastDay : Month(d) <= Month(e)

VARIABLES
  prices,      \* RiskContext.prices; NoPrice where a symbol is missing
  dayStart,    \* RiskContext.day_start_equity
  newToday,    \* RiskContext.new_positions_today: the entries filled today
  killSwitch,  \* RiskContext.kill_switch
  inflight,    \* allowed orders, neither filled nor dropped
  entries,     \* history: entries executed, per month
  together     \* history: were two orders ever in flight at once?

riskVars == <<prices, dayStart, newToday, killSwitch, inflight, entries, together>>
allVars  == <<vars, riskVars>>

RiskInit ==
  /\ Init
  /\ prices \in [Symbol -> Price]
  /\ dayStart = InitialCash /\ newToday = 0 /\ killSwitch = FALSE
  /\ inflight = [i \in Slot |-> NoOrder]
  /\ entries = [m \in Months |-> 0] /\ together = FALSE

----------------------------------------------------------------------------
IsEntry(o) == o # NoOrder /\ o.side = "buy"
IsExit(o)  == o # NoOrder /\ o.side = "sell"

Equity == cash + Total(LAMBDA s : HeldQuantity(s) * prices[s], Symbols)

(* check: the order's own price, or the last one; what is unknown is 0.    *)
CheckPrice(o) == IF OrderPrice(o) # NoPrice THEN OrderPrice(o) ELSE prices[o.symbol]
CheckedNotional(o) == CheckPrice(o) * o.quantity

(* The drawdown in percent reaches the limit.                              *)
DailyLossHit ==
  \/ dayStart > 0 /\ (dayStart - Equity) * 100 >= DailyLoss * dayStart
  \/ dayStart < 0 /\ (dayStart - Equity) * 100 <= DailyLoss * dayStart

EntryWideBlocks(o) == killSwitch \/ DailyLossHit \/ CheckedNotional(o) > MaxOrder

ConcentrationBlocks(o) ==
  LET heldPrice == IF prices[o.symbol] # NoPrice THEN prices[o.symbol] ELSE CheckPrice(o)
      after     == HeldQuantity(o.symbol) * heldPrice + CheckedNotional(o)
  IN  Equity > 0 /\ CheckPrice(o) # NoPrice /\ after * 100 > MaxPosition * Equity

LiquidityBlocks(o) ==
  LET cap == (AvgVolume[o.symbol] * VolumeShare) \div 100
  IN  AvgVolume[o.symbol] # 0 /\ CheckPrice(o) # NoPrice /\ o.quantity > cap

CashBlocks(o) == CheckedNotional(o) > cash

(* Mutants of BudgetBlocks: no budget; no reserve.                         *)
BudgetBlocksNever      == FALSE
BudgetBlocksUnreserved == executions[Month(today)] >= RiskFree

BudgetBlocks == executions[Month(today)] >= Budget

(* Mutant of NewPositionsBlock: one position too many.                     *)
NewPositionsBlockLate == newToday > MaxNew

NewPositionsBlock == newToday >= MaxNew

BuyBlocks(o) ==
  \/ o.symbol \notin Tradable
  \/ CashBlocks(o) \/ BudgetBlocks \/ NewPositionsBlock
  \/ LiquidityBlocks(o) \/ ConcentrationBlocks(o)

(* Mutant of SellBlocks: sized against what is held.                       *)
SellBlocksHeld(o) == o.quantity > HeldQuantity(o.symbol)

(* The one gate of an exit: settlement.                                    *)
SellBlocks(o) == o.quantity > SellableQuantity(o.symbol)

Allowed(o) ==
  IF o.side = "sell" THEN ~SellBlocks(o) ELSE ~EntryWideBlocks(o) /\ ~BuyBlocks(o)

----------------------------------------------------------------------------
Propose(i, o) ==
  /\ inflight[i] = NoOrder
  /\ Allowed(o)
  /\ inflight' = [inflight EXCEPT ![i] = o]
  /\ together' = (together \/ \E j \in Slot : inflight[j] # NoOrder)
  /\ UNCHANGED <<vars, prices, dayStart, newToday, killSwitch, entries>>

(* A price the broker may fill at.                                         *)
Fillable(o, p) ==
  o.limit # NoPrice => IF o.side = "buy" THEN p <= o.limit ELSE p >= o.limit

FillEntry(i, p) ==
  LET o == inflight[i] IN
  /\ IsEntry(o) /\ Fillable(o, p)
  /\ Buy(o.symbol, o.quantity, p)
  /\ newToday' = newToday + 1
  /\ entries' = [entries EXCEPT ![Month(today)] = @ + 1]
  /\ inflight' = [inflight EXCEPT ![i] = NoOrder]
  /\ UNCHANGED <<today, prices, dayStart, killSwitch, together>>

FillExit(i, p) ==
  LET o == inflight[i] IN
  /\ IsExit(o) /\ Fillable(o, p)
  /\ Sell(o.symbol, o.quantity, p)
  /\ inflight' = [inflight EXCEPT ![i] = NoOrder]
  /\ UNCHANGED <<today, prices, dayStart, newToday, killSwitch, entries, together>>

Fill ==
  /\ Executed < MaxExecutions
  /\ \E i \in Slot, p \in Price : FillEntry(i, p) \/ FillExit(i, p)

(* Rejected, expired, or refused by the broker.                            *)
Drop(i) ==
  /\ inflight[i] # NoOrder
  /\ inflight' = [inflight EXCEPT ![i] = NoOrder]
  /\ UNCHANGED <<vars, prices, dayStart, newToday, killSwitch, entries, together>>

(* A quote arrives, or is missing in the context of the next check.        *)
Quote == \E s \in Symbol, p \in Price \cup {NoPrice} :
  /\ prices' = [prices EXCEPT ![s] = p]
  /\ UNCHANGED <<vars, dayStart, newToday, killSwitch, inflight, entries, together>>

ToggleKillSwitch ==
  /\ killSwitch' = ~killSwitch
  /\ UNCHANGED <<vars, prices, dayStart, newToday, inflight, entries, together>>

(* The holdings of positions.yaml, read at the start.                      *)
LoadPositions == Executed = 0 /\ today = 0 /\ Seed /\ UNCHANGED riskVars

RiskNextDay ==
  /\ NextDay
  /\ dayStart' = Equity /\ newToday' = 0
  /\ UNCHANGED <<prices, killSwitch, inflight, entries, together>>

RiskNext ==
  \/ \E i \in Slot, o \in Proposal : Propose(i, o)
  \/ Fill
  \/ \E i \in Slot : Drop(i)
  \/ Quote \/ ToggleKillSwitch \/ LoadPositions \/ RiskNextDay

RiskSpec == RiskInit /\ [][RiskNext]_allVars

----------------------------------------------------------------------------
RiskTypeOK ==
  /\ TypeOK
  /\ prices \in [Symbol -> Price \cup {NoPrice}] /\ dayStart \in Int
  /\ newToday \in Nat /\ killSwitch \in BOOLEAN
  /\ inflight \in [Slot -> Proposal \cup {NoOrder}]
  /\ entries \in [Months -> Nat] /\ together \in BOOLEAN

EntriesInFlight == {i \in Slot : IsEntry(inflight[i])}

(* Checked entries still to be filled count against the budget of the      *)
(* month and the positions of the day; each check saw none of the others.  *)
BudgetInv ==
  \A m \in Months :
    /\ entries[m] <= executions[m]
    /\ entries[m] <= Budget - 1 + MaxInFlight
    /\ m = Month(today)
         => entries[m] + Cardinality(EntriesInFlight) <= Budget - 1 + MaxInFlight
    /\ m > Month(today) => entries[m] = 0

(* However fills are delayed, across a month's end too, an exit is charged *)
(* a commission only in a month in which the reserve was used by exits,    *)
(* but for the orders in flight together (RiskLimits.exit_reserve).        *)
ReserveIsForExits ==
  \A m \in Months :
    executions[m] >= FreeTrades => executions[m] - entries[m] >= ExitReserve + 1 - MaxInFlight

(* The positions opened in a day stay below the limit, but for the orders  *)
(* in flight together (RiskLimits.max_new_positions_per_day).              *)
NewPositionsCapped ==
  newToday + Cardinality(EntriesInFlight) <= MaxNew - 1 + MaxInFlight

(* As long as no two orders were in flight at once, no entry is ever       *)
(* charged: the budget gate stops entries before the free allowance ends,  *)
(* so the cash gate can leave the commission out.                          *)
EntriesAreFree == ~together => acquired.buyFees = 0

(* As long as no two orders were in flight at once, a filled entry leaves  *)
(* no negative cash, whatever happened since its check: the routing puts a *)
(* price on every entry for the cash gate to compare (Gate.CASH).          *)
EntriesNeverOverdraw ==
  [][~together /\ entries' # entries => cash' >= 0]_allVars

(* ledger.py:92 "the number an exit must size against": as long as no two  *)
(* orders were in flight at once, an allowed exit can be delivered in full, *)
(* whatever day it is filled on (Gate.SETTLEMENT).                         *)
ExitsDeliverable ==
  ~together => \A i \in Slot : IsExit(inflight[i]) =>
    inflight[i].quantity <= SellableQuantity(inflight[i].symbol)

(* engine.py:207 "(unsettled proceeds are not spendable)": an entry leaves *)
(* at least the proceeds of the sales that have not settled.               *)
UnsettledProceeds ==
  Total(LAMBDA t : IF SettleDate(t.date) > today THEN t.exit * t.quantity ELSE 0, realised)
ProceedsSettleFirst ==
  [][entries' # entries => cash' >= UnsettledProceeds]_allVars
=============================================================================
