# Verification of egx-trader

TLA+ models of the Python package `egx_trader` (`src/src/egx_trader`), the configurations
that model-check them, and machine-checked proofs of their central invariants.  Paths below are
relative to `src/src/egx_trader` unless they start with `src/`.

Day numbers in the models count from a Monday, money is in mills (thousandths of a pound), and
`None` is a model value.

## 1. The system

egx-trader collects market data for the Egyptian Exchange, replays strategies over it, and takes
an order idea as far as a ticket that a human approves.  The chain is: providers → quality gates →
indicators → strategy → order routing → risk gates → ticket → approval → broker adapter → lot ledger.
A recorder writes intraday bars while the market is open, and a local web page, the desk, starts and
stops CLI commands.  **No module of the package composes risk engine, ticket book, adapters and ledger
into a loop**: the driver that does so is external, and is modelled as the tests use the parts.

| Component (code) | State it keeps | Operations | What is hard | What makes it correct |
|---|---|---|---|---|
| Orders and routing (`execution/orders.py`) | none, values | validate, notional, `choose_order_type`, `protective_stop` | prices that are absent, rounding | an entry always has a price the cash gate can compare |
| Tickets (`execution/tickets.py`) | the book by deterministic id, state and history of each ticket | add, approve, reject, expire, mark placed or failed | approval against the deadline, retries, restarts that forget the book | an order is sent at most once in a lifetime, nothing goes back, the sweep is exact |
| Adapters (`execution/adapters.py`) | alerts sent, the broker | submit in four modes, auto approval under a cap | a submit that raises after the order got through | what is recorded as placed is at the broker |
| Calendar (`market_calendar/egx.py`) | holidays, special hours, `verified_through` | session arithmetic, phases, strict lookups | rolls over weekends and holidays, the edge of what is known | T+n is the n-th session after, a strict answer is never wrong |
| Calendar evidence (`market_calendar/verify.py`, `cli.py` `verify-calendar`) | `holidays.yaml` | presence of a basket, classification, `--write` | a feed that loses a quarter of the sessions | a holiday is not invented, and none is missed inside the range vouched for |
| Ledger (`portfolio/ledger.py`, `backtest/costs.py`) | cash, lots, realised trades, executions per month | buy, sell, add pre-existing | partial sales over several lots, settlement, commissions past an allowance | money and shares are conserved, only settled shares leave, the oldest first |
| Risk gates (`risk/engine.py`) | none; a context gathered by the caller | check | the state is read at the check and used at the fill | limits hold up to the orders in flight, exits can be delivered |
| Aggregation (`data/intraday/aggregator.py`) | none | ticks to bars, merge of two passes | order of arrival, bucket borders, counters that reset, a pass cut in two | one bar per bucket, a volume that really rose, a restart costs at most the bar it cut |
| Recorder (`data/intraday/recorder.py`, `store.py`) | buffer, failure count, the DuckDB table | loop of poll, flush, sleep; final flush | kills, restarts, polls that fail or outlast the session | what has settled is stored, what is open is not, it comes to an end |
| Desk (`control/actions.py`, `server.py`) | runs and processes by action name | start, stop, the thread of a run | requests in parallel, signals after the lock is released | one process per action, no signal to a stranger, every stop takes effect |
| Backtest, strategies, indicators (`backtest/engine.py`, `strategies/`, `features/`) | position, trades, executions | one bar at a time: enter, exit, stay | exits that wait for settlement, commissions in two months, look-ahead | exits on the first deliverable bar, no look-ahead |
| Daily data and quality (`data/yahoo.py`, `data/quality.py`) | none | parse a chart, check its granularity, the gates that block a symbol | rows that are missing, null or placeholders, splits dated days off | an honest price is never called an error, a feed that loses a quarter of its sessions is |
| Providers (`data/providers/`, `cli.py` `compare-providers`) | none | fetch with retries, merge by priority with provenance, compare | one failing source, an answer nobody can parse, a date several sources have | the first provider wins, a failure loses nothing of the others, the comparison foretells the merge |
| Commands and settings (`cli.py`, `config.py`) | settings of one process | the checks of each command in their order, its exit code | what the desk can tell of a run is its exit code and its output | a run that asks for a human is shown so (it is not, section 5) |
| Universe, dashboard, notifications | static records | filters, rendering | – | not modelled, see section 8 |

How they interact: the ledger asks the calendar for settlement dates; the risk gates read the ledger, the
routing gives the orders their prices; the ticket id is computed from the order and the day; the recorder asks
the calendar whether the market is open and hands its buffer to the aggregation; the desk runs the recorder as
a child process and stops it by SIGTERM; the quality gate counts sessions with a calendar that was itself derived from the feed.
Threads exist in the desk (one per request, one per run) and in the fetching of a basket; everything else is
sequential, and its concurrency is that of the world outside: clock, broker, human, feed, process death.

## 2. Modules

| Module | Models | Extends / instances |
|---|---|---|
| `Sums` | two loops over a list, as functions of the position: a sum, and the elements at some positions | |
| `SumsProofs` | induction over a loop and over lists, sums, picked elements | `Sums` |
| `Orders` | the order value, its validator, notional, the ticket id | |
| `Routing` | `choose_order_type`, `protective_stop` | `Orders` |
| `Tickets` | ticket book and adapters, driven by an external driver | `Orders`; `OrderConsent` as abstraction |
| `OrderConsent` | the promise: only what was agreed is executed, once | |
| `TicketsProofs` | proofs about `Tickets` | `Tickets` |
| `TradingCalendar` | session arithmetic | |
| `SessionHours` | phases, special hours, `is_open` | |
| `DailyFeed` | rows of a chart to bars, what a series must be, the check that it is daily | `Sums` |
| `Quality` | the gates that block a symbol, over a calendar given as parameters | |
| `Providers` | three providers, retries, merge, comparison | `DailyFeed` |
| `Closures` | the days an instance looks at, the candidate closures among them | `TradingCalendar` under any holidays |
| `MarketRecord` | exchange, feed, derived calendar file | `Closures`; `TradingCalendar` as recorded, `DailyFeed`, `Quality` |
| `Ledger` | lots, cash, realised trades, monthly allowance | `Sums`; `Deliveries` as abstraction |
| `Deliveries` | the promise of settlement: what arrives when, what may leave | |
| `RiskGate` | the gates over the ledger, orders in flight, fills | `Ledger`, `Orders` |
| `RiskGateProofs` | proofs about `Ledger` and about `RiskGate` over it | `RiskGate`, `SumsProofs` |
| `Aggregation` | ticks to bars, merge of two passes | `SessionHours`, `Sums` |
| `AggregationProofs` | lemmas on what `aggregate` computes | `Aggregation`, `SumsProofs` |
| `Recorder` | loop, source, store, kills and restarts | `Aggregation` |
| `RecorderProofs` | proofs about `Recorder` | `Recorder`, `AggregationProofs` |
| `PureFunctionsProofs` | proofs about the calendar, the merge of bars, the providers, and `MarketRecord` | `MCPureFunctions`, `MarketRecord`, `AggregationProofs` |
| `Desk` | runner, run threads, child processes, parallel requests | |
| `DeskProofs` | proofs about `Desk` | `Desk` |
| `Commands` | settings, and how each command the desk can start ends | |
| `Indicators`, `Strategies`, `Backtest` | indicators, the two strategies, the replay | one on the other, and `Sums` |
| `BacktestProofs` | proofs about `Backtest` | `Backtest`, `SumsProofs` |

`MC*` modules give small values to the constants of the module they extend. `MCPureFunctions` also holds the
reference definitions that the algorithms without state (`TradingCalendar`, `Aggregation`, `Providers`) are checked
against, and `MCDesk` gives `Desk` the ends of its commands from `Commands`.
A definition whose name begins with that of another and whose comment says *Mutant of* is a plausible
bug of it: substituting it makes the run that names it fail, so that no property holds for want of anything that could break it.

### How state and actions correspond to the code

* **Tickets.** `book` is `TicketBook._tickets`; `sent` is `AlertAdapter.sent`; `accepted` and `raised` are what the
  driver knows of a `submit` that returned or raised, before it calls `mark_placed` or `mark_failed`; `atBroker` is a
  history of what arrived at the broker. `Create` is `TicketBook.add` with its duplicate check and the
  state check that keeps an existing ticket of the id whatever its state; `ExpireDue` sweeps the whole book in
  one step, as the method does. `SubmitBroker` has an outcome in which the call raises *after* the broker took the order. `Restart` empties everything
  the process held in memory and keeps only `now`. `Resubmits` lets the driver call `submit` again on a ticket whose submit raised, which nothing forbids.
* **Calendar.** `AddSessions`, `NextSession`, `SessionsBetween` are the loops written as functions.
  `SessionHours` has the phases of a day (a CASE in the order of `phase_at`), the first special session that covers a day, and `is_open`.
* **MarketRecord.** `closures` is the truth, which no program variable holds; `rows` and `presence` are what the feed kept;
  `file` is `holidays.yaml`. `Rewrite` is `verify-calendar --write` at any time; `Present` says how many of the basket may have a bar. A share splits on a session of `SplitDays`,
  and `lag` is how far off the feed dates it; `Fetched` is the series the gates of `Quality` see, `Errors` the errors of `check_series`.
* **Providers.** A provider is a record of what its server will do: whether it is configured, how many tries in a row fail in a way `_get` retries, and the reply after them. A fetch ends in bars, in a
  `ProviderError` (`unavailable`), or in an exception that is none (`broken`), which `merge_providers` and `compare-providers` do not catch. `Merge` is the loop over the providers, a function of how many it has seen.
* **Commands.** Each command is a list of checks in the order of the code, the first that fires giving the exit code and whether the output says "needs a human". `Settings` are what the validators of
  `config.py` tell apart. `Outcome` maps an action of the desk's allowlist to every end it can have, and is what `Desk` takes a child's end from.
* **Ledger.** `lots[s]` is the list in order of purchase; `Taken` is what the loop of `sell` takes of one lot; `Slices` are the realised trades of one sale, the
  first of which bears the commission, as in the code. `acquired` is history: shares and fees put in, lots numbered.
* **RiskGate.** `prices`, `dayStart`, `newToday`, `killSwitch` are the fields of `RiskContext`; `inflight` are orders that passed
  `check` and are neither filled nor dropped. Between the check and the fill the ledger, the prices, the day and the month may change. `entries` and `together` are history.
* **Recorder.** `pc` is the place in `IntradayRecorder.run`; the clock and the venue's volume move between any two places.
  `Poll`, `PollFails`, `PollExpires` are the three ways `run_once` ends; `Kill` may hit at every place; `store` survives, everything else does not. `heard` and `polls` are history: `heard` is what the last run heard, kept after its end or a kill until the next run starts.
* **Desk.** One record per run, whose `pc` is the place in `_run`: claimed, launch, register, read, judge, over. `current` is `_runs`, `procs` is `_procs`;
  `stopping[q]` is the process a request has read under the lock and not yet signalled. `Post` is one HTTP request.
* **Backtest.** `at` is the index `i`; a step is one iteration of the loop of `run_backtest`, with the whole of `_close_position` in `Exit`.

## 3. What the runs show

| Run | Question | Properties | Size |
|---|---|---|---|
| `tickets` | does an order reach the broker twice, or a ticket go back? | `TypeOK`, `AuditTrailIsAPath`, `AtMostOneOrderPerLifetime`, `PlacedIsAtBroker`, `NoRewind`, `SweepIsExact`, `ImplementsConsent` | one order, two days, windows of 1 and 2, one restart |
| `pure_functions` | do session arithmetic, aggregation and merge compute what they should? | `SettlesAfterNSessions`, `CountUndoesAdd`, `BarsAreTheBuckets`, `RestartMergesBuckets`, `MergeIsByPriority`, `FailuresLoseNothing`, `ComparisonForetellsMerge` | all 128 sets of holidays among 7 days, 12 start days, n to 3; up to three ticks in any order, in and out of hours, and any cut; up to three providers in any order with every kind of reply; 82,978 states |
| `market_record` | can a calendar derived from a lossy feed be trusted, and the gates that use it? | `StrictIsTrue`, `HonestGapsPass` | a week, a Wednesday and a Sunday that may be holidays, a split on the Thursday that the feed dates ten days early or late, 900,852 states |
| `ledger` | is anything lost when sales cut lots? | `BooksBalance`, `OldestSoldFirst`, `ImplementsDelivery` | four days, three executions and a seeded lot, end of a month |
| `risk_gate` | does what was checked still hold at the fill? | `RiskTypeOK`, `ReserveIsForExits`, `NewPositionsCapped`, `EntriesAreFree`, `ExitsDeliverable`, `EntriesNeverOverdraw` | an entry, an exit and a stop as routed, two in flight, five executions, two months, 3,418,182 states |
| `recorder` | what is on disk after a kill, a failure, the close? | `TypeOK`, `SettledBucketsStored`, `BarsInsideSession`, `GivesUpAfterFailuresInARow`, `OpenBucketNotPersisted`, `EventuallyStops` | two buckets, an instant on each side, limit of two failures, a kill |
| `desk` | can starts, stops and run threads interleave badly? | `TypeOK`, `LivingProcessIsShown`, `SignalReachesShown`, `StopTakesEffect`, `EveryRunSettles` | a command that lasts and one that ends by itself, with the ends `Commands` gives them, three runs, one thread that stops, 97,924 states |
| `backtest` | does the replay cheat? | `ExitsOnFirstDeliverableBar`, `AllowanceCountsTrades`, `NoLookAhead`, `BreakoutIsNotADip` | 48,104 series that respect the price band, with missing days and a weekend |
| `desk_needs_you` | *violation*: a run that asks for a human is shown as done | `AskedIsShown` | every action of the allowlist, with the ends `Commands` gives it |
| `risk_proceeds` | *violation*: unsettled proceeds are spent | `ProceedsSettleFirst` | |
| `recorder_symbols` | *violation*: two symbols in one bar | `SettledBucketsStored` | two symbols |
| `backtest_ratchet` | *violation*: the trailing stop falls | `StopRatchets` | the series of `backtest` |

Deadlock is not checked: every model is bounded (clock, days, executions, runs) and stops at its bound, and the
real processes end too. That nothing *gets stuck* is stated where it matters, as liveness (`EventuallyStops`, `StopTakesEffect`, `EveryRunSettles`).

### Bounds, and why they are enough

* `MaxTime`, `MaxRestarts`, `MaxSends`, `LastDay`, `MaxExecutions`, `MaxSeeds`, `MaxRuns`, `MaxTraded`, `MaxKills`, `MaxTicks`, `MaxCount` bound counters and histories.
  Each is chosen so that the cases of interest happen: a second day with the same order (a new ticket id), a restart with a ticket in each state,
  a run restarted while a stop of the previous one is between its two halves (three runs), a failure series interrupted and begun again (limit 2), a bucket written by one recorder and again by the next (one kill).
* Holidays are drawn from the days on which one could change an answer: the two trading days before a weekend, the weekend's neighbours, and a weekend day.
* `ledger` needs two lots of different age and a sale larger than the first: quantities 1 and 2 and three executions. The month ends between executions so that the allowance both begins and ends.
* `risk_gate` needs the reserve to be reached with two orders in flight over a month's end: budget 2, allowance 4, five executions. The cash lets four entries at the lower price fill in one month, which is what an engine without the reserve would allow.
* `market_record` has one split, dated by the feed ten days early or ten days late: the two edges of the window `_split_explains` searches. The first close, 6251, is one more than a product of powers of 5 and 2: before the split a move to the limit, in whole prices, stays just inside the band, after it, from half of 6251 rounded down, it is one of exactly the band, where binary floats decide (`EdgeIsBeyond`).
* `pure_functions` lets one of its three inputs grow in a behaviour, so that its states add up and do not multiply. A provider's close tells whose the bar is; the replies have a bar for one date of several, a null row, a trailing placeholder,
  two rows of one date, rows out of order, weekly bars, nothing at all. A name is configured once, and Yahoo always counts as configured, as the validators of the settings have it.
* The band of `market_record` is 20 %, and closes move up or down as far as the band lets whole prices go, or not at all (`Within`): the compounding of the gate is exercised next to its limit and at it, where an error of one session shows. No close falls below `Least`, 8 units or more: below it the rounding of half a price would decide what is in the ratio of a split. No state of the run comes near it.
* `backtest` keeps the parameters' shape but scales the periods down to 1 or 2 bars, so that every indicator is defined early, missing early, and differs between neighbouring bars.

### Fairness

Safety runs assume none. Two models have fairness, as weak as the code gives:

* `Recorder!FairSpec`: `WF_pc(LoopMoves)` – the loop is a thread the operating system runs, and its sleep ends – and `WF_clock(Pass)` – time passes. It is **not** assumed that a poll ever succeeds,
  that the recorder is started, or that it is killed; `EventuallyStops` therefore says that the close of the market alone brings it to an end.
* `Desk!FairSpec`: threads of runs are scheduled, a signalled child ends (the children are this package's CLI and do not catch SIGTERM), and an action that ends by itself (`audit`) does. The
  recorder is not assumed to end by itself, so `StopTakesEffect` rests on the signal.

## 4. What is proved

The theorems hold for every value of the constants that satisfies the named assumptions of each module, not only
for the instances above. tlapm checks them to the last leaf.

**`TicketsProofs`** (assumptions `OrderAssumption`, `TimeAssumption`, `NoTicketAssumption` of `Tickets`).
`TypeCorrect`: the type invariant. `AuditTrailHolds`: every ticket's history is one of the six paths of the state diagram; the invariant is inductive with the type.
`AtMostOnceHolds`, `OnlyApprovedHolds`, `PlacedIsAtBrokerHolds`: for a driver that does not resubmit. None of the three is inductive alone – the count at the broker may only grow from a ticket that is
approved and whose submission is not under way – so `SubmissionInv` ties the driver's knowledge (`accepted`, `raised`), the ticket's state and the broker together; it is proved with one lemma per group of actions, and the three follow.
`NoRewindHolds` and `SweepIsExactHolds` are action properties from the type invariant. `Refinement`: every step of the ticket layer is a step of `OrderConsent` or a stutter.

**`SumsProofs`** carries the induction of all that follows. The library's induction theorems take an operator and cannot be used; here a loop is a function of the position it has reached, and induction is stated for *sets* of positions
(`NatInductionSet`, `LoopInduction`) and of lists (`SeqInductionSet`), both derived from the well-foundedness of the naturals. `LoopExists` gives a recursive function its equation. On these rest the lemmas on sums, on picked elements and on concatenations that the ledger, the bars and the replay share.

**`RiskGateProofs`**, the ledger (assumptions `LedgerConstants`, `SettlementAssumption`: a settlement date is after its day, and not earlier for a later day). The loop of `sell` is described once, by lemmas on what a sale takes of a list of lots of any length: it takes the shares asked for, of settled lots only, oldest first,
and the slices it realises have the cost of what left. `LedgerInv` is the type invariant, the lots' ids rising along each list (`IdsRise`: the order of the list is the order of opening), and the conservation of cash, cost and shares (`BooksBalance`). It is inductive, one lemma per operation. From it:
`LedgerTypes`, `BooksAlwaysBalance`, the action property `SalesAreFifo` (`OldestSoldFirst`), and `LedgerImplementsDeliveries`: with what is due on each day summed over the lots, each step of the ledger is a step of `Deliveries` or a stutter.

**`RiskGateProofs`**, the gates (also `RiskConstants`, `AllowanceAssumption`, `MonthAssumption`). `BudgetHolds`: entries of a month and those in flight stay below
`Budget - 1 + MaxInFlight`. Every check sees only executed orders, so the bound without the orders in flight is false, and the invariant must count them; it must also bound the months to come by zero, and say that a month's executions include its entries.
`ReserveHolds` (`ReserveIsForExits`) follows by arithmetic. The positions of a day have the same argument, and `NewPositionsHold` comes from the same inductive invariant, `CountInv` (types, the budget, the day's positions), proved with one lemma per kind of step: an order checked, an entry filled, an order gone, a new day.
`GateInv` adds the ledger's invariant and what holds as long as orders were in flight one at a time (`AloneInv`): what was checked of the one order still holds when it fills, for the ledger only moves by fills and by days, and days only make more deliverable. It gives `RiskTypesHold`, `EntriesFreeHolds`, `ExitsHold`, and
`GatesKeepTheLedger`: every behaviour behind the gates is one of the ledger, so that the four theorems of the ledger hold there. `NoOverdraftHolds` supposes that entries have a limit, and `RoutedEntriesAreLimits` proves that of whatever `choose_order_type` builds.

**`AggregationProofs`** (`BucketAssumption`, `HoursAssumption`). `AggregateIs`: for every list of ticks, in any order, the bars of `aggregate` are one for each bucket with a tick of the session, ascending, each made of all its ticks in order of time. The invariant of the loop is that the bars closed so far are those of all buckets but the newest, and the open bucket holds the newest's ticks.

**`RecorderProofs`** (also `RecorderConstants`). `RecorderTypesHold`. `GivesUpHolds`, which needs that the failure count is the number of failures at the end of the polls (`FailuresCounted`). `TicksInTimeHold`: buffer and history are in order of time and not of the future; so
`OpenBucketsNotPersisted`, for the newest bucket of the buffer is the only one the clock may still be in. `BarsInsideSessionHolds` supposes `WholeBuckets` (the session begins and ends with a bucket, as that of 9:30 to 14:30 does for bars of 1, 5 and 15 minutes) and `HoursAnnounced`
(the market is open exactly in the hours of the schedule). `SettledBucketsStoredHolds` supposes `HoursAnnounced` and `OneSymbol`: with several symbols it is false, which is the finding of `recorder_symbols`. Its invariant is a *cut*: an instant up to which everything heard is stored and from which on everything heard is in the buffer
(`SettledUpToACut`); a flush moves the cut to the newest bucket, the final one to the end, and a bar is that of the ticks up to the cut however often the bucket was written. The same cut bounds what a kill loses (`SurvivesKill`): what a run reads in one poll is of one instant, so two instants heard after a bucket are two polls, and the flush between them stored it. The newest bucket may be lost, and the one before it when the newest was heard only once. TLC evaluates both assumptions on the instance of the run (`SessionOfTheRuns`).

**`PureFunctionsProofs`** (`ClosureAssumption`: no closure of the calendars considered is longer than the longest; `CountAssumption`: the bound on the sessions counted; `TickAssumption`: the hours of the session of the ticks). `SettlesAfterNSessionsHolds` and `CountUndoesAddHolds`, for any days and counts, by induction over the number of sessions: the next session is the first trading day after a day, and one is found within the longest closure. `BarsAreTheBucketsHolds`, from `AggregateIs`, also says what the volume of a bar is. `RestartMergesBucketsHolds` is for one symbol, as `merge_bars` is: a list of any length cut anywhere;
its proof compares the buckets before the cut, after it, and the one that it hits. `MergeIsByPriorityHolds`, `FailuresLoseNothingHolds` and `ComparisonForetellsMergeHolds` hold for any number of providers with distinct names and any replies: the loop of `merge_providers` is followed provider by provider, with the invariant that a date belongs to the first that offered it, and that counts, failures and provenance agree with the dates.

**`PureFunctionsProofs`**, the market record (`ClosureAssumption`, `RecordConstants` and, for the gates, `ThresholdsAssumption`; TLC evaluates them on the run `market_record`).
The session arithmetic above is proved for any set of holidays, so it holds for both calendars of the record. `StrictIsTrueHolds`: two calendars that agree on a range of days give the same settlement dates inside it (`SettlementsAgree`, by induction over the sessions). The invariant says that the file lists exactly the weekdays of its range that the evidence calls closed (`FileFollows`), which needs that the days of the range are over and no bar of theirs is still to come (`Evidence`).
`HonestGapsPassHolds`: the rows do not hold the prices the feed lost, so the invariant (`Tape`) says that *some* history of closes exists, each within the band of the one before, from which all rows came. Over days without a split the close keeps inside the band compounded over the sessions of any calendar that knows of every session (`BandKeeps`, by induction over the days; for falls it needs that 0.8ⁿ ≥ 2 − 1.2ⁿ, `BandsSpread`), so that a jump has a split in it; where no session lies between, the close before the split is known, half of it within the band is in the ratio 1:2 to within three tenths, and the feed dates the split in the window searched. What floats make of a move of exactly the band is a constant (`EdgeIsBeyond`), and the theorem holds for any of them: such a move is exempt. The rate of drops is a count of positions: what is parsed, trimmed and dropped stands in bijection with the rows it was picked from (`KeptCounts`).

**`BacktestProofs`** (`StrategyConstants`, `BacktestConstants`). `BacktestTypesHold`; `ExitsOnFirstHolds`; `AllowanceHolds`, with the executions of a month counted over the trades and the open position. `NoLookAheadHolds`: each indicator of a series and of its prefix agree on the prefix, so the strategies do.
`BreakoutIsNoDip`: at a close above all earlier highs the smoothed gains exceed the smoothed losses, for every period. The invariant along Wilder's recursion: where no earlier close is above M, gains less losses are at least the close less M, over the period.

**`DeskProofs`**. `LivingProcessHolds` and `SignalHolds`, for any number of actions, runs and concurrent requests. The invariant `DeskInv` ties the place of a run's thread to what the tables say: a run that has its thread is
shown as running and is the current one of its action (`BusyIsShown`); a process that lives is attended by its thread, which has launched it and not yet seen it end (`LivingIsAttended`); a thread that reads has its process registered (`ReadIsRegistered`);
what is registered, or held by a request between the two halves of `stop`, is the process of a run that got as far as reading (`RegisteredHasRead`). `stop` signals outside the lock; it polls first, so what it signals lives, and what lives is shown. The only assumption is `DeskConstants`. `DeskTypes` are the types.

### Only model-checked

* Liveness: `EventuallyStops`, `StopTakesEffect`, `EveryRunSettles`. It rests on fairness, and with that on when actions are enabled.
* The properties of the four runs that expect a violation are refuted, not proved.

## 5. Divergences between code and documentation

Four have a run and are listed as findings: unsettled proceeds pay for an entry (`risk/engine.py:202`, against its own message at line 207);
the ticks of all symbols go into one aggregation (`data/intraday/aggregator.py:75`); the chandelier stop is not a ratchet (`features/indicators.py:176`);
and no run is shown as needing a human: the exit code is judged first (`control/actions.py:196`), while `egx record` says so only when the login expires in the session, and then exits 0 (`cli.py:634-641`). A login found
expired at the start exits 1 without the words, and is shown as failed.

Others were met while modelling. The models contain the behaviour; no run states the documented one.

* Tickets: `approve` does not look at the clock, so an overdue ticket can be approved until a sweep runs (`execution/tickets.py:133`, header line 9). The book is in memory, so the "second attempt is a no-op" (line 14) ends with the process. A submit that raised leaves the ticket approved, to be submitted again (`adapters.py:129-136`). A failed ticket blocks the same order until the next day (`tickets.py:194`, against line 19). The settlement mode is no part of the id (line 88): two orders that differ in it are one ticket.
* `auto_approve` compares the notional with the cap, and a market order's notional is 0 (`adapters.py:145`, against 140).
* Risk: an unknown price counts as 0, which every gate lets pass (`risk/engine.py:114`; the repository's README, line 216, wants the opposite). A resting stop is not subtracted from what an exit may sell (line 174).
* The tax reserve takes the result of realised trades before the commissions of entries (`ledger.py:221`). The ledger's calendar is not strict (`ledger.py:81`, against `egx.py:108`).
* Aggregation: after a counter reset a bucket's volume is 0 or understated (`aggregator.py:100`, against 93), and shares traded between two buckets' readings belong to no bar (against 92). A bucket in which nothing is heard after the last tick stays open until the close (`recorder.py:102`, against 89). A recorder restarted in a bucket replaces its bar by a poorer one (`store.py:72`, against line 5); `merge_bars`, which only the tests call, does the same, although "a later pass saw at least as many ticks" (`aggregator.py:107-109`): `RestartMergesBuckets` says what is true of it.
* Desk: "one at a time" (`actions.py:119`) holds per action only. A login that is cancelled says "Nothing was saved" (`cli.py:567`), although the browser has written its profile by then.
* `verify-calendar --write` lists only days it found closed. A day it reports as ambiguous and "left alone" (`cli.py:375`) and that the file had as a holiday is dropped from the file, as are holidays outside the range of the evidence; `verified_through` may move back.
* A bar on a day the exchange was closed makes `sessions_between` count one session too few from it, so that an honest move of two sessions can be flagged (`quality.py:187`). The followed symbol of `market_record` has no such bar. A split around which the feed lost sessions is flagged too when the close has moved since: its ratio is compared with a close of several sessions before. That is one of the two exceptions `HonestGapsPass` names.
* The price band is compared in binary floats (`quality.py:189-191`), and `(1 + 0.2) ** 1 - 1` is 0.19999999999999996: a move of exactly 20 %, such as 5000 to 4000 or to 6000, is beyond it, is reported as a jump and blocks the symbol. Against `quality.py:34-37`, where BIOC "printed exactly -20.0% then +20.0%" and "No cushion is needed", and the docstring, which flags moves "that EGX's price limits make impossible" (line 166). The model has it: in the run a move of the whole band is flagged (`OfWholeCloses`). It is the other exception `HonestGapsPass` names.
* Providers: the share `compare-providers` prints divides bars by sessions, and bars of days the exchange was closed count (`cli.py:487-490`, against 443-444). An answer that cannot be parsed, or one of Yahoo or EODHD that has a date twice, raises an error that is no `ProviderError`: one provider's failure then ends the merge, the comparison, and in `audit` the whole map over the symbols. EODHD and CSV keep placeholder bars at the end and do not check that the bars are daily (`eodhd.py:131` says "Same policy as the Yahoo parser"). The merged series has no splits (`merged.py:61`), so a gate over it could explain no split. Nothing refuses a provider named twice in the settings.
* Backtest: an exit that waits for settlement frees the position at its signal, so that a new entry may overlap it; the band of its fill is measured from the signal's bar and not from "prior close" (`engine.py:229`, against 256). An exit without a deliverable bar is dropped without a note. A position open at the end of the series is not reported and its commission not counted. A strategy "is never handed bar i+1" (`backtest/engine.py:7-8`), but is handed the whole series and the index; that what it decides does not depend on the rest is `NoLookAhead`.
* "A breakout can never trigger" the mean reversion (`strategies/mean_reversion.py:72`): checked and proved for a close above every earlier high (`BreakoutIsNotADip`). The breakout strategy looks at the highs of 55 sessions, and a breakout over these after an older and deeper fall is not covered.

## 6. Abstractions

* Prices are integers, and amounts products of them. Where the code rounds to piasters the routing does too, and leaves a tie, which depends on binary floats, open. Comparisons with a limit are exact, and binary floats may decide otherwise at equality: at the price band this is modelled (`EdgeIsBeyond`); at the limits of the daily loss and the concentration, and at the levels of the strategies, it is not, and no property is about an amount exactly at one of these. Where one quotient is compared with a literal (drop rate, the share of symbols present, the ratio of a split) both sides round the same way, and the exact comparison is the code's.
* The ticket id is its tuple of fields: the hash is taken to be injective.
* An upsert is atomic, as a transaction of DuckDB is.
* In `Indicators` simple means and the ATR are integer quotients, exact for the prices of the instances (multiples of the powers of the periods that divide them); relative volume is in percent, rounded down. Wilder's smoothing is kept as a fraction, and RSI as the pair of its averages, gain and loss, so that the comparison of RSI with a level is exact at any price. Thresholds of the strategies are in the same units.
* A chart row has a close and a volume; opens, highs and lows only decide whether the row is whole. A row whose date cannot be read is no row. Which file of the CSV directory belongs to a symbol is not modelled: the code takes prefixes and parts of names (`tv_csv.py:86-89`), so that another symbol's file may be taken.
* `RiskGate` knows one symbol in its run, so the concentration it checks is that of one position.
* Texts (reasons, rationales, labels, messages, logs) are left out.

## 7. External parts

The human, the broker, the exchange, the venue's counter, the clocks, the operating system's processes and signals, and the driver that the package does not contain. They are modelled by what the code under `src/` admits of them, and marked as external.

## 8. Not modelled

* The warnings of the quality gates, which block nothing, and the fields of a series no gate reads (dividends, currency, names).
* The HTTP clients of the providers beyond retries and the kind of reply: URLs, columns, encodings.
* Universe: filters over a static file; a specification of what they return would restate them. Numeric limits of the settings.
* Dashboard, notifications, and the commands the desk does not start: they render. The dashboard keeps no state of its own.
* The browser session of ThndrX: I/O; `ThndrXSource.poll` is not implemented in the code. Its exceptions are in `Recorder`.
* The HTTP layer of the desk beyond concurrency: parsing and comparison of a token.

## 9. Plan

Order of work, most important first; the first ten are done.

1. Tickets with `OrderConsent`, runs and proofs.
2. Calendar and ledger with `Deliveries`.
3. Risk gates over the ledger, with routing; proofs of budget and positions.
4. Aggregation and recorder, with kills and restarts.
5. Desk, with proofs.
6. Strategies and replay.
7. Market record: feed, derived calendar, price-jump gate.
8. `Providers` with retries, priority and comparison; `Quality`; `merge_bars`; `Commands` behind the desk.
9. Proofs of the ledger with its refinement, the gates, the aggregation, the recorder, the calendar, the providers and the replay.
10. Proofs of the market record: two calendars that agree on a range of days, and the gates over a history with gaps.
11. `DeskRecorder`: the desk's stop against the recorder's final flush, and a desk that is started again while a recorder runs.
12. The window of the random close.
