-------------------------- MODULE MCPureFunctions ---------------------------
(***************************************************************************)
(* The algorithms without state of their own, on every bounded input,      *)
(* against definitions that count or choose: session arithmetic, bars of   *)
(* ticks, and the merge of providers.  An input grows a step at a time,    *)
(* and only one of the three grows in a behaviour.                         *)
(***************************************************************************)
EXTENDS Closures, Aggregation

CONSTANTS
  MaxCount,                                  \* bound: the sessions added
  Symbol, Times, Prices, Volumes, MaxTicks   \* the ticks' bounds

VARIABLES
  holidays, day, count,  \* the inputs of the session arithmetic
  ticks,                 \* of aggregate
  providers              \* of merge_providers, in order of priority

vars == <<holidays, day, count, ticks, providers>>

INSTANCE TradingCalendar WITH Holidays <- holidays

ASSUME CountAssumption == MaxCount \in Nat

(* The session of the instance is from 2 to 6.                             *)
ASSUME TickAssumption ==
  /\ Times \subseteq Nat /\ Prices \subseteq Int /\ Volumes \subseteq Nat
  /\ \A t \in Times : IsOpen(t) <=> t \in 2 .. 6

Daily == INSTANCE Providers

Hours       == [preOpen |-> 2, continuous |-> 3, auction |-> 5, atClose |-> 6, end |-> 7]
NoSpecial   == <<>>
EveryDay(d) == TRUE
Totals      == {0, 2, 3}

----------------------------------------------------------------------------
(* Each server has bars of its own: a close tells whose a bar is.          *)
Mark(name) == CASE name = "yahoo" -> 1 [] name = "eodhd" -> 2 [] name = "tradingview_csv" -> 3

Bar(name, d)  == [date |-> d, close |-> Mark(name), volume |-> 1]
Again(name, d) == [Bar(name, d) EXCEPT !.close = @ + 10]
IdleBar(name, d) == [Bar(name, d) EXCEPT !.volume = 0]
NullBar(d)       == [date |-> d, close |-> None, volume |-> 0]

ChartsOf(name) ==
  {<<Bar(name, 1), Bar(name, 2), Bar(name, 3)>>,
   <<Bar(name, 1), NullBar(2), Bar(name, 3)>>,
   <<Bar(name, 2), IdleBar(name, 3)>>,
   <<Bar(name, 1), Again(name, 1), Bar(name, 2)>>,
   <<Bar(name, 2), Bar(name, 1)>>,
   <<Bar(name, 1), Bar(name, 8), Bar(name, 15)>>,
   <<NullBar(1)>>, <<>>}

Replies(name) == {Daily!Rows(rows) : rows \in ChartsOf(name)} \cup {Daily!Refused, Daily!Garbled}

Provider(name, configured, busy, reply) ==
  [name |-> name, configured |-> configured, busy |-> busy, reply |-> reply]

(* With valid settings Yahoo is always configured.                         *)
Usual(name) == Daily!Rows(<<Bar(name, 2)>>)

ProvidersOf(name) ==
  {Provider(name, TRUE, 0, reply) : reply \in Replies(name)}
    \cup (IF name = "yahoo" THEN {} ELSE {Provider(name, FALSE, 0, Usual(name))})
    \cup {Provider(name, TRUE, busy, Usual(name)) :
            busy \in IF name = "tradingview_csv" THEN {} ELSE {3, 4}}

Names == {"yahoo", "eodhd", "tradingview_csv"}

----------------------------------------------------------------------------
Init ==
  /\ holidays \in SUBSET Candidates /\ day \in FirstDay .. LastDay /\ count = 0
  /\ ticks = <<>> /\ providers = <<>>

(* One more session: the inputs of the loop of add_sessions.               *)
Count ==
  /\ ticks = <<>> /\ providers = <<>> /\ count < MaxCount
  /\ count' = count + 1 /\ UNCHANGED <<holidays, day, ticks, providers>>

Plain == holidays = {} /\ day = FirstDay /\ count = 0

Arrive == \E s \in Symbol, t \in Times, p \in Prices, v \in Volumes \cup {NoVolume} :
  /\ Plain /\ providers = <<>> /\ Len(ticks) < MaxTicks
  /\ ticks' = Append(ticks, [symbol |-> s, at |-> t, price |-> p, volume |-> v])
  /\ UNCHANGED <<holidays, day, count, providers>>

(* build_providers, where a name is configured once.                       *)
Configure == \E name \in Names : \E p \in ProvidersOf(name) :
  /\ Plain /\ ticks = <<>> /\ \A i \in DOMAIN providers : providers[i].name # name
  /\ providers' = Append(providers, p)
  /\ UNCHANGED <<holidays, day, count, ticks>>

Next == Count \/ Arrive \/ Configure

Spec == Init /\ [][Next]_vars

----------------------------------------------------------------------------
(* add_sessions(d, n) is the trading day with exactly n trading days       *)
(* between it and the first trading day on or after d: what a settlement   *)
(* date T+n means.                                                         *)
SettlesAfterNSessions ==
  LET s == AddSessions(day, count) IN
  /\ Weekday(s) \notin {4, 5} /\ s \notin holidays /\ s >= day
  /\ Cardinality({d \in day .. s - 1 : Weekday(d) \notin {4, 5} /\ d \notin holidays}) = count

(* sessions_between measures what add_sessions advances and                *)
(* previous_session steps back from it: the three loops, one of them       *)
(* half-open, agree at every boundary.                                     *)
CountUndoesAdd ==
  /\ IsTradingDay(day) => SessionsBetween(day, AddSessions(day, count)) = count
  /\ count > 0 => PreviousSession(AddSessions(day, count)) = AddSessions(day, count - 1)

----------------------------------------------------------------------------
InBucket(b) == {i \in DOMAIN ticks : BucketStart(ticks[i].at) = b /\ ticks[i].at \in 2 .. 6}

(* i is the first, or the last, of a set of ticks in time; of simultaneous *)
(* ticks the order of arrival decides.                                     *)
Before(i, j) == ticks[i].at < ticks[j].at \/ (ticks[i].at = ticks[j].at /\ i <= j)
IsFirst(i, S) == i \in S /\ \A j \in S : Before(i, j)
IsLast(i, S)  == i \in S /\ \A j \in S : Before(j, i)

(* Some running total of the bucket less an earlier one.                   *)
IsRise(volume, S) == \E i, j \in S :
  /\ Before(i, j) /\ ticks[i].volume # NoVolume /\ ticks[j].volume # NoVolume
  /\ volume = ticks[j].volume - ticks[i].volume

(* aggregate produces, in order of time, one bar for each bucket that has  *)
(* a tick of the session and none for any other; it opens and closes with  *)
(* the first and last tick in time, ranges over the prices, and counts.    *)
(* Its volume is never negative and never more than the running total rose *)
(* within the bucket, whatever the counter did in between.                 *)
BarsAreTheBuckets ==
  LET bars == Aggregate(ticks) IN
  /\ \A k \in 1 .. Len(bars) - 1 : bars[k].start < bars[k + 1].start
  /\ {bars[k].start : k \in DOMAIN bars}
       = {b \in {BucketStart(t) : t \in Times} : InBucket(b) # {}}
  /\ \A k \in DOMAIN bars :
       LET bar == bars[k]  S == InBucket(bar.start) IN
       /\ \E i \in S : IsFirst(i, S) /\ bar.open = ticks[i].price
       /\ \E i \in S : IsLast(i, S) /\ bar.close = ticks[i].price
       /\ \A i \in S : ticks[i].price \in bar.low .. bar.high
       /\ {bar.low, bar.high} \subseteq {ticks[i].price : i \in S}
       /\ bar.count = Cardinality(S)
       /\ bar.volume = 0 \/ (bar.volume > 0 /\ IsRise(bar.volume, S))

(* A recorder that restarts, and so aggregates what it sees from the cut   *)
(* on, leaves after merge_bars the bars one run would have left, the bar   *)
(* of the bucket around the cut excepted: of that one the later part stays *)
(* and the ticks before the cut are gone, although merge_bars calls it the *)
(* better record.                                                          *)
RestartMergesBuckets ==
  \A cut \in 0 .. Len(ticks) :
    LET before == SubSeq(ticks, 1, cut)  after == SubSeq(ticks, cut + 1, Len(ticks))
        whole  == Aggregate(ticks)  later == Aggregate(after)
        merged == MergeBars(Aggregate(before), later)
    IN  (\A i \in DOMAIN before, j \in DOMAIN after : before[i].at <= after[j].at) =>
          /\ [k \in DOMAIN merged |-> merged[k].start] = [k \in DOMAIN whole |-> whole[k].start]
          /\ \A k \in DOMAIN merged :
               LET split == /\ \E i \in InBucket(whole[k].start) : i <= cut
                            /\ \E i \in InBucket(whole[k].start) : i > cut
               IN  IF split THEN merged[k] \in ToSet(later) /\ merged[k].count < whole[k].count
                            ELSE merged[k] = whole[k]

----------------------------------------------------------------------------
Result       == Daily!Merge(providers)
Answer(i)    == Daily!FetchDaily(providers[i])
Offers(i, d) == Answer(i).is = "bars" /\ d \in Daily!DatesOf(Answer(i))

(* A merged series has a bar for exactly the dates some provider has one   *)
(* for; it is the bar of the first of those in the configured order, and   *)
(* the provenance says so (merged.py "Order is priority").                 *)
MergeIsByPriority ==
  Result.is = "merged" =>
    /\ DOMAIN Result.chosen
         = UNION {Daily!DatesOf(Answer(i)) : i \in {i \in DOMAIN providers : Answer(i).is = "bars"}}
    /\ DOMAIN Result.sources = DOMAIN Result.chosen
    /\ \A d \in DOMAIN Result.chosen : \E i \in DOMAIN providers :
         /\ Offers(i, d) /\ \A j \in 1 .. i - 1 : ~Offers(j, d)
         /\ Result.chosen[d] \in ToSet(Answer(i).candles)
         /\ Result.sources[d] = providers[i].name

(* A provider that gives nothing, for want of a key, a refusal, or a       *)
(* server still failing at the last attempt, is named among the failures   *)
(* and changes nothing else of the result; and the merge fails only if     *)
(* nobody has a bar (merged.py; test_providers.py "a failing provider does *)
(* not lose the others").                                                  *)
SaysNothing(p) == ~p.configured \/ p.busy > 3 \/ p.reply = Daily!Refused

FailuresLoseNothing ==
  /\ \A i \in DOMAIN providers :
       SaysNothing(providers[i]) /\ Result.is # "broken" =>
         /\ providers[i].name \in Result.failures
         /\ LET without == Daily!Merge(RemoveAt(providers, i)) IN
            [without EXCEPT !.failures = {}] = [Result EXCEPT !.failures = {}]
  /\ Result.is = "unavailable" =>
       \A i \in DOMAIN providers : Answer(i).is = "bars" => Daily!DatesOf(Answer(i)) = {}

(* What compare-providers prints of a symbol foretells the merge it        *)
(* advertises: together the providers cover the dates the merge has, each  *)
(* contributes what none before it covers, and an answer nobody expects    *)
(* breaks both (cli.py "merged is what EGX_DATA_PROVIDERS gives you").     *)
ComparisonForetellsMerge ==
  LET seen == Daily!Compare(providers)
      New(i) == seen.covers[providers[i].name]
                  \ UNION {seen.covers[providers[j].name] :
                             j \in {j \in 1 .. i - 1 : providers[j].configured}}
  IN  /\ seen.is = "broken" <=> Result.is = "broken"
      /\ seen.is # "broken" =>
           /\ seen.together = Cardinality(DOMAIN Result.chosen)
           /\ \A i \in DOMAIN providers : providers[i].configured =>
                IF providers[i].name \in DOMAIN Result.contributions
                THEN Result.contributions[providers[i].name] = Cardinality(New(i))
                ELSE New(i) = {}
=============================================================================
