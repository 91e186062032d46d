------------------------------ MODULE Recorder ------------------------------
(***************************************************************************)
(* The recording loop (data/intraday/recorder.py) over its tick source and *)
(* its bar store (data/intraday/store.py), with kills and restarts.        *)
(*                                                                         *)
(* The clock moves at any time: while the source is read, between a check  *)
(* and what follows it, while the loop sleeps.  The source and the store's *)
(* database are external: a poll reads some of the symbols at the time it  *)
(* is made, or raises; an upsert happens or the process dies before it.    *)
(***************************************************************************)
EXTENDS Aggregation

CONSTANTS
  Symbol, Price,
  SessionStart, SessionEnd,  \* the hours announced for the day of the run
  MaxTime,                   \* bound on the clock
  Sleep,                     \* poll_seconds
  MaxFailures,               \* max_consecutive_failures
  MaxTraded,                 \* bound on the venue's running volume
  MaxKills                   \* bound on kills

ASSUME RecorderConstants ==
  /\ IsFiniteSet(Symbol) /\ Price \subseteq Int
  /\ SessionStart \in Nat /\ SessionEnd \in Nat /\ SessionStart <= SessionEnd
  /\ MaxTime \in Nat /\ MaxTime >= SessionEnd /\ Sleep \in Nat \ {0}
  /\ MaxFailures \in Nat \ {0} /\ MaxTraded \in Nat /\ MaxKills \in Nat

VARIABLES
  clock,
  traded,       \* the venue's running total
  pc,           \* where the loop is; "off" when no recorder runs
  buffer,       \* the ticks not yet rolled into a stored bar
  consecutive,
  wake,         \* when the sleep ends
  reason,       \* stats.stopped_reason
  store,        \* intraday_bars, by symbol and start
  heard,        \* history: the ticks this run was given, or the last one
  polls,        \* history: how this run's last polls ended
  kills

loopVars == <<pc, buffer, consecutive, wake, reason, heard, polls>>
vars     == <<clock, traded, store, kills, loopVars>>

Init ==
  /\ clock = SessionStart /\ traded = 0
  /\ pc = "off" /\ buffer = <<>> /\ consecutive = 0 /\ wake = 0 /\ reason = "none"
  /\ store = << >> /\ heard = <<>> /\ polls = <<>> /\ kills = 0

InSession(t) == t >= SessionStart /\ t < SessionEnd

(* What the theorems take of a run: SessionStart and SessionEnd are the    *)
(* hours of the calendar, and begin and end with a bucket.                 *)
HoursAnnounced == \A t \in 0 .. MaxTime : IsOpen(t) <=> InSession(t)
WholeBuckets   == /\ BucketStart(SessionStart) = SessionStart
                  /\ BucketStart(SessionEnd) = SessionEnd
OneSymbol      == \A s, t \in Symbol : s = t

----------------------------------------------------------------------------
(* `egx record`: refuses to start when the market is closed.               *)
Start ==
  /\ pc = "off" /\ IsOpen(clock)
  /\ pc' = "check" /\ buffer' = <<>> /\ consecutive' = 0 /\ reason' = "none"
  /\ heard' = <<>> /\ polls' = <<>>
  /\ UNCHANGED <<clock, traded, store, kills, wake>>

(* Mutant of StillOpen: the loop does not look at the calendar.            *)
StillOpenAlways == TRUE

StillOpen == IsOpen(clock)

(* The top of the loop.                                                    *)
Check ==
  /\ pc = "check"
  /\ IF StillOpen THEN pc' = "poll" /\ UNCHANGED reason
                  ELSE pc' = "final" /\ reason' = "session closed"
  /\ UNCHANGED <<clock, traded, store, kills, buffer, consecutive, wake, heard, polls>>

Tick(s, p) == [symbol |-> s, at |-> clock, price |-> p, volume |-> traded]

(* Mutant of Recovered: a good poll does not end a series of failures.     *)
RecoveredNever == consecutive' = consecutive

Recovered == consecutive' = 0

(* The history keeps what the limit can look back on.                      *)
Polled(outcome) ==
  polls' = LET all == Append(polls, outcome)
           IN  SubSeq(all, Max({1, Len(all) - MaxFailures + 1}), Len(all))

(* run_once: one reading for some of the symbols.                          *)
Poll == \E S \in SUBSET Symbol : \E price \in [S -> Price] :
  LET ticks == SetToSeq({Tick(s, price[s]) : s \in S}) IN
  /\ pc = "poll"
  /\ buffer' = buffer \o ticks /\ heard' = heard \o ticks
  /\ Recovered /\ Polled("read")
  /\ pc' = "flush"
  /\ UNCHANGED <<clock, traded, store, kills, wake, reason>>

(* TickSourceError: counted, and at the limit the loop gives up.           *)
PollFails ==
  /\ pc = "poll"
  /\ consecutive' = consecutive + 1 /\ Polled("failed")
  /\ IF consecutive + 1 >= MaxFailures
     THEN pc' = "final" /\ reason' = "failures"
     ELSE pc' = "flush" /\ UNCHANGED reason
  /\ UNCHANGED <<clock, traded, store, kills, buffer, wake, heard>>

(* SessionExpiredError: no retry.                                          *)
PollExpires ==
  /\ pc = "poll"
  /\ Polled("expired")
  /\ pc' = "final" /\ reason' = "expired"
  /\ UNCHANGED <<clock, traded, store, kills, buffer, consecutive, wake, heard>>

(* Mutant of Key: the primary key forgets the start.                       *)
KeyWithoutStart(bar) == <<bar.symbol, 0>>

(* store.write: insert or replace, by symbol and start.                    *)
Key(bar) == <<bar.symbol, bar.start>>
Upserted(bars) ==
  LET keys == {Key(bars[k]) : k \in DOMAIN bars} IN
  [key \in keys \cup DOMAIN store |->
     IF key \in keys THEN (CHOOSE bar \in ToSet(bars) : Key(bar) = key) ELSE store[key]]

(* Mutants of SettledBars: the bucket still filling is written too; the    *)
(* first is cut off in place of the last.                                  *)
SettledBarsAll(bars)  == bars
SettledBarsTail(bars) == Tail(bars)

(* flush with keep_open_bucket: all bars but the last are settled, and the *)
(* buffer keeps the ticks from the last one's start.                       *)
SettledBars(bars) == Front(bars)
Kept(bars)        == Picked(buffer, {i \in DOMAIN buffer : buffer[i].at >= Last(bars).start})

FlushSettled ==
  LET bars == Aggregate(buffer) IN
  /\ CASE bars = <<>>    -> buffer' = <<>> /\ UNCHANGED store
       [] Len(bars) = 1  -> UNCHANGED <<buffer, store>>
       [] OTHER          -> buffer' = Kept(bars) /\ store' = Upserted(SettledBars(bars))

Flush ==
  /\ pc = "flush"
  /\ FlushSettled
  /\ pc' = "sleep" /\ wake' = clock + Sleep
  /\ UNCHANGED <<clock, traded, kills, consecutive, reason, heard, polls>>

(* MaxTime stands for every later time.                                    *)
Awake == clock >= wake \/ clock = MaxTime

WakeUp ==
  /\ pc = "sleep" /\ Awake
  /\ pc' = "check"
  /\ UNCHANGED <<clock, traded, store, kills, buffer, consecutive, wake, reason, heard, polls>>

(* The flush after the loop: nothing follows it.                           *)
FinalFlush ==
  /\ pc = "final"
  /\ store' = Upserted(Aggregate(buffer)) /\ buffer' = <<>>
  /\ pc' = "stopped"
  /\ UNCHANGED <<clock, traded, kills, consecutive, wake, reason, heard, polls>>

(* The process ends; what it knew is gone.                                 *)
Gone ==
  /\ pc' = "off" /\ buffer' = <<>> /\ consecutive' = 0 /\ wake' = 0 /\ reason' = "none"
  /\ polls' = <<>>
  /\ UNCHANGED <<clock, traded, store, heard>>

Exit == pc = "stopped" /\ Gone /\ UNCHANGED kills

(* SIGTERM from the desk, Ctrl-C, a crash, an exception of the store: none *)
(* of them reaches the final flush.                                        *)
Kill == pc \notin {"off", "stopped"} /\ kills < MaxKills /\ kills' = kills + 1 /\ Gone

Trade ==
  /\ traded < MaxTraded /\ traded' = traded + 1
  /\ UNCHANGED <<clock, store, kills, loopVars>>

(* One instant passes.                                                     *)
Pass ==
  /\ clock < MaxTime /\ clock' = clock + 1
  /\ UNCHANGED <<traded, store, kills, loopVars>>

Loop == Check \/ Poll \/ PollFails \/ PollExpires \/ Flush \/ WakeUp \/ FinalFlush

Next == Loop \/ Start \/ Exit \/ Kill \/ Trade \/ Pass

Spec == Init /\ [][Next]_vars

Place == {"off", "check", "poll", "flush", "sleep", "final", "stopped"}

(* Any step of Loop.  Every one moves pc, no other step does so without    *)
(* ending the process, and this says when one can be taken without the     *)
(* bars it would write.                                                    *)
LoopMoves ==
  /\ pc \in {"check", "poll", "flush", "final"} \/ (pc = "sleep" /\ Awake)
  /\ pc' \in Place \ {pc, "off"}

(* The loop is a thread that runs, and time passes.  That a recorder is    *)
(* started, that a poll succeeds, and that one is killed, is not assumed.  *)
FairSpec == Spec /\ WF_pc(LoopMoves) /\ WF_clock(Pass)

----------------------------------------------------------------------------
BarType == [symbol : Symbol, start : Nat, open : Price, high : Price, low : Price,
            close : Price, volume : Nat, count : Nat \ {0}]
TickType == [symbol : Symbol, at : Nat, price : Price, volume : 0 .. MaxTraded]

(* Every variable has its type, and a stored bar is under its own key.     *)
TypeOK ==
  /\ clock \in 0 .. MaxTime /\ traded \in 0 .. MaxTraded /\ kills \in 0 .. MaxKills
  /\ pc \in Place
  /\ buffer \in Seq(TickType) /\ heard \in Seq(TickType)
  /\ consecutive \in 0 .. MaxFailures /\ wake \in 0 .. MaxTime + Sleep
  /\ reason \in {"none", "session closed", "failures", "expired"}
  /\ polls \in Seq({"read", "failed", "expired"})
  /\ \A key \in DOMAIN store : store[key] \in BarType
                              /\ key = <<store[key].symbol, store[key].start>>

HeardIn(s, b) ==
  Picked(heard, {i \in DOMAIN heard : /\ heard[i].symbol = s
                                      /\ BucketStart(heard[i].at) = b /\ InSession(heard[i].at)})

HeardBuckets == {BucketStart(heard[i].at) : i \in {j \in DOMAIN heard : InSession(heard[j].at)}}

Stored(s, b) ==
  HeardIn(s, b) # <<>> =>
    <<s, b>> \in DOMAIN store /\ store[<<s, b>>] = BarOf(HeardIn(s, b), b)

(* The instants at which ticks of buckets after b were read.               *)
HeardAfter(b) ==
  {heard[i].at : i \in {j \in DOMAIN heard : InSession(heard[j].at)
                                            /\ b < BucketStart(heard[j].at)}}

(* After each flush every bucket but the newest this run heard of is in    *)
(* the store, as the bar of all its ticks, and a run that ends in order,   *)
(* for whatever reason, has stored the newest too (IntradayRecorder.flush, *)
(* "writing partial data beats failing cleanly").  Between a poll and its  *)
(* flush, and after a kill at any place, it holds for every bucket after   *)
(* which two readings were heard: a kill loses the newest bucket, and the  *)
(* one before it only if the newest was heard once.  What a run started    *)
(* again in the same bucket makes of its bar is another matter.            *)
SettledBucketsStored ==
  \A s \in Symbol : \A b \in HeardBuckets :
    /\ pc \in {"check", "poll", "sleep", "final"} /\ b < Max(HeardBuckets) => Stored(s, b)
    /\ pc = "stopped" => Stored(s, b)
    /\ (\E t, u \in HeardAfter(b) : t # u) => Stored(s, b)

(* No bar has ticks read while the market was shut, though a poll begun in *)
(* the session may end after it (aggregate, session_only).                 *)
BarsInsideSession ==
  \A key \in DOMAIN store : InSession(key[2]) /\ InSession(key[2] + BucketSize - 1)

(* The loop gives up exactly when its last MaxFailures polls all failed;   *)
(* one good poll begins the count again.                                   *)
GivesUpAfterFailuresInARow ==
  pc \notin {"off"} =>
    (reason = "failures" <=>
       Len(polls) = MaxFailures /\ \A k \in DOMAIN polls : polls[k] = "failed")

(* While the loop runs, no bar is written before its bucket has ended: a   *)
(* bar "built from a fraction of its ticks" is not persisted (flush).      *)
OpenBucketNotPersisted ==
  [][pc = "flush" => \A key \in DOMAIN store' :
       (key \notin DOMAIN store \/ store'[key] # store[key]) => key[2] + BucketSize <= clock]_vars

(* A recorder that runs comes to an end, whatever the source does.         *)
EventuallyStops == (pc # "off") ~> (pc \in {"stopped", "off"})
=============================================================================
