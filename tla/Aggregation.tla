---------------------------- MODULE Aggregation -----------------------------
(***************************************************************************)
(* Rolling ticks into bars (data/intraday/aggregator.py).  Time is an      *)
(* integer clock; a bucket is named by its first instant.                  *)
(***************************************************************************)
EXTENDS SessionHours, SequencesExt, Sums

CONSTANTS
  BucketSize,  \* BarInterval.seconds
  NoVolume     \* a tick without a cumulative volume

ASSUME BucketAssumption == BucketSize \in Nat \ {0}

BucketStart(t) == (t \div BucketSize) * BucketSize

(* The ticks that sorting puts before the i-th.                            *)
Earlier(ticks, i) ==
  {j \in DOMAIN ticks : ticks[j].at < ticks[i].at \/ (ticks[j].at = ticks[i].at /\ j < i)}

(* sorted(ticks, key=at), which is stable.                                 *)
Ordered(ticks) ==
  [k \in DOMAIN ticks |->
     ticks[CHOOSE i \in DOMAIN ticks : Cardinality(Earlier(ticks, i)) = k - 1]]

(* _volume_for: the last running total less the first, never negative.     *)
VolumeFor(bucket) ==
  LET known == {k \in DOMAIN bucket : bucket[k].volume # NoVolume} IN
  IF Cardinality(known) < 2 THEN 0
  ELSE Max({0, bucket[Max(known)].volume - bucket[Min(known)].volume})

(* The bar of a bucket: whose it is, is read off the first tick.           *)
BarOf(bucket, start) ==
  LET prices == {bucket[k].price : k \in DOMAIN bucket} IN
  [symbol |-> Head(bucket).symbol, start |-> start,
   open |-> Head(bucket).price, high |-> Max(prices), low |-> Min(prices),
   close |-> Last(bucket).price, volume |-> VolumeFor(bucket), count |-> Len(bucket)]

(* Mutant of Counted: ticks outside the session are bucketed too.          *)
CountedAlways(tick) == TRUE

(* session_only: what is read out of hours is a stale screen value.        *)
Counted(tick) == IsOpen(tick.at)

Closed(state) ==
  IF state.bucket = <<>> THEN state.bars
  ELSE Append(state.bars, BarOf(state.bucket, BucketStart(state.bucket[1].at)))

(* Mutant of Rolled: a bucket once closed is not emptied.                  *)
RolledUnreset(state, tick) ==
  IF state.bucket # <<>> /\ BucketStart(state.bucket[1].at) # BucketStart(tick.at)
  THEN [bars |-> Closed(state), bucket |-> Append(state.bucket, tick)]
  ELSE [state EXCEPT !.bucket = Append(@, tick)]

(* The body of the loop: a tick of another bucket closes the current one.  *)
Rolled(state, tick) ==
  IF state.bucket # <<>> /\ BucketStart(state.bucket[1].at) # BucketStart(tick.at)
  THEN [bars |-> Closed(state), bucket |-> <<tick>>]
  ELSE [state EXCEPT !.bucket = Append(@, tick)]

(* The loop of aggregate over the ticks that count, in order of time.      *)
Roll(counted) ==
  LET upto[n \in 0 .. Len(counted)] ==
        IF n = 0 THEN [bars |-> <<>>, bucket |-> <<>>] ELSE Rolled(upto[n - 1], counted[n])
  IN  upto[Len(counted)]

InHours(ticks) == Picked(ticks, {i \in DOMAIN ticks : Counted(ticks[i])})

(* aggregate(ticks, interval): the bars, ascending.                        *)
Aggregate(ticks) == Closed(Roll(InHours(Ordered(ticks))))

MergeKey(bar) == <<bar.symbol, bar.start>>

Keys(bars) == {MergeKey(bar) : bar \in ToSet(bars)}

(* The bars in order of time.                                              *)
InTime(bars) ==
  CHOOSE seq \in [1 .. Cardinality(bars) -> bars] :
    ToSet(seq) = bars /\ \A i, j \in DOMAIN seq : i < j => seq[i].start <= seq[j].start

(* Mutant of MergeBars: the older bar of a bucket is kept.                 *)
MergeBarsKept(existing, incoming) ==
  InTime(ToSet(existing) \cup {b \in ToSet(incoming) : MergeKey(b) \notin Keys(existing)})

(* merge_bars: two passes over one symbol, the later one winning.          *)
MergeBars(existing, incoming) ==
  InTime(ToSet(incoming) \cup {b \in ToSet(existing) : MergeKey(b) \notin Keys(incoming)})
=============================================================================
