--------------------------- MODULE RecorderProofs ---------------------------
(***************************************************************************)
(* The recorder for every number of symbols, length of bucket, session and *)
(* limit on failures.                                                      *)
(***************************************************************************)
EXTENDS Recorder, AggregationProofs

LEMMA TicksAreTimed == Timed(TickType)
BY DEF Timed, TickType

LEMMA TicksAreTicks == TickType \in SUBSET TickOf(Symbol, Price)
<1>1. 0 .. MaxTraded \subseteq Nat
  BY RecorderConstants
<1> QED BY <1>1 DEF TickType, TickOf

(* The ticks of a session, as a poll of the run sees them.                 *)
Open    == InSessionOf(TickType)
In(b)   == OfBucket(TickType, b)

(* What aggregate makes of ticks, with the types of the store.             *)
LEMMA BarsOf ==
  ASSUME NEW ticks \in Seq(TickType)
  PROVE  /\ Aggregate(ticks) \in Seq(BarType)
         /\ AreBars(TickType, Only(Ordered(ticks), Open), Aggregate(ticks))
<1>1. /\ Aggregate(ticks) \in Seq(BarFrom(TickType))
      /\ AreBars(TickType, Only(Ordered(ticks), Open), Aggregate(ticks))
  BY TicksAreTimed, AggregateIs DEF Open
<1>2. PICK c \in Seq(TickType) : c = Only(Ordered(ticks), Open)
  <2>1. Ordered(ticks) \in Seq(TickType)
    BY TicksAreTimed, OrderedOrders
  <2>2. Only(Ordered(ticks), Open) \in Seq(TickType \cap Open)
    BY <2>1, OnlyType
  <2> QED BY <2>2
<1>3. PICK bars \in Seq(BarFrom(TickType)) : bars = Aggregate(ticks)
  BY <1>1
<1>4. ASSUME NEW k \in DOMAIN bars PROVE bars[k] \in BarType
  <2>1. PICK i \in DOMAIN c : BucketStart(c[i].at) = bars[k].start
    BY <1>1, <1>2, <1>3 DEF AreBars
  <2>2. c[i] \in In(bars[k].start) /\ bars[k].start \in Nat
    <3>1. c[i] \in TickType
      OBVIOUS
    <3>2. c[i].at \in Nat
      BY <3>1, TicksAreTimed DEF Timed
    <3> QED BY <2>1, <3>1, <3>2, BucketFacts DEF In, OfBucket
  <2>3. PICK q \in Seq(TickType) : q = Only(c, In(bars[k].start))
    <3>1. Only(c, In(bars[k].start)) \in Seq(TickType \cap In(bars[k].start))
      BY OnlyType
    <3> QED BY <3>1
  <2>4. q # <<>>
    BY <2>2, <2>3, OnlyNone
  <2>5. Price \in SUBSET Int
    BY RecorderConstants
  <2>6. BarOf(q, bars[k].start) \in BarIs(Symbol, Price)
    BY <2>2, <2>4, <2>5, TicksAreTicks, BarHasType
  <2>7. bars[k] = BarOf(q, bars[k].start)
    BY <1>1, <1>2, <1>3, <2>3 DEF AreBars, In
  <2> QED BY <2>6, <2>7 DEF BarIs, BarType
<1>5. bars \in Seq(BarType)
  <2>1. PICK n \in Nat : n = Len(bars) /\ DOMAIN bars = 1 .. n
    OBVIOUS
  <2>2. bars = [k \in 1 .. n |-> bars[k]]
    BY <2>1
  <2>3. \A k \in 1 .. n : bars[k] \in BarType
    BY <1>4, <2>1
  <2>4. [k \in 1 .. n |-> bars[k]] \in Seq(BarType)
    BY <2>3
  <2> QED BY <2>2, <2>4
<1> QED BY <1>1, <1>3, <1>5

----------------------------------------------------------------------------
(* insert or replace: bars of different keys, and the rest as it was.      *)
LEMMA UpsertedIs ==
  ASSUME NEW A, NEW bars \in Seq(A),
         \A k, l \in DOMAIN bars : Key(bars[k]) = Key(bars[l]) => bars[k] = bars[l]
  PROVE  /\ DOMAIN Upserted(bars) = {Key(bars[k]) : k \in DOMAIN bars} \cup DOMAIN store
         /\ \A k \in DOMAIN bars : Upserted(bars)[Key(bars[k])] = bars[k]
         /\ \A key \in DOMAIN store :
              (\A k \in DOMAIN bars : key # Key(bars[k])) => Upserted(bars)[key] = store[key]
<1> DEFINE keys == {Key(bars[k]) : k \in DOMAIN bars}
<1>1. Upserted(bars) = [key \in keys \cup DOMAIN store |->
        IF key \in keys THEN (CHOOSE bar \in ToSet(bars) : Key(bar) = key) ELSE store[key]]
  BY DEF Upserted
<1>2. ASSUME NEW k \in DOMAIN bars
      PROVE  (CHOOSE bar \in ToSet(bars) : Key(bar) = Key(bars[k])) = bars[k]
  <2>1. bars[k] \in ToSet(bars)
    BY DEF ToSet
  <2>2. \A bar \in ToSet(bars) : Key(bar) = Key(bars[k]) => bar = bars[k]
    BY DEF ToSet
  <2> QED BY <2>1, <2>2
<1>3. \A k \in DOMAIN bars : Upserted(bars)[Key(bars[k])] = bars[k]
  BY <1>1, <1>2
<1>4. DOMAIN Upserted(bars) = keys \cup DOMAIN store
  BY <1>1
<1>5. \A key \in DOMAIN store : key \notin keys => Upserted(bars)[key] = store[key]
  BY <1>1
<1> QED BY <1>3, <1>4, <1>5

(* The bars of aggregate differ in their starts.                           *)
LEMMA StartsTell ==
  ASSUME NEW c, NEW bars \in Seq(BarType), AreBars(TickType, c, bars)
  PROVE  \A k, l \in DOMAIN bars : Key(bars[k]) = Key(bars[l]) => k = l
<1>1. ASSUME NEW k \in DOMAIN bars, NEW l \in DOMAIN bars, Key(bars[k]) = Key(bars[l]), k # l
      PROVE  FALSE
  <2>1. bars[k].start = bars[l].start
    BY <1>1 DEF Key
  <2>2. k < l \/ l < k
    BY <1>1
  <2>3. bars[k].start < bars[l].start \/ bars[l].start < bars[k].start
    BY <2>2 DEF AreBars
  <2>4. bars[k].start \in Nat
    <3>1. bars[k] \in BarType
      OBVIOUS
    <3> QED BY <3>1 DEF BarType
  <2> QED BY <2>1, <2>3, <2>4
<1> QED BY <1>1

(* A store of bars, each under its own key.                                *)
GoodStore(s) == \A key \in DOMAIN s : s[key] \in BarType /\ key = <<s[key].symbol, s[key].start>>

LEMMA UpsertedKeeps ==
  ASSUME NEW bars \in Seq(BarType), GoodStore(store),
         \A k, l \in DOMAIN bars : Key(bars[k]) = Key(bars[l]) => bars[k] = bars[l]
  PROVE  GoodStore(Upserted(bars))
<1>1. PICK U : U = Upserted(bars)
  OBVIOUS
<1>2. /\ DOMAIN U = {Key(bars[k]) : k \in DOMAIN bars} \cup DOMAIN store
      /\ \A k \in DOMAIN bars : U[Key(bars[k])] = bars[k]
      /\ \A key \in DOMAIN store :
           (\A k \in DOMAIN bars : key # Key(bars[k])) => U[key] = store[key]
  BY <1>1, UpsertedIs
<1>3. ASSUME NEW key \in DOMAIN U
      PROVE  U[key] \in BarType /\ key = <<U[key].symbol, U[key].start>>
  <2>1. CASE \E k \in DOMAIN bars : key = Key(bars[k])
    <3>1. PICK k \in DOMAIN bars : key = Key(bars[k])
      BY <2>1
    <3>2. U[key] = bars[k] /\ bars[k] \in BarType
      BY <1>2, <3>1
    <3> QED BY <3>1, <3>2 DEF Key
  <2>2. CASE \A k \in DOMAIN bars : key # Key(bars[k])
    <3>1. key \in DOMAIN store /\ U[key] = store[key]
      BY <1>2, <2>2
    <3> QED BY <3>1 DEF GoodStore
  <2> QED BY <2>1, <2>2
<1> QED BY <1>1, <1>3 DEF GoodStore

----------------------------------------------------------------------------
(* A reading: ticks of this instant.                                       *)
LEMMA ReadingIs ==
  ASSUME TypeOK, NEW S \in SUBSET Symbol, NEW price \in [S -> Price]
  PROVE  \E ticks \in Seq(TickType) : /\ ticks = SetToSeq({Tick(s, price[s]) : s \in S})
                                      /\ \A i \in DOMAIN ticks : ticks[i].at = clock
<1> DEFINE R == {Tick(s, price[s]) : s \in S}
           f == [s \in S |-> Tick(s, price[s])]
<1>1. IsFiniteSet(S)
  BY RecorderConstants, FS_Subset
<1>2. f \in Surjection(S, R)
  <2>1. f \in [S -> R] /\ \A x \in R : \E s \in S : f[s] = x
    OBVIOUS
  <2> HIDE DEF f, R
  <2> QED BY <2>1 DEF Surjection
<1>3. IsFiniteSet(R)
  <2> HIDE DEF f, R
  <2> QED BY <1>1, <1>2, FS_Surjection
<1>4. \A x \in R : x \in TickType /\ x.at = clock
  <2>1. clock \in Nat /\ traded \in 0 .. MaxTraded
    <3>1. clock \in 0 .. MaxTime /\ traded \in 0 .. MaxTraded
      BY DEF TypeOK
    <3> QED BY <3>1, RecorderConstants
  <2>2. ASSUME NEW s \in S PROVE Tick(s, price[s]) \in TickType /\ Tick(s, price[s]).at = clock
    <3>1. s \in Symbol /\ price[s] \in Price
      OBVIOUS
    <3> QED BY <2>1, <3>1 DEF Tick, TickType
  <2> QED BY <2>2
<1>5. PICK n \in Nat : n = Cardinality(R) /\ SetToSeq(R) \in [1 .. n -> R]
  <2> HIDE DEF R
  <2> QED BY <1>3, SetToSeqFacts
<1>6. PICK ticks : ticks = SetToSeq(R)
  OBVIOUS
<1> HIDE DEF R
<1>7. ticks \in Seq(TickType) /\ \A i \in DOMAIN ticks : ticks[i].at = clock
  BY <1>4, <1>5, <1>6
<1> QED BY <1>6, <1>7 DEF R

(* The window of the last MaxFailures polls moves by one.                  *)
Outcome == {"read", "failed", "expired"}

IsMoved(w, L, d, o) ==
  /\ Len(w) = L /\ L \in 1 .. MaxFailures
  /\ Len(polls) = L - 1 + d /\ (d = 1 => L = MaxFailures)
  /\ w[L] = o /\ \A k \in 1 .. L - 1 : w[k] = polls[k + d]

LEMMA WindowMoves ==
  ASSUME NEW o \in Outcome, polls \in Seq(Outcome), Len(polls) <= MaxFailures, Polled(o)
  PROVE  /\ polls' \in Seq(Outcome) /\ Len(polls') <= MaxFailures
         /\ \E L \in Nat, d \in {0, 1} : IsMoved(polls', L, d, o)
<1>1. PICK n \in Nat : n = Len(polls) /\ DOMAIN polls = 1 .. n
  OBVIOUS
<1>2. PICK all : all = Append(polls, o)
  OBVIOUS
<1>3. /\ all \in Seq(Outcome) /\ Len(all) = n + 1 /\ all[n + 1] = o
      /\ \A k \in 1 .. n : all[k] = polls[k]
  BY <1>1, <1>2
<1>4. MaxFailures \in Nat \ {0} /\ n <= MaxFailures
  BY <1>1, RecorderConstants
<1>5. PICK m \in Nat : m = Max({1, Len(all) - MaxFailures + 1})
                      /\ m = IF n = MaxFailures THEN 2 ELSE 1
  <2>1. PICK x \in Int : x = Len(all) - MaxFailures + 1
    BY <1>3, <1>4
  <2>2. Max({1, x}) = IF 1 <= x THEN x ELSE 1
    BY MaxOfTwo
  <2> QED BY <1>3, <1>4, <2>1, <2>2
<1>6. polls' = SubSeq(all, m, n + 1)
  BY <1>2, <1>3, <1>5 DEF Polled
<1>7. PICK d \in {0, 1}, L \in Nat : d = m - 1 /\ L = n + 1 - d
  <2>1. CASE n = MaxFailures
    <3>1. 1 \in {0, 1} /\ n \in Nat /\ 1 = m - 1 /\ n = n + 1 - 1
      BY <1>5, <2>1
    <3> QED BY <3>1
  <2>2. CASE n # MaxFailures
    <3>1. 0 \in {0, 1} /\ n + 1 \in Nat /\ 0 = m - 1 /\ n + 1 = n + 1 - 0
      BY <1>5, <2>2
    <3> QED BY <3>1
  <2> QED BY <2>1, <2>2
<1>8. L \in 1 .. MaxFailures /\ n = L - 1 + d /\ (d = 1 => L = MaxFailures)
  BY <1>4, <1>5, <1>7
<1>9. PICK w : w = SubSeq(all, d + 1, n + 1)
  OBVIOUS
<1>10. /\ w \in Seq(Outcome) /\ Len(w) = L
       /\ \A k \in 1 .. L : w[k] = all[k + d]
  <2>1. \A k \in d + 1 .. n + 1 : all[k] \in Outcome
    BY <1>3, <1>7
  <2>2. d + 1 \in Int /\ n + 1 \in Int /\ d + 1 <= n + 1 /\ (n + 1) - (d + 1) + 1 = L
    BY <1>7, <1>8
  <2>3. /\ w \in Seq(Outcome) /\ Len(w) = L
        /\ \A k \in 1 .. L : w[k] = all[d + 1 + k - 1]
    BY <1>9, <2>1, <2>2, SubSeqProperties
  <2>4. \A k \in 1 .. L : d + 1 + k - 1 = k + d
    OBVIOUS
  <2> QED BY <2>3, <2>4
<1>11. polls' = w
  BY <1>5, <1>6, <1>7, <1>9
<1>12. w[L] = o /\ \A k \in 1 .. L - 1 : w[k] = polls[k + d]
  <2>1. L \in 1 .. L /\ L + d = n + 1
    BY <1>8
  <2>2. \A k \in 1 .. L - 1 : k \in 1 .. L /\ k + d \in 1 .. n
    BY <1>8
  <2> QED BY <1>3, <1>10, <2>1, <2>2
<1>13. IsMoved(w, L, d, o)
  BY <1>1, <1>8, <1>10, <1>12 DEF IsMoved
<1>14. L <= MaxFailures
  BY <1>8
<1> QED BY <1>10, <1>11, <1>13, <1>14

----------------------------------------------------------------------------
(* The types, that the window stays one, and that the loop goes on only    *)
(* below the limit.                                                        *)
Going == {"check", "poll", "flush", "sleep"}

RecorderTypes ==
  /\ TypeOK
  /\ Len(polls) <= MaxFailures
  /\ pc \in Going => consecutive < MaxFailures

LEMMA GoneKeeps ==
  ASSUME TypeOK, Gone, kills' \in 0 .. MaxKills
  PROVE  RecorderTypes'
<1>1. <<>> \in Seq(TickType) /\ <<>> \in Seq(Outcome) /\ Len(<<>>) = 0
  OBVIOUS
<1>2. /\ pc' = "off" /\ buffer' = <<>> /\ consecutive' = 0 /\ wake' = 0 /\ reason' = "none"
      /\ heard' = heard /\ polls' = <<>> /\ clock' = clock /\ traded' = traded /\ store' = store
  BY DEF Gone
<1>3. 0 \in 0 .. MaxFailures /\ 0 \in 0 .. MaxTime + Sleep /\ 0 <= MaxFailures
  BY RecorderConstants
<1> QED BY <1>1, <1>2, <1>3 DEF TypeOK, RecorderTypes, Place, Outcome, Going

LEMMA BufferBars ==
  ASSUME TypeOK
  PROVE  \E bars \in Seq(BarType), c \in Seq(TickType) :
           /\ bars = Aggregate(buffer) /\ c = Only(Ordered(buffer), Open)
           /\ AreBars(TickType, c, bars)
           /\ \A k, l \in DOMAIN bars : Key(bars[k]) = Key(bars[l]) => k = l
<1>1. buffer \in Seq(TickType)
  BY DEF TypeOK
<1>2. PICK bars, c : bars \in Seq(BarType) /\ bars = Aggregate(buffer) /\ c = Only(Ordered(buffer), Open)
  BY <1>1, BarsOf
<1>3. AreBars(TickType, c, bars)
  BY <1>1, <1>2, BarsOf
<1>4. c \in Seq(TickType)
  <2>1. Ordered(buffer) \in Seq(TickType)
    BY <1>1, TicksAreTimed, OrderedOrders
  <2>2. c \in Seq(TickType \cap Open)
    BY <1>2, <2>1, OnlyType
  <2> QED BY <2>2
<1>5. \A k, l \in DOMAIN bars : Key(bars[k]) = Key(bars[l]) => k = l
  <2>1. bars \in Seq(BarType)
    BY <1>2
  <2> QED BY <1>3, <2>1, StartsTell
<1> QED BY <1>2, <1>3, <1>4, <1>5

(* All bars but the last.                                                  *)
LEMMA FrontIs ==
  ASSUME NEW A, NEW bars \in Seq(A), bars # <<>>
  PROVE  \E n \in Nat, front \in Seq(A) :
           /\ front = SettledBars(bars) /\ DOMAIN bars = 1 .. n + 1 /\ DOMAIN front = 1 .. n
           /\ \A k \in 1 .. n : front[k] = bars[k]
           /\ Last(bars) = bars[n + 1]
<1>1. PICK N \in Nat : N = Len(bars) /\ DOMAIN bars = 1 .. N
  OBVIOUS
<1>2. N # 0
  BY <1>1
<1>3. PICK n \in Nat : N = n + 1
  <2>1. N - 1 \in Nat /\ N = (N - 1) + 1
    BY <1>1, <1>2
  <2> QED BY <2>1
<1>4. PICK front : front = SubSeq(bars, 1, n)
  OBVIOUS
<1>5. front \in Seq(A) /\ Len(front) = n /\ \A k \in 1 .. n : front[k] = bars[k]
  BY <1>1, <1>3, <1>4
<1>6. front = SettledBars(bars) /\ Last(bars) = bars[n + 1]
  BY <1>1, <1>3, <1>4 DEF SettledBars, Front, Last
<1> QED BY <1>1, <1>3, <1>5, <1>6

(* What a flush keeps.                                                     *)
From(b) == {t \in TickType : t.at >= b}

LEMMA KeptIs ==
  ASSUME buffer \in Seq(TickType), NEW bars
  PROVE  Kept(bars) = Only(buffer, From(Last(bars).start))
<1>1. \A i \in DOMAIN buffer : buffer[i] \in TickType
  OBVIOUS
<1>2. {i \in DOMAIN buffer : buffer[i].at >= Last(bars).start}
        = {i \in DOMAIN buffer : buffer[i] \in From(Last(bars).start)}
  BY <1>1 DEF From
<1> QED BY <1>2 DEF Kept, Only

LEMMA InitTypes == Init => RecorderTypes
<1> SUFFICES ASSUME Init PROVE RecorderTypes
  OBVIOUS
<1>1. <<>> \in Seq(TickType) /\ <<>> \in Seq(Outcome) /\ Len(<<>>) = 0 /\ DOMAIN << >> = {}
  OBVIOUS
<1>2. /\ 0 \in 0 .. MaxFailures /\ 0 \in 0 .. MaxTime + Sleep /\ 0 <= MaxFailures
      /\ SessionStart \in 0 .. MaxTime /\ 0 \in 0 .. MaxTraded /\ 0 \in 0 .. MaxKills
  BY RecorderConstants
<1>3. \A key \in DOMAIN store : store[key] \in BarType
                              /\ key = <<store[key].symbol, store[key].start>>
  BY <1>1 DEF Init
<1> QED BY <1>1, <1>2, <1>3 DEF Init, TypeOK, RecorderTypes, Place, Outcome, Going

LEMMA FlushTypes ==
  ASSUME TypeOK, Flush \/ FinalFlush
  PROVE  buffer' \in Seq(TickType) /\ GoodStore(store')
<1>1. PICK bars \in Seq(BarType) :
        /\ bars = Aggregate(buffer)
        /\ \A k, l \in DOMAIN bars : Key(bars[k]) = Key(bars[l]) => k = l
  BY BufferBars
<1>2. GoodStore(store) /\ buffer \in Seq(TickType)
  BY DEF TypeOK, GoodStore
<1>6. Kept(bars) \in Seq(TickType)
  <2>1. Kept(bars) = Only(buffer, From(Last(bars).start))
    BY <1>2, KeptIs
  <2>2. Only(buffer, From(Last(bars).start)) \in Seq(TickType \cap From(Last(bars).start))
    BY <1>2, OnlyType
  <2> QED BY <2>1, <2>2
<1>3. CASE FinalFlush
  <2>1. store' = Upserted(bars) /\ buffer' = <<>>
    BY <1>1, <1>3 DEF FinalFlush
  <2>2. \A k, l \in DOMAIN bars : Key(bars[k]) = Key(bars[l]) => bars[k] = bars[l]
    BY <1>1
  <2>3. GoodStore(Upserted(bars))
    BY <1>2, <2>2, UpsertedKeeps
  <2> QED BY <2>1, <2>3
<1>4. CASE Flush /\ UNCHANGED store
  <2>1. buffer' = <<>> \/ buffer' = buffer \/ buffer' = Kept(bars)
    BY <1>1, <1>4 DEF Flush, FlushSettled
  <2>2. buffer' \in Seq(TickType)
    <3>1. <<>> \in Seq(TickType)
      OBVIOUS
    <3> QED BY <1>2, <1>6, <2>1, <3>1
  <2>3. store' = store
    BY <1>4
  <2> QED BY <1>2, <2>2, <2>3, Zenon
<1>5. CASE Flush /\ ~ UNCHANGED store
  <2>1. bars # <<>> /\ buffer' = Kept(bars) /\ store' = Upserted(SettledBars(bars))
    BY <1>1, <1>5 DEF Flush, FlushSettled
  <2>3. PICK n \in Nat, front \in Seq(BarType) :
          /\ front = SettledBars(bars) /\ DOMAIN bars = 1 .. n + 1 /\ DOMAIN front = 1 .. n
          /\ \A k \in 1 .. n : front[k] = bars[k]
    BY <2>1, FrontIs
  <2>4. \A k, l \in DOMAIN front : Key(front[k]) = Key(front[l]) => front[k] = front[l]
    BY <1>1, <2>3
  <2>5. GoodStore(Upserted(front))
    BY <1>2, <2>4, UpsertedKeeps
  <2> QED BY <1>6, <2>1, <2>3, <2>5
<1> QED BY <1>3, <1>4, <1>5

LEMMA TypesKeep == RecorderTypes /\ [Next]_vars => RecorderTypes'
<1> SUFFICES ASSUME RecorderTypes, [Next]_vars PROVE RecorderTypes'
  OBVIOUS
<1>0. TypeOK
  BY DEF RecorderTypes
<1>n. /\ clock \in 0 .. MaxTime /\ traded \in 0 .. MaxTraded /\ kills \in 0 .. MaxKills
      /\ consecutive \in 0 .. MaxFailures /\ wake \in 0 .. MaxTime + Sleep
      /\ pc \in Going => consecutive < MaxFailures
  BY DEF RecorderTypes, TypeOK
<1>1. /\ clock \in 0 .. MaxTime /\ traded \in 0 .. MaxTraded /\ kills \in 0 .. MaxKills
      /\ pc \in Place
      /\ buffer \in Seq(TickType) /\ heard \in Seq(TickType)
      /\ consecutive \in 0 .. MaxFailures /\ wake \in 0 .. MaxTime + Sleep
      /\ reason \in {"none", "session closed", "failures", "expired"}
      /\ polls \in Seq(Outcome) /\ Len(polls) <= MaxFailures
      /\ GoodStore(store)
      /\ pc \in Going => consecutive < MaxFailures
  BY DEF RecorderTypes, TypeOK, GoodStore, Outcome
<1>2. /\ 0 \in 0 .. MaxFailures /\ 0 \in 0 .. MaxTime + Sleep /\ 0 <= MaxFailures
      /\ MaxTime \in Nat /\ Sleep \in Nat /\ MaxTraded \in Nat /\ MaxKills \in Nat
      /\ MaxFailures \in Nat \ {0}
  BY RecorderConstants
<1>3. <<>> \in Seq(TickType) /\ <<>> \in Seq(Outcome) /\ Len(<<>>) = 0
  OBVIOUS
<1>4. SUFFICES
      /\ clock' \in 0 .. MaxTime /\ traded' \in 0 .. MaxTraded /\ kills' \in 0 .. MaxKills
      /\ pc' \in Place
      /\ buffer' \in Seq(TickType) /\ heard' \in Seq(TickType)
      /\ consecutive' \in 0 .. MaxFailures /\ wake' \in 0 .. MaxTime + Sleep
      /\ reason' \in {"none", "session closed", "failures", "expired"}
      /\ polls' \in Seq(Outcome) /\ Len(polls') <= MaxFailures
      /\ GoodStore(store')
      /\ pc' \in Going => consecutive' < MaxFailures
  BY DEF RecorderTypes, TypeOK, GoodStore, Outcome
<1>5. CASE Start
  <2>1. consecutive' = 0 /\ consecutive' < MaxFailures
    BY <1>2, <1>5 DEF Start
  <2>2. /\ pc' = "check" /\ buffer' = <<>> /\ reason' = "none" /\ heard' = <<>> /\ polls' = <<>>
        /\ UNCHANGED <<clock, traded, store, kills, wake>>
    BY <1>5 DEF Start
  <2> QED BY <1>1, <1>2, <1>3, <2>1, <2>2 DEF Place
<1>6. CASE Check
  BY <1>1, <1>6 DEF Check, Place, Going
<1>7. CASE Poll
  <2>1. PICK S \in SUBSET Symbol : \E price \in [S -> Price] :
          LET ticks == SetToSeq({Tick(s, price[s]) : s \in S}) IN
          /\ buffer' = buffer \o ticks /\ heard' = heard \o ticks
          /\ Recovered /\ Polled("read")
          /\ pc' = "flush"
          /\ UNCHANGED <<clock, traded, store, kills, wake, reason>>
    BY <1>7 DEF Poll
  <2>6. PICK price \in [S -> Price] :
          LET ticks == SetToSeq({Tick(s, price[s]) : s \in S}) IN
          /\ buffer' = buffer \o ticks /\ heard' = heard \o ticks
          /\ Recovered /\ Polled("read")
          /\ pc' = "flush"
          /\ UNCHANGED <<clock, traded, store, kills, wake, reason>>
    BY <2>1
  <2>2. PICK ticks \in Seq(TickType) : ticks = SetToSeq({Tick(s, price[s]) : s \in S})
    BY <1>0, ReadingIs
  <2>3. buffer' \in Seq(TickType) /\ heard' \in Seq(TickType)
    <3>1. buffer' = buffer \o ticks /\ heard' = heard \o ticks
      BY <2>6, <2>2
    <3>2. buffer \in Seq(TickType) /\ heard \in Seq(TickType)
      BY <1>1
    <3> QED BY <3>1, <3>2
  <2>4. polls' \in Seq(Outcome) /\ Len(polls') <= MaxFailures
    <3>1. "read" \in Outcome
      BY DEF Outcome
    <3> QED BY <1>1, <2>6, <3>1, WindowMoves
  <2>5. /\ consecutive' = 0 /\ pc' = "flush" /\ clock' = clock /\ traded' = traded
        /\ store' = store /\ kills' = kills /\ wake' = wake /\ reason' = reason
    BY <2>6 DEF Recovered
  <2>7. consecutive' < MaxFailures
    BY <1>2, <2>5
  <2> QED BY <1>1, <1>2, <2>3, <2>4, <2>5, <2>7 DEF Place
<1>8. CASE PollFails
  <2>1. polls' \in Seq(Outcome) /\ Len(polls') <= MaxFailures
    <3>1. "failed" \in Outcome /\ Polled("failed")
      BY <1>8 DEF Outcome, PollFails
    <3> QED BY <1>1, <3>1, WindowMoves
  <2>2. consecutive' \in 0 .. MaxFailures /\ (pc' \in Going => consecutive' < MaxFailures)
    BY <1>n, <1>2, <1>8 DEF PollFails, Going
  <2> QED BY <1>1, <1>8, <2>1, <2>2 DEF PollFails, Place, Going
<1>9. CASE PollExpires
  <2>1. polls' \in Seq(Outcome) /\ Len(polls') <= MaxFailures
    <3>1. "expired" \in Outcome /\ Polled("expired")
      BY <1>9 DEF Outcome, PollExpires
    <3> QED BY <1>1, <3>1, WindowMoves
  <2> QED BY <1>1, <1>2, <1>9, <2>1 DEF PollExpires, Place, Going
<1>10. CASE Flush
  <2>1. buffer' \in Seq(TickType) /\ GoodStore(store')
    BY <1>0, <1>10, FlushTypes
  <2>2. /\ pc' = "sleep" /\ wake' = clock + Sleep
        /\ UNCHANGED <<clock, traded, kills, consecutive, reason, heard, polls>>
    BY <1>10 DEF Flush
  <2>3. wake' \in 0 .. MaxTime + Sleep
    BY <1>n, <1>2, <2>2
  <2>4. consecutive' < MaxFailures
    <3>1. pc = "flush"
      BY <1>10 DEF Flush
    <3> QED BY <1>n, <2>2, <3>1 DEF Going
  <2> QED BY <1>1, <2>1, <2>2, <2>3, <2>4 DEF Place
<1>11. CASE WakeUp
  BY <1>1, <1>11 DEF WakeUp, Place, Going
<1>12. CASE FinalFlush
  <2>1. buffer' \in Seq(TickType) /\ GoodStore(store')
    BY <1>0, <1>12, FlushTypes
  <2>2. /\ pc' = "stopped"
        /\ UNCHANGED <<clock, traded, kills, consecutive, wake, reason, heard, polls>>
    BY <1>12 DEF FinalFlush
  <2> QED BY <1>1, <2>1, <2>2 DEF Place, Going
<1>13. CASE Exit \/ Kill
  <2>1. kills' \in 0 .. MaxKills /\ Gone
    BY <1>n, <1>2, <1>13 DEF Exit, Kill
  <2>2. RecorderTypes'
    BY <1>0, <2>1, GoneKeeps
  <2> QED BY <2>2 DEF RecorderTypes, TypeOK, GoodStore, Outcome
<1>14. CASE Trade
  <2>1. traded' \in 0 .. MaxTraded
    BY <1>n, <1>2, <1>14 DEF Trade
  <2> QED BY <1>1, <1>14, <2>1 DEF Trade, loopVars
<1>15. CASE Pass
  <2>1. clock' \in 0 .. MaxTime
    BY <1>n, <1>2, <1>15 DEF Pass
  <2> QED BY <1>1, <1>15, <2>1 DEF Pass, loopVars
<1>16. CASE UNCHANGED vars
  BY <1>1, <1>16 DEF vars, loopVars
<1> QED BY <1>5, <1>6, <1>7, <1>8, <1>9, <1>10, <1>11, <1>12, <1>13, <1>14, <1>15, <1>16
        DEF Next, Loop

THEOREM TypesHold == Spec => []RecorderTypes
<1> QED BY InitTypes, TypesKeep, PTL DEF Spec

(* Every variable of the recorder has its type, and a stored bar is under  *)
(* its own key: what aggregate makes of any ticks are bars.                *)
THEOREM RecorderTypesHold == Spec => []TypeOK
<1>1. RecorderTypes => TypeOK
  BY DEF RecorderTypes
<1> QED BY <1>1, TypesHold, PTL

----------------------------------------------------------------------------
(* consecutive counts the failures at the end of the polls.                *)
Trailing(w, c) ==
  /\ c \in 0 .. Len(w)
  /\ \A k \in Len(w) - c + 1 .. Len(w) : w[k] = "failed"
  /\ c < Len(w) => w[Len(w) - c] # "failed"

AllFailed(w) == Len(w) = MaxFailures /\ \A k \in DOMAIN w : w[k] = "failed"

FailuresCounted ==
  /\ pc \in Going => reason = "none" /\ Trailing(polls, consecutive)
  /\ pc \in {"final", "stopped"} => (reason = "failures" <=> AllFailed(polls))

(* Below the limit they have not all failed.                               *)
LEMMA BelowTheLimit ==
  ASSUME NEW w \in Seq(Outcome), NEW c \in Nat, Trailing(w, c), c < MaxFailures
  PROVE  ~ AllFailed(w)
<1>1. PICK n \in Nat : n = Len(w) /\ DOMAIN w = 1 .. n
  OBVIOUS
<1>2. ASSUME AllFailed(w) PROVE FALSE
  <2>1. n = MaxFailures /\ c < n
    BY <1>1, <1>2 DEF AllFailed
  <2>2. n - c \in 1 .. n
    BY <2>1
  <2>3. w[n - c] # "failed"
    BY <1>1, <2>1 DEF Trailing
  <2> QED BY <1>1, <1>2, <2>2, <2>3 DEF AllFailed
<1> QED BY <1>2

(* One poll more: a failure is one more, anything else ends the series.    *)
LEMMA OneMore ==
  ASSUME NEW w \in Seq(Outcome), NEW L \in Nat, NEW d \in {0, 1}, NEW o \in Outcome,
         polls \in Seq(Outcome), IsMoved(w, L, d, o),
         NEW c \in Nat, Trailing(polls, c), c < MaxFailures
  PROVE  /\ o = "failed" => IF c + 1 < MaxFailures THEN Trailing(w, c + 1) ELSE AllFailed(w)
         /\ o # "failed" => Trailing(w, 0) /\ ~ AllFailed(w)
<1>1. PICK n \in Nat : n = Len(polls) /\ DOMAIN polls = 1 .. n
  OBVIOUS
<1>2. /\ Len(w) = L /\ DOMAIN w = 1 .. L /\ L \in 1 .. MaxFailures
      /\ n = L - 1 + d /\ (d = 1 => L = MaxFailures)
      /\ w[L] = o /\ \A k \in 1 .. L - 1 : w[k] = polls[k + d]
  BY <1>1 DEF IsMoved
<1>3. /\ c \in 0 .. n /\ \A k \in n - c + 1 .. n : polls[k] = "failed"
      /\ c < n => polls[n - c] # "failed"
  BY <1>1 DEF Trailing
<1>4. MaxFailures \in Nat \ {0}
  BY RecorderConstants
<1>5. ASSUME o = "failed", NEW k \in L - c .. L, k >= 1 PROVE w[k] = "failed"
  <2>1. CASE k = L
    BY <1>2, <1>5, <2>1
  <2>2. CASE k # L
    <3>1. k \in 1 .. L - 1 /\ k + d \in n - c + 1 .. n
      BY <1>2, <1>3, <1>5, <2>2
    <3> QED BY <1>2, <1>3, <3>1
  <2> QED BY <2>1, <2>2
<1>6. CASE o = "failed" /\ c + 1 < MaxFailures
  <2>1. c + 1 \in 0 .. L
    BY <1>2, <1>3, <1>4, <1>6
  <2>2. ASSUME NEW k \in L - (c + 1) + 1 .. L PROVE w[k] = "failed"
    <3>1. k \in L - c .. L /\ k >= 1
      BY <2>1
    <3> QED BY <1>5, <1>6, <3>1
  <2>3. ASSUME c + 1 < L PROVE w[L - (c + 1)] # "failed"
    <3>1. L - (c + 1) \in 1 .. L - 1 /\ L - (c + 1) + d = n - c /\ c < n
      BY <1>2, <2>3
    <3> QED BY <1>2, <1>3, <3>1
  <2>4. Trailing(w, c + 1)
    BY <1>2, <2>1, <2>2, <2>3 DEF Trailing
  <2> QED BY <1>6, <2>4
<1>7. CASE o = "failed" /\ ~ (c + 1 < MaxFailures)
  <2>1. c + 1 = MaxFailures /\ L = MaxFailures
    BY <1>2, <1>3, <1>4, <1>7
  <2>2. ASSUME NEW k \in 1 .. L PROVE w[k] = "failed"
    <3>1. k \in L - c .. L /\ k >= 1
      BY <2>1
    <3> QED BY <1>5, <1>7, <3>1
  <2>3. AllFailed(w)
    BY <1>2, <2>1, <2>2 DEF AllFailed
  <2> QED BY <1>7, <2>3
<1>8. CASE o # "failed"
  <2>1. 0 \in 0 .. L /\ L \in 1 .. L /\ L - 0 = L
    BY <1>2
  <2>2. \A k \in L - 0 + 1 .. L : w[k] = "failed"
    BY <1>2
  <2>3. Trailing(w, 0)
    BY <1>2, <1>8, <2>1, <2>2 DEF Trailing
  <2>4. ~ AllFailed(w)
    BY <1>2, <1>8, <2>1 DEF AllFailed
  <2> QED BY <1>8, <2>3, <2>4
<1> QED BY <1>6, <1>7, <1>8

LEMMA FailuresKeep == RecorderTypes /\ FailuresCounted /\ [Next]_vars => FailuresCounted'
<1> SUFFICES ASSUME RecorderTypes, FailuresCounted, [Next]_vars PROVE FailuresCounted'
  OBVIOUS
<1>1. /\ polls \in Seq(Outcome) /\ Len(polls) <= MaxFailures
      /\ consecutive \in Nat /\ (pc \in Going => consecutive < MaxFailures)
  <2>1. consecutive \in 0 .. MaxFailures /\ polls \in Seq(Outcome)
    BY DEF RecorderTypes, TypeOK, Outcome
  <2>2. Len(polls) <= MaxFailures /\ (pc \in Going => consecutive < MaxFailures)
    BY DEF RecorderTypes
  <2> QED BY <2>1, <2>2, RecorderConstants
<1>2. /\ pc \in Going => /\ reason = "none" /\ Trailing(polls, consecutive)
                         /\ ~ AllFailed(polls)
      /\ pc \in {"final", "stopped"} => (reason = "failures" <=> AllFailed(polls))
  BY <1>1, BelowTheLimit DEF FailuresCounted
<1>3. CASE Start
  <2>1. <<>> \in Seq(Outcome) /\ Len(<<>>) = 0
    OBVIOUS
  <2>2. Trailing(<<>>, 0)
    BY <2>1 DEF Trailing
  <2>3. pc' = "check" /\ reason' = "none" /\ consecutive' = 0 /\ polls' = <<>>
    BY <1>3 DEF Start
  <2> QED BY <2>2, <2>3 DEF FailuresCounted
<1>4. CASE Check
  <2>1. /\ pc = "check" /\ polls' = polls /\ consecutive' = consecutive
        /\ \/ pc' = "poll" /\ reason' = reason
           \/ pc' = "final" /\ reason' = "session closed"
    BY <1>4 DEF Check
  <2> QED BY <1>2, <2>1 DEF FailuresCounted, Going
<1>5. ASSUME NEW o \in Outcome, Polled(o), pc = "poll"
      PROVE  /\ o = "failed" => IF consecutive + 1 < MaxFailures
                                THEN Trailing(polls', consecutive + 1) ELSE AllFailed(polls')
             /\ o # "failed" => Trailing(polls', 0) /\ ~ AllFailed(polls')
  <2>1. Trailing(polls, consecutive) /\ consecutive < MaxFailures
    BY <1>1, <1>2, <1>5 DEF Going
  <2>2. PICK L \in Nat, d \in {0, 1} : IsMoved(polls', L, d, o)
    BY <1>1, <1>5, WindowMoves
  <2>3. polls' \in Seq(Outcome)
    BY <1>1, <1>5, WindowMoves
  <2> QED BY <1>1, <2>1, <2>2, <2>3, OneMore
<1>6. CASE Poll
  <2>1. pc = "poll" /\ Polled("read") /\ consecutive' = 0 /\ pc' = "flush" /\ reason' = reason
    BY <1>6 DEF Poll, Recovered
  <2>2. "read" \in Outcome /\ "read" # "failed"
    BY DEF Outcome
  <2>3. Trailing(polls', 0) /\ reason = "none"
    BY <1>2, <1>5, <2>1, <2>2 DEF Going
  <2> QED BY <2>1, <2>3 DEF FailuresCounted
<1>7. CASE PollFails
  <2>1. /\ pc = "poll" /\ Polled("failed") /\ consecutive' = consecutive + 1
        /\ IF consecutive + 1 >= MaxFailures THEN pc' = "final" /\ reason' = "failures"
                                             ELSE pc' = "flush" /\ reason' = reason
    BY <1>7 DEF PollFails
  <2>2. "failed" \in Outcome /\ reason = "none"
    BY <1>2, <2>1 DEF Outcome, Going
  <2>3. IF consecutive + 1 < MaxFailures THEN Trailing(polls', consecutive + 1)
                                         ELSE AllFailed(polls')
    BY <1>5, <2>1, <2>2
  <2>4. (consecutive + 1 < MaxFailures) <=> ~ (consecutive + 1 >= MaxFailures)
    BY <1>1, RecorderConstants
  <2> QED BY <2>1, <2>2, <2>3, <2>4 DEF FailuresCounted, Going
<1>8. CASE PollExpires
  <2>1. pc = "poll" /\ Polled("expired") /\ pc' = "final" /\ reason' = "expired"
    BY <1>8 DEF PollExpires
  <2>2. "expired" \in Outcome /\ "expired" # "failed"
    BY DEF Outcome
  <2>3. ~ AllFailed(polls')
    BY <1>5, <2>1, <2>2
  <2> QED BY <2>1, <2>3 DEF FailuresCounted, Going
<1>9. CASE Flush
  BY <1>2, <1>9 DEF Flush, FailuresCounted, Going
<1>10. CASE WakeUp
  BY <1>2, <1>10 DEF WakeUp, FailuresCounted, Going
<1>11. CASE FinalFlush
  BY <1>2, <1>11 DEF FinalFlush, FailuresCounted, Going
<1>12. CASE Exit \/ Kill
  BY <1>12 DEF Exit, Kill, Gone, FailuresCounted, Going
<1>13. CASE Trade \/ Pass \/ UNCHANGED vars
  BY <1>2, <1>13 DEF Trade, Pass, vars, loopVars, FailuresCounted, Going
<1> QED BY <1>3, <1>4, <1>6, <1>7, <1>8, <1>9, <1>10, <1>11, <1>12, <1>13 DEF Next, Loop

(* The loop gives up exactly when its last MaxFailures polls all failed,   *)
(* whatever the limit.                                                     *)
THEOREM GivesUpHolds == Spec => []GivesUpAfterFailuresInARow
<1>1. Init => FailuresCounted
  BY DEF Init, FailuresCounted, Going
<1>2. RecorderTypes /\ FailuresCounted => GivesUpAfterFailuresInARow
  <2> SUFFICES ASSUME RecorderTypes, FailuresCounted, pc # "off"
               PROVE  reason = "failures" <=> AllFailed(polls)
    BY DEF GivesUpAfterFailuresInARow, AllFailed
  <2>1. /\ polls \in Seq(Outcome) /\ consecutive \in Nat /\ pc \in Place
        /\ (pc \in Going => consecutive < MaxFailures)
    <3>1. consecutive \in 0 .. MaxFailures /\ polls \in Seq(Outcome) /\ pc \in Place
      BY DEF RecorderTypes, TypeOK, Outcome
    <3>2. pc \in Going => consecutive < MaxFailures
      BY DEF RecorderTypes
    <3> QED BY <3>1, <3>2, RecorderConstants
  <2>2. CASE pc \in Going
    BY <2>1, <2>2, BelowTheLimit DEF FailuresCounted
  <2>3. CASE pc \in {"final", "stopped"}
    BY <2>3 DEF FailuresCounted
  <2> QED BY <2>1, <2>2, <2>3 DEF Place, Going
<1> QED BY <1>1, <1>2, FailuresKeep, TypesHold, PTL DEF Spec

----------------------------------------------------------------------------
(* What the run was given is in order of time, and not later than now.     *)
Past(q) == Sorted(q) /\ \A i \in DOMAIN q : q[i].at <= clock

TicksInTime == Past(buffer) /\ Past(heard)

LEMMA PastOnly ==
  ASSUME NEW q \in Seq(TickType), Past(q), NEW V
  PROVE  Past(Only(q, V))
<1>1. PICK p \in Seq(TickType \cap V) : p = Only(q, V)
  BY OnlyType
<1>2. \A k \in DOMAIN p : \E i \in DOMAIN q : p[k] = q[i]
  <2>1. \A t : (\E k \in DOMAIN p : p[k] = t) => \E i \in DOMAIN q : q[i] = t
    BY <1>1, OnlyMembers
  <2> QED BY <2>1
<1>3. Sorted(p)
  BY <1>1, OnlySorted DEF Past
<1> QED BY <1>1, <1>2, <1>3 DEF Past

LEMMA PastConcat ==
  ASSUME clock \in Nat, NEW q \in Seq(TickType), Past(q),
         NEW r \in Seq(TickType), \A i \in DOMAIN r : r[i].at = clock
  PROVE  Past(q \o r)
<1>1. PICK n \in Nat, m \in Nat : /\ n = Len(q) /\ m = Len(r)
                                  /\ DOMAIN q = 1 .. n /\ DOMAIN r = 1 .. m
  OBVIOUS
<1>2. PICK p : p = q \o r
  OBVIOUS
<1>3. /\ DOMAIN p = 1 .. n + m
      /\ \A i \in 1 .. n + m : p[i] = IF i <= n THEN q[i] ELSE r[i - n]
  BY <1>1, <1>2
<1>4. ASSUME NEW i \in 1 .. n + m
      PROVE  /\ i <= n => p[i].at <= clock /\ p[i] = q[i] /\ i \in DOMAIN q
             /\ i > n => p[i].at = clock
  <2>1. CASE i <= n
    <3>1. i \in DOMAIN q /\ p[i] = q[i]
      BY <1>1, <1>3, <2>1
    <3> QED BY <2>1, <3>1 DEF Past
  <2>2. CASE i > n
    <3>1. i - n \in DOMAIN r /\ p[i] = r[i - n]
      BY <1>1, <1>3, <2>2
    <3> QED BY <2>2, <3>1
  <2> QED BY <2>1, <2>2
<1>5. ASSUME NEW i \in 1 .. n + m, NEW j \in 1 .. n + m, i < j PROVE p[i].at <= p[j].at
  <2>1. CASE j <= n
    <3>1. i <= n
      BY <1>5, <2>1
    <3>2. /\ p[i] = q[i] /\ i \in DOMAIN q /\ p[j] = q[j] /\ j \in DOMAIN q
      BY <1>4, <2>1, <3>1
    <3> QED BY <1>5, <3>2 DEF Past, Sorted
  <2>2. CASE j > n
    <3>1. p[j].at = clock /\ (p[i].at <= clock \/ p[i].at = clock)
      BY <1>4, <2>2
    <3> QED BY <3>1
  <2> QED BY <2>1, <2>2
<1>6. \A i \in 1 .. n + m : p[i].at <= clock
  BY <1>4
<1>7. Past(p)
  BY <1>3, <1>5, <1>6 DEF Past, Sorted
<1> QED BY <1>2, <1>7

LEMMA TicksInTimeKeep == TypeOK /\ TicksInTime /\ [Next]_vars => TicksInTime'
<1> SUFFICES ASSUME TypeOK, TicksInTime, [Next]_vars PROVE TicksInTime'
  OBVIOUS
<1>1. buffer \in Seq(TickType) /\ heard \in Seq(TickType) /\ clock \in Nat
  <2>1. clock \in 0 .. MaxTime /\ buffer \in Seq(TickType) /\ heard \in Seq(TickType)
    BY DEF TypeOK
  <2> QED BY <2>1, RecorderConstants
<1>2. Past(<<>>)
  BY DEF Past, Sorted
<1>3. Past(buffer) /\ Past(heard)
  BY DEF TicksInTime
<1>4. SUFFICES ASSUME clock' = clock PROVE Past(buffer') /\ Past(heard')
  <2>1. CASE clock' = clock
    BY <1>4, <2>1 DEF TicksInTime, Past
  <2>2. CASE clock' # clock
    <3>1. clock' = clock + 1 /\ buffer' = buffer /\ heard' = heard
      BY <2>2 DEF Next, Loop, Start, Check, Poll, PollFails, PollExpires, Flush, WakeUp,
                  FinalFlush, Exit, Kill, Gone, Trade, Pass, vars, loopVars
    <3>2. ASSUME NEW q \in Seq(TickType), \A i \in DOMAIN q : q[i].at <= clock
          PROVE  \A i \in DOMAIN q : q[i].at <= clock + 1
      <4>1. ASSUME NEW i \in DOMAIN q PROVE q[i].at <= clock + 1
        <5>1. q[i].at \in Nat /\ q[i].at <= clock
          <6>1. q[i] \in TickType
            OBVIOUS
          <6> QED BY <3>2, <6>1, TicksAreTimed DEF Timed
        <5> QED BY <1>1, <5>1
      <4> QED BY <4>1
    <3>3. /\ \A i \in DOMAIN buffer : buffer[i].at <= clock + 1
          /\ \A i \in DOMAIN heard : heard[i].at <= clock + 1
      BY <1>1, <1>3, <3>2 DEF Past
    <3> QED BY <1>3, <3>1, <3>3 DEF TicksInTime, Past
  <2> QED BY <2>1, <2>2
<1>5. CASE Poll
  <2>0. PICK S \in SUBSET Symbol : \E price \in [S -> Price] :
          LET ticks == SetToSeq({Tick(s, price[s]) : s \in S}) IN
          buffer' = buffer \o ticks /\ heard' = heard \o ticks
    BY <1>5 DEF Poll
  <2>1. PICK price \in [S -> Price] :
          LET ticks == SetToSeq({Tick(s, price[s]) : s \in S}) IN
          buffer' = buffer \o ticks /\ heard' = heard \o ticks
    BY <2>0
  <2>2. PICK ticks \in Seq(TickType) : /\ ticks = SetToSeq({Tick(s, price[s]) : s \in S})
                                       /\ \A i \in DOMAIN ticks : ticks[i].at = clock
    BY ReadingIs
  <2>3. buffer' = buffer \o ticks /\ heard' = heard \o ticks
    BY <2>1, <2>2
  <2>4. Past(buffer \o ticks) /\ Past(heard \o ticks)
    BY <1>1, <1>3, <2>2, PastConcat
  <2> QED BY <2>3, <2>4
<1>6. CASE Flush
  <2>1. heard' = heard /\ \/ buffer' = <<>> \/ buffer' = buffer
                          \/ buffer' = Kept(Aggregate(buffer))
    BY <1>6 DEF Flush, FlushSettled
  <2>2. Past(Kept(Aggregate(buffer)))
    <3>1. Kept(Aggregate(buffer)) = Only(buffer, From(Last(Aggregate(buffer)).start))
      BY <1>1, KeptIs
    <3> QED BY <1>1, <1>3, <3>1, PastOnly
  <2> QED BY <1>2, <1>3, <2>1, <2>2
<1>7. CASE Start
  BY <1>2, <1>7 DEF Start
<1>8. CASE FinalFlush
  BY <1>2, <1>3, <1>8 DEF FinalFlush
<1>9. CASE Exit \/ Kill
  BY <1>2, <1>3, <1>9 DEF Exit, Kill, Gone
<1>10. CASE Check \/ PollFails \/ PollExpires \/ WakeUp
  BY <1>3, <1>10 DEF Check, PollFails, PollExpires, WakeUp
<1>11. CASE Trade \/ Pass \/ UNCHANGED vars
  BY <1>3, <1>11 DEF Trade, Pass, vars, loopVars
<1> QED BY <1>5, <1>6, <1>7, <1>8, <1>9, <1>10, <1>11 DEF Next, Loop

THEOREM TicksInTimeHold == Spec => []TicksInTime
<1>1. Init => TicksInTime
  <2> SUFFICES ASSUME Init PROVE TicksInTime
    OBVIOUS
  <2>1. Past(<<>>)
    BY DEF Past, Sorted
  <2> QED BY <2>1 DEF Init, TicksInTime
<1> QED BY <1>1, TicksInTimeKeep, RecorderTypesHold, PTL DEF Spec

----------------------------------------------------------------------------
(* The bars of the buffer are those of the ticks of the session in it, and *)
(* the ticks are in order as they are.                                     *)
Pending == Only(buffer, Open)

LEMMA PendingBars ==
  ASSUME TypeOK, TicksInTime
  PROVE  /\ Pending \in Seq(TickType) /\ Past(Pending)
         /\ \A i \in DOMAIN Pending : Pending[i] \in TickType /\ Pending[i] \in Open
         /\ Aggregate(buffer) \in Seq(BarType)
         /\ AreBars(TickType, Pending, Aggregate(buffer))
         /\ \A k, l \in DOMAIN Aggregate(buffer) :
              Key(Aggregate(buffer)[k]) = Key(Aggregate(buffer)[l]) => k = l
<1>1. buffer \in Seq(TickType) /\ Past(buffer)
  BY DEF TypeOK, TicksInTime
<1>2. Ordered(buffer) = buffer
  BY <1>1, TicksAreTimed, OrderedKeeps DEF Past
<1>3. PICK bars \in Seq(BarType), c \in Seq(TickType) :
        /\ bars = Aggregate(buffer) /\ c = Only(Ordered(buffer), Open)
        /\ AreBars(TickType, c, bars)
        /\ \A k, l \in DOMAIN bars : Key(bars[k]) = Key(bars[l]) => k = l
  BY BufferBars
<1>4. c = Pending
  BY <1>2, <1>3 DEF Pending
<1>5. Past(Pending)
  BY <1>1, PastOnly DEF Pending
<1>6. Pending \in Seq(TickType \cap Open)
  BY <1>1, OnlyType DEF Pending
<1>7. \A i \in DOMAIN Pending : Pending[i] \in TickType /\ Pending[i] \in Open
  BY <1>6
<1> QED BY <1>3, <1>4, <1>5, <1>7

(* The start of a bar is that of the bucket of a tick.                     *)
LEMMA BarOfTick ==
  ASSUME NEW c \in Seq(TickType), NEW bars, AreBars(TickType, c, bars), NEW k \in DOMAIN bars
  PROVE  \E i \in DOMAIN c : /\ c[i].at \in Nat
                             /\ bars[k].start = BucketStart(c[i].at) /\ bars[k].start \in Nat
<1>1. PICK i \in DOMAIN c : BucketStart(c[i].at) = bars[k].start
  BY DEF AreBars
<1>2. c[i] \in TickType
  OBVIOUS
<1>3. c[i].at \in Nat
  BY <1>2, TicksAreTimed DEF Timed
<1> QED BY <1>1, <1>3, BucketFacts

(* Every write of a flush but the last has ended.                          *)
LEMMA FlushWritesEnded ==
  ASSUME TypeOK, TicksInTime, Flush, NEW key \in DOMAIN store',
         key \notin DOMAIN store \/ store'[key] # store[key]
  PROVE  key[2] + BucketSize <= clock
<1>0. clock \in Nat
  <2>1. clock \in 0 .. MaxTime
    BY DEF TypeOK
  <2> QED BY <2>1, RecorderConstants
<1>1. PICK bars \in Seq(BarType), c \in Seq(TickType) :
        /\ bars = Aggregate(buffer) /\ c = Pending /\ Past(c)
        /\ AreBars(TickType, c, bars)
        /\ \A k, l \in DOMAIN bars : Key(bars[k]) = Key(bars[l]) => k = l
  BY PendingBars
<1>2. bars # <<>> /\ store' = Upserted(SettledBars(bars))
  BY <1>1 DEF Flush, FlushSettled
<1>3. PICK n \in Nat, front \in Seq(BarType) :
        /\ front = SettledBars(bars) /\ DOMAIN bars = 1 .. n + 1 /\ DOMAIN front = 1 .. n
        /\ \A k \in 1 .. n : front[k] = bars[k]
  BY <1>2, FrontIs
<1>4. \A k, l \in DOMAIN front : Key(front[k]) = Key(front[l]) => front[k] = front[l]
  BY <1>1, <1>3
<1>5. /\ DOMAIN Upserted(front) = {Key(front[k]) : k \in DOMAIN front} \cup DOMAIN store
      /\ \A j \in DOMAIN store :
           (\A k \in DOMAIN front : j # Key(front[k])) => Upserted(front)[j] = store[j]
  BY <1>4, UpsertedIs
<1>6. PICK k \in 1 .. n : key = Key(bars[k])
  BY <1>2, <1>3, <1>5
<1>7. key[2] = bars[k].start
  BY <1>6 DEF Key
<1>8. k \in DOMAIN bars /\ n + 1 \in DOMAIN bars /\ k < n + 1
  BY <1>3
<1>9. PICK i \in DOMAIN c : /\ c[i].at \in Nat
                            /\ bars[k].start = BucketStart(c[i].at) /\ bars[k].start \in Nat
  BY <1>1, <1>8, BarOfTick
<1>10. PICK j \in DOMAIN c : /\ c[j].at \in Nat
                             /\ bars[n + 1].start = BucketStart(c[j].at) /\ bars[n + 1].start \in Nat
  BY <1>1, <1>8, BarOfTick
<1>11. bars[k].start < bars[n + 1].start
  BY <1>1, <1>8 DEF AreBars
<1>12. bars[k].start + BucketSize <= BucketStart(c[j].at)
  BY <1>9, <1>10, <1>11, BucketOrder
<1>13. BucketStart(c[j].at) <= c[j].at /\ BucketStart(c[j].at) \in Nat
  BY <1>10, BucketFacts
<1>14. c[j].at <= clock
  BY <1>1 DEF Past
<1> QED BY <1>0, <1>7, <1>9, <1>10, <1>12, <1>13, <1>14, BucketAssumption

(* While the loop runs no bar is written before its bucket has ended.      *)
THEOREM OpenBucketsNotPersisted == Spec => OpenBucketNotPersisted
<1>1. ASSUME TypeOK, TicksInTime, [Next]_vars
      PROVE  [pc = "flush" => \A key \in DOMAIN store' :
                (key \notin DOMAIN store \/ store'[key] # store[key])
                  => key[2] + BucketSize <= clock]_vars
  <2> SUFFICES ASSUME pc = "flush", NEW key \in DOMAIN store',
                      key \notin DOMAIN store \/ store'[key] # store[key]
               PROVE  key[2] + BucketSize <= clock
    OBVIOUS
  <2>1. store' # store
    OBVIOUS
  <2>2. Flush
    BY <1>1, <2>1 DEF Next, Loop, Start, Check, Poll, PollFails, PollExpires, WakeUp,
                      FinalFlush, Exit, Kill, Gone, Trade, Pass, vars, loopVars
  <2> QED BY <1>1, <2>2, FlushWritesEnded
<1> QED BY <1>1, RecorderTypesHold, TicksInTimeHold, PTL DEF Spec, OpenBucketNotPersisted

----------------------------------------------------------------------------
(* The session is one of whole buckets.                                    *)
LEMMA BucketInSession ==
  ASSUME WholeBuckets, NEW t \in Nat, InSession(t)
  PROVE  InSession(BucketStart(t)) /\ InSession(BucketStart(t) + BucketSize - 1)
<1>1. SessionStart \in Nat /\ SessionEnd \in Nat /\ BucketSize \in Nat \ {0}
  BY RecorderConstants, BucketAssumption
<1>2. BucketStart(t) \in Nat /\ BucketStart(t) <= t /\ t < BucketStart(t) + BucketSize
  BY BucketFacts
<1>3. SessionStart <= t /\ t < SessionEnd
  BY <1>1 DEF InSession
<1>4. SessionStart <= BucketStart(t)
  <2>1. BucketStart(SessionStart) <= BucketStart(t)
    BY <1>1, <1>3, BucketOrder
  <2> QED BY <2>1 DEF WholeBuckets
<1>5. BucketStart(t) + BucketSize <= SessionEnd
  <2>1. BucketStart(t) < BucketStart(SessionEnd)
    BY <1>1, <1>2, <1>3 DEF WholeBuckets
  <2>2. BucketStart(t) + BucketSize <= BucketStart(SessionEnd)
    BY <1>1, <2>1, BucketOrder
  <2> QED BY <2>2 DEF WholeBuckets
<1> QED BY <1>1, <1>2, <1>4, <1>5 DEF InSession

(* What a step writes is bars of the buffer.                               *)
LEMMA WritesBars ==
  ASSUME TypeOK, TicksInTime, [Next]_vars, NEW key \in DOMAIN store'
  PROVE  \/ key \in DOMAIN store /\ store'[key] = store[key]
         \/ \E k \in DOMAIN Aggregate(buffer) : key = Key(Aggregate(buffer)[k])
<1>1. PICK bars \in Seq(BarType) :
        /\ bars = Aggregate(buffer)
        /\ \A k, l \in DOMAIN bars : Key(bars[k]) = Key(bars[l]) => k = l
  BY PendingBars
<1>2. CASE store' = store
  BY <1>2
<1>3. CASE Flush /\ store' # store
  <2>1. bars # <<>> /\ store' = Upserted(SettledBars(bars))
    BY <1>1, <1>3 DEF Flush, FlushSettled
  <2>2. PICK n \in Nat, front \in Seq(BarType) :
          /\ front = SettledBars(bars) /\ DOMAIN bars = 1 .. n + 1 /\ DOMAIN front = 1 .. n
          /\ \A k \in 1 .. n : front[k] = bars[k]
    BY <2>1, FrontIs
  <2>3. \A k, l \in DOMAIN front : Key(front[k]) = Key(front[l]) => front[k] = front[l]
    BY <1>1, <2>2
  <2>4. /\ DOMAIN Upserted(front) = {Key(front[k]) : k \in DOMAIN front} \cup DOMAIN store
        /\ \A j \in DOMAIN store :
             (\A k \in DOMAIN front : j # Key(front[k])) => Upserted(front)[j] = store[j]
    BY <2>3, UpsertedIs
  <2>5. CASE \E k \in DOMAIN front : key = Key(front[k])
    BY <1>1, <2>2, <2>5
  <2>6. CASE \A k \in DOMAIN front : key # Key(front[k])
    BY <2>1, <2>2, <2>4, <2>6
  <2> QED BY <2>5, <2>6
<1>4. CASE FinalFlush
  <2>1. store' = Upserted(bars)
    BY <1>1, <1>4 DEF FinalFlush
  <2>2. \A k, l \in DOMAIN bars : Key(bars[k]) = Key(bars[l]) => bars[k] = bars[l]
    BY <1>1
  <2>3. /\ DOMAIN Upserted(bars) = {Key(bars[k]) : k \in DOMAIN bars} \cup DOMAIN store
        /\ \A j \in DOMAIN store :
             (\A k \in DOMAIN bars : j # Key(bars[k])) => Upserted(bars)[j] = store[j]
    BY <2>2, UpsertedIs
  <2> QED BY <1>1, <2>1, <2>3
<1> QED BY <1>2, <1>3, <1>4
        DEF Next, Loop, Start, Check, Poll, PollFails, PollExpires, WakeUp,
            Exit, Kill, Gone, Trade, Pass, vars, loopVars

(* No bar has ticks read while the market was shut, whatever was read and  *)
(* however many recorders ran, when the session is one of whole buckets.   *)
THEOREM BarsInsideSessionHolds ==
  ASSUME WholeBuckets, HoursAnnounced
  PROVE  Spec => []BarsInsideSession
<1>1. Init => BarsInsideSession
  BY DEF Init, BarsInsideSession
<1>2. ASSUME TypeOK, TicksInTime, BarsInsideSession, [Next]_vars PROVE BarsInsideSession'
  <2> SUFFICES ASSUME NEW key \in DOMAIN store'
               PROVE  InSession(key[2]) /\ InSession(key[2] + BucketSize - 1)
    BY DEF BarsInsideSession, InSession
  <2>1. CASE key \in DOMAIN store
    BY <1>2, <2>1 DEF BarsInsideSession
  <2>2. CASE \E k \in DOMAIN Aggregate(buffer) : key = Key(Aggregate(buffer)[k])
    <3>1. PICK bars \in Seq(BarType), c \in Seq(TickType) :
            /\ bars = Aggregate(buffer) /\ c = Pending /\ Past(c)
            /\ \A i \in DOMAIN c : c[i] \in TickType /\ c[i] \in Open
            /\ AreBars(TickType, c, bars)
      BY <1>2, PendingBars
    <3>2. PICK k \in DOMAIN bars : key = Key(bars[k])
      BY <2>2, <3>1
    <3>3. PICK i \in DOMAIN c : c[i].at \in Nat /\ bars[k].start = BucketStart(c[i].at)
      BY <3>1, <3>2, BarOfTick
    <3>4. c[i].at \in 0 .. MaxTime
      <4>1. c[i].at <= clock /\ clock \in 0 .. MaxTime
        BY <1>2, <3>1 DEF Past, TypeOK
      <4> QED BY <3>3, <4>1, RecorderConstants
    <3>5. IsOpen(c[i].at)
      BY <3>1 DEF Open, InSessionOf, Counted
    <3>6. InSession(c[i].at)
      BY <3>4, <3>5 DEF HoursAnnounced
    <3>7. key[2] = BucketStart(c[i].at)
      BY <3>2, <3>3 DEF Key
    <3> QED BY <3>3, <3>6, <3>7, BucketInSession
  <2> QED BY <1>2, <2>1, <2>2, WritesBars
<1> QED BY <1>1, <1>2, RecorderTypesHold, TicksInTimeHold, PTL DEF Spec

----------------------------------------------------------------------------
(* What a run has stored.  Up to some cut every bucket it heard of is in   *)
(* the store, and the buffer holds the ticks from the cut.                 *)
HeardOf(h, b) == Only(h, Open \cap In(b))

Buckets(h) == {BucketStart(h[i].at) : i \in {j \in DOMAIN h : h[j] \in Open}}

StoredIn(h, st, s, b) ==
  HeardOf(h, b) # <<>> => <<s, b>> \in DOMAIN st /\ st[<<s, b>>] = BarOf(HeardOf(h, b), b)

Settled(h, buf, st, cut) ==
  /\ BucketStart(cut) = cut
  /\ Only(buf, Open) = Only(h, Open \cap From(cut))
  /\ \A s \in Symbol : \A b \in Nat : b < cut => StoredIn(h, st, s, b)

(* From the cut on there is one bucket, the newest.                        *)
OneOpen(h, cut) == \A b \in Buckets(h) : b >= cut => \A older \in Buckets(h) : older <= b

SettledUpToACut ==
  /\ pc \notin {"off", "stopped"} =>
       \E cut \in 0 .. clock : /\ Settled(heard, buffer, store, cut)
                               /\ pc # "flush" => OneOpen(heard, cut)
  /\ pc = "stopped" => \A s \in Symbol : \A b \in Buckets(heard) : StoredIn(heard, store, s, b)

(* The buckets from a cut are those of the ticks from it.                  *)
LEMMA FromIs ==
  ASSUME NEW cut \in Nat, BucketStart(cut) = cut, NEW t \in TickType
  PROVE  /\ t \in From(cut) <=> cut <= BucketStart(t.at)
         /\ t.at \in Nat /\ BucketStart(t.at) \in Nat
<1>1. t.at \in Nat
  BY TicksAreTimed DEF Timed
<1>2. cut <= t.at <=> cut <= BucketStart(t.at)
  BY <1>1, BucketOrder
<1> QED BY <1>1, <1>2, BucketFacts DEF From

LEMMA BucketsAre ==
  ASSUME NEW h \in Seq(TickType), NEW b
  PROVE  /\ b \in Buckets(h) <=> \E i \in DOMAIN h : h[i] \in Open /\ BucketStart(h[i].at) = b
         /\ b \in Buckets(h) => b \in Nat
         /\ b \in Buckets(h) <=> HeardOf(h, b) # <<>>
<1>1. b \in Buckets(h) <=> \E i \in DOMAIN h : h[i] \in Open /\ BucketStart(h[i].at) = b
  BY DEF Buckets
<1>2. ASSUME NEW i \in DOMAIN h PROVE h[i] \in TickType /\ BucketStart(h[i].at) \in Nat
  <2>1. h[i] \in TickType
    OBVIOUS
  <2> QED BY <2>1, TicksAreTimed, BucketFacts DEF Timed
<1>3. \A i \in DOMAIN h : h[i] \in Open \cap In(b) <=> h[i] \in Open /\ BucketStart(h[i].at) = b
  BY <1>2 DEF In, OfBucket
<1>4. HeardOf(h, b) # <<>> <=> \E i \in DOMAIN h : h[i] \in Open \cap In(b)
  BY OnlyNone DEF HeardOf
<1> QED BY <1>1, <1>2, <1>3, <1>4

(* From the cut on the pending ticks tell everything that was heard.       *)
LEMMA PendingTells ==
  ASSUME NEW h \in Seq(TickType), NEW c \in Seq(TickType), NEW cut \in Nat,
         BucketStart(cut) = cut, c = Only(h, Open \cap From(cut)),
         NEW b \in Nat, cut <= b
  PROVE  /\ Only(c, In(b)) = HeardOf(h, b)
         /\ b \in Buckets(h) <=> \E i \in DOMAIN c : BucketStart(c[i].at) = b
<1>1. (Open \cap From(cut)) \cap In(b) = Open \cap In(b)
  <2>1. ASSUME NEW t \in In(b) PROVE t \in From(cut)
    <3>1. t \in TickType /\ BucketStart(t.at) = b
      BY DEF In, OfBucket
    <3> QED BY <3>1, FromIs
  <2> QED BY <2>1
<1>2. Only(c, In(b)) = Only(h, (Open \cap From(cut)) \cap In(b))
  BY OnlyOnly
<1>3. Only(c, In(b)) = HeardOf(h, b)
  BY <1>1, <1>2 DEF HeardOf
<1>4. Only(c, In(b)) # <<>> <=> \E i \in DOMAIN c : c[i] \in In(b)
  BY OnlyNone
<1>5. \A i \in DOMAIN c : c[i] \in In(b) <=> BucketStart(c[i].at) = b
  <2>1. \A i \in DOMAIN c : c[i] \in TickType
    OBVIOUS
  <2> QED BY <2>1 DEF In, OfBucket
<1>6. b \in Buckets(h) <=> HeardOf(h, b) # <<>>
  BY BucketsAre
<1> QED BY <1>3, <1>4, <1>5, <1>6

(* The bars of the pending ticks, and the starts from the cut.             *)
LEMMA BarsFromCut ==
  ASSUME NEW h \in Seq(TickType), NEW c \in Seq(TickType), NEW cut \in Nat,
         BucketStart(cut) = cut, c = Only(h, Open \cap From(cut)),
         NEW bars \in Seq(BarType), AreBars(TickType, c, bars)
  PROVE  /\ \A k \in DOMAIN bars : /\ bars[k].start \in Nat /\ cut <= bars[k].start
                                   /\ bars[k].symbol \in Symbol
                                   /\ BucketStart(bars[k].start) = bars[k].start
                                   /\ bars[k] = BarOf(HeardOf(h, bars[k].start), bars[k].start)
         /\ \A b \in Nat : cut <= b =>
              (b \in Buckets(h) <=> \E k \in DOMAIN bars : bars[k].start = b)
<1>1. ASSUME NEW k \in DOMAIN bars
      PROVE  /\ bars[k].start \in Nat /\ cut <= bars[k].start /\ bars[k].symbol \in Symbol
             /\ BucketStart(bars[k].start) = bars[k].start
             /\ bars[k] = BarOf(HeardOf(h, bars[k].start), bars[k].start)
  <2>1. PICK i \in DOMAIN c : /\ c[i].at \in Nat
                              /\ bars[k].start = BucketStart(c[i].at) /\ bars[k].start \in Nat
    BY BarOfTick
  <2>2. c[i] \in From(cut) /\ c[i] \in TickType
    <3>1. \E j \in DOMAIN h : c[i] = h[j] /\ h[j] \in Open \cap From(cut)
      BY OnlyMembers
    <3> QED BY <3>1
  <2>3. cut <= bars[k].start
    BY <2>1, <2>2, FromIs
  <2>4. Only(c, In(bars[k].start)) = HeardOf(h, bars[k].start)
    BY <2>1, <2>3, PendingTells
  <2>5. bars[k] = BarOf(Only(c, In(bars[k].start)), bars[k].start)
    BY DEF AreBars, In
  <2>6. bars[k].symbol \in Symbol
    <3>1. bars[k] \in BarType
      OBVIOUS
    <3> QED BY <3>1 DEF BarType
  <2>7. BucketStart(bars[k].start) = bars[k].start
    BY <2>1, BucketFacts
  <2> QED BY <2>1, <2>3, <2>4, <2>5, <2>6, <2>7
<1>2. ASSUME NEW b \in Nat, cut <= b
      PROVE  b \in Buckets(h) <=> \E k \in DOMAIN bars : bars[k].start = b
  <2>1. b \in Buckets(h) <=> \E i \in DOMAIN c : BucketStart(c[i].at) = b
    BY <1>2, PendingTells
  <2>2. \A k \in DOMAIN bars : \E i \in DOMAIN c : BucketStart(c[i].at) = bars[k].start
    BY DEF AreBars
  <2>3. \A i \in DOMAIN c : \E k \in DOMAIN bars : bars[k].start = BucketStart(c[i].at)
    BY DEF AreBars
  <2>4. (\E i \in DOMAIN c : BucketStart(c[i].at) = b) => \E k \in DOMAIN bars : bars[k].start = b
    BY <2>3, Zenon
  <2>5. (\E k \in DOMAIN bars : bars[k].start = b) => \E i \in DOMAIN c : BucketStart(c[i].at) = b
    BY <2>2, Zenon
  <2> QED BY <2>1, <2>4, <2>5
<1> QED BY <1>1, <1>2

(* A write of some of the bars: what was stored stays, those are too.      *)
LEMMA WriteStores ==
  ASSUME OneSymbol, NEW h \in Seq(TickType), NEW cut \in Nat,
         \A s \in Symbol : \A b \in Nat : b < cut => StoredIn(h, store, s, b),
         NEW w \in Seq(BarType),
         \A k, l \in DOMAIN w : Key(w[k]) = Key(w[l]) => w[k] = w[l],
         \A k \in DOMAIN w : /\ w[k].start \in Nat /\ cut <= w[k].start
                             /\ w[k].symbol \in Symbol
                             /\ w[k] = BarOf(HeardOf(h, w[k].start), w[k].start),
         NEW s \in Symbol, NEW b \in Nat,
         b < cut \/ \E k \in DOMAIN w : w[k].start = b
  PROVE  StoredIn(h, Upserted(w), s, b)
<1>1. PICK U : U = Upserted(w)
  OBVIOUS
<1>2. /\ DOMAIN U = {Key(w[k]) : k \in DOMAIN w} \cup DOMAIN store
      /\ \A k \in DOMAIN w : U[Key(w[k])] = w[k]
      /\ \A key \in DOMAIN store :
           (\A k \in DOMAIN w : key # Key(w[k])) => U[key] = store[key]
  BY <1>1, UpsertedIs
<1>3. CASE b < cut
  <2>1. \A k \in DOMAIN w : <<s, b>> # Key(w[k])
    <3>1. ASSUME NEW k \in DOMAIN w, <<s, b>> = Key(w[k]) PROVE FALSE
      <4>1. b = w[k].start
        BY <3>1 DEF Key
      <4>2. w[k].start \in Nat /\ cut <= w[k].start
        OBVIOUS
      <4> QED BY <1>3, <4>1, <4>2
    <3> QED BY <3>1
  <2>2. StoredIn(h, store, s, b)
    BY <1>3
  <2>3. StoredIn(h, U, s, b)
    BY <1>2, <2>1, <2>2 DEF StoredIn
  <2> QED BY <1>1, <2>3
<1>4. CASE \E k \in DOMAIN w : w[k].start = b
  <2>1. PICK k \in DOMAIN w : w[k].start = b
    BY <1>4
  <2>2. w[k].symbol = s
    BY DEF OneSymbol
  <2>3. Key(w[k]) = <<s, b>>
    BY <2>1, <2>2 DEF Key
  <2>4. w[k] = BarOf(HeardOf(h, b), b)
    BY <2>1
  <2>5. StoredIn(h, U, s, b)
    BY <1>2, <2>3, <2>4 DEF StoredIn
  <2> QED BY <1>1, <2>5
<1> QED BY <1>3, <1>4

(* A reading of this instant goes into both.                               *)
LEMMA PollSettles ==
  ASSUME NEW h \in Seq(TickType), NEW buf \in Seq(TickType), NEW st, NEW cut \in 0 .. clock,
         clock \in Nat, Settled(h, buf, st, cut),
         NEW r \in Seq(TickType), \A i \in DOMAIN r : r[i].at = clock
  PROVE  Settled(h \o r, buf \o r, st, cut)
<1>1. cut \in Nat /\ BucketStart(cut) = cut
  BY DEF Settled
<1>2. ASSUME NEW i \in DOMAIN r
      PROVE  r[i] \in TickType /\ r[i] \in From(cut) /\ cut <= BucketStart(r[i].at)
                               /\ BucketStart(r[i].at) \in Nat
  <2>1. r[i] \in TickType /\ r[i].at = clock
    OBVIOUS
  <2>2. r[i] \in From(cut)
    BY <1>1, <2>1 DEF From
  <2> QED BY <1>1, <2>1, <2>2, FromIs
<1>3. Only(buf \o r, Open) = Only(h \o r, Open \cap From(cut))
  <2>1. Only(r, Open) = Only(r, Open \cap From(cut))
    <3>1. \A i \in DOMAIN r : r[i] \in Open <=> r[i] \in Open \cap From(cut)
      BY <1>2
    <3> QED BY <3>1, OnlySame
  <2>2. Only(buf \o r, Open) = Only(buf, Open) \o Only(r, Open)
    BY OnlyConcat
  <2>3. Only(h \o r, Open \cap From(cut))
          = Only(h, Open \cap From(cut)) \o Only(r, Open \cap From(cut))
    BY OnlyConcat, SMTT(30)
  <2> QED BY <2>1, <2>2, <2>3 DEF Settled
<1>4. ASSUME NEW s \in Symbol, NEW b \in Nat, b < cut PROVE StoredIn(h \o r, st, s, b)
  <2>0. PICK V : V = Open \cap In(b)
    OBVIOUS
  <2>1. Only(r, V) = <<>>
    <3>1. ASSUME NEW i \in DOMAIN r PROVE r[i] \notin V
      <4>1. BucketStart(r[i].at) # b
        BY <1>1, <1>2, <1>4
      <4> QED BY <2>0, <4>1 DEF In, OfBucket
    <3> QED BY <3>1, OnlyNone
  <2>2. Only(h \o r, V) = Only(h, V) \o Only(r, V)
    BY OnlyConcat
  <2>3. Only(h, V) \in Seq(TickType \cap V)
    BY OnlyType
  <2>4. HeardOf(h \o r, b) = HeardOf(h, b)
    <3>1. PICK q \in Seq(TickType \cap V) : q = Only(h, V)
      BY <2>3
    <3>2. q \o <<>> = q
      OBVIOUS
    <3>3. Only(h \o r, V) = Only(h, V)
      BY <2>1, <2>2, <3>1, <3>2
    <3> QED BY <2>0, <3>3 DEF HeardOf
  <2>5. StoredIn(h, st, s, b)
    BY <1>4 DEF Settled
  <2> QED BY <2>4, <2>5 DEF StoredIn
<1> QED BY <1>1, <1>3, <1>4 DEF Settled

(* A flush moves the cut to the newest bucket, or leaves things as they    *)
(* are when there is at most one.                                          *)
LEMMA FlushSettles ==
  ASSUME OneSymbol, TypeOK, TicksInTime, Flush,
         NEW cut \in 0 .. clock, Settled(heard, buffer, store, cut)
  PROVE  \E next \in 0 .. clock : Settled(heard, buffer', store', next) /\ OneOpen(heard, next)
<1>0. /\ heard \in Seq(TickType) /\ buffer \in Seq(TickType) /\ clock \in Nat /\ cut \in Nat
      /\ BucketStart(cut) = cut
  <2>1. clock \in 0 .. MaxTime /\ heard \in Seq(TickType) /\ buffer \in Seq(TickType)
    BY DEF TypeOK
  <2> QED BY <2>1, RecorderConstants DEF Settled
<1>1. PICK bars \in Seq(BarType), c \in Seq(TickType) :
        /\ bars = Aggregate(buffer) /\ c = Pending /\ Past(c)
        /\ AreBars(TickType, c, bars)
        /\ \A k, l \in DOMAIN bars : Key(bars[k]) = Key(bars[l]) => k = l
  BY PendingBars
<1>2. c = Only(buffer, Open) /\ c = Only(heard, Open \cap From(cut))
  BY <1>1 DEF Pending, Settled
<1>3. /\ \A k \in DOMAIN bars : /\ bars[k].start \in Nat /\ cut <= bars[k].start
                                /\ bars[k].symbol \in Symbol
                                /\ BucketStart(bars[k].start) = bars[k].start
                                /\ bars[k] = BarOf(HeardOf(heard, bars[k].start), bars[k].start)
      /\ \A b \in Nat : cut <= b =>
           (b \in Buckets(heard) <=> \E k \in DOMAIN bars : bars[k].start = b)
  BY <1>0, <1>1, <1>2, BarsFromCut
<1>4. \A b \in Buckets(heard) : b \in Nat
  BY <1>0, BucketsAre
<1>5. ASSUME NEW last \in Nat, cut <= last, \A k \in DOMAIN bars : bars[k].start <= last
      PROVE  OneOpen(heard, last)
  <2>1. ASSUME NEW b \in Buckets(heard), b >= last, NEW older \in Buckets(heard)
        PROVE  older <= b
    <3>1. b \in Nat /\ older \in Nat
      BY <1>4
    <3>2. CASE older < cut
      BY <1>0, <1>5, <2>1, <3>1, <3>2
    <3>3. CASE ~ (older < cut)
      <4>1. PICK k \in DOMAIN bars : bars[k].start = older
        BY <1>0, <1>3, <3>1, <3>3
      <4>2. older <= last
        BY <1>5, <4>1
      <4> QED BY <1>5, <2>1, <3>1, <4>2
    <3> QED BY <3>2, <3>3
  <2> QED BY <2>1 DEF OneOpen
<1>6. CASE bars = <<>>
  <2>1. buffer' = <<>> /\ store' = store
    BY <1>1, <1>6 DEF Flush, FlushSettled
  <2>2. DOMAIN bars = {}
    BY <1>6
  <2>3. OneOpen(heard, cut)
    BY <1>0, <1>5, <2>2
  <2>4. c = <<>>
    <3>1. DOMAIN c = {}
      BY <1>1, <2>2 DEF AreBars
    <3> QED BY <3>1
  <2>5. Only(<<>>, Open) = c
    BY <2>4, OnlyEmpty
  <2>6. Settled(heard, buffer', store', cut)
    BY <1>2, <2>1, <2>5 DEF Settled
  <2> QED BY <2>3, <2>6
<1>7. CASE bars # <<>> /\ Len(bars) = 1
  <2>1. buffer' = buffer /\ store' = store
    BY <1>1, <1>7 DEF Flush, FlushSettled
  <2>2. DOMAIN bars = {1}
    BY <1>7
  <2>3. \A k \in DOMAIN bars : bars[k].start <= bars[1].start
    BY <1>3, <2>2
  <2>4. OneOpen(heard, cut)
    <3>1. ASSUME NEW b \in Buckets(heard), b >= cut, NEW older \in Buckets(heard)
          PROVE  older <= b
      <4>1. b \in Nat /\ older \in Nat
        BY <1>4
      <4>2. b = bars[1].start
        BY <1>0, <1>3, <2>2, <3>1, <4>1
      <4>3. older < cut \/ older = bars[1].start
        BY <1>0, <1>3, <2>2, <4>1
      <4> QED BY <1>0, <3>1, <4>1, <4>2, <4>3
    <3> QED BY <3>1 DEF OneOpen
  <2>5. Settled(heard, buffer', store', cut)
    BY <2>1
  <2> QED BY <2>4, <2>5
<1>8. CASE bars # <<>> /\ Len(bars) # 1
  <2>1. buffer' = Kept(bars) /\ store' = Upserted(SettledBars(bars))
    BY <1>1, <1>8 DEF Flush, FlushSettled
  <2>2. PICK n \in Nat, front \in Seq(BarType) :
          /\ front = SettledBars(bars) /\ DOMAIN bars = 1 .. n + 1 /\ DOMAIN front = 1 .. n
          /\ \A k \in 1 .. n : front[k] = bars[k]
          /\ Last(bars) = bars[n + 1]
    BY <1>8, FrontIs
  <2>3. n + 1 \in DOMAIN bars
    BY <2>2
  <2>4. PICK last \in Nat : last = bars[n + 1].start
    BY <1>3, <2>3
  <2>5. cut <= last /\ BucketStart(last) = last
    BY <1>3, <2>3, <2>4
  <2>6. last \in 0 .. clock
    <3>1. PICK i \in DOMAIN c : c[i].at \in Nat /\ last = BucketStart(c[i].at)
      BY <1>1, <2>3, <2>4, BarOfTick
    <3>2. last <= c[i].at
      BY <3>1, BucketFacts
    <3>3. c[i].at <= clock
      BY <1>1 DEF Past
    <3> QED BY <1>0, <3>1, <3>2, <3>3
  <2>7. ASSUME NEW k \in DOMAIN bars PROVE bars[k].start <= last
    <3>1. k \in 1 .. n + 1
      BY <2>2
    <3>2. CASE k = n + 1
      BY <2>4, <3>2
    <3>3. CASE k # n + 1
      <4>1. k < n + 1
        BY <3>1, <3>3
      <4>2. bars[k].start < last
        BY <1>1, <2>3, <2>4, <4>1 DEF AreBars
      <4>3. bars[k].start \in Nat
        BY <1>3
      <4> QED BY <4>2, <4>3
    <3> QED BY <3>2, <3>3
  <2>8. OneOpen(heard, last)
    BY <1>5, <2>5, <2>7
  <2>9. Only(buffer', Open) = Only(heard, Open \cap From(last))
    <3>1. buffer' = Only(buffer, From(last))
      BY <1>0, <2>1, <2>2, <2>4, KeptIs
    <3>2. Only(Only(buffer, From(last)), Open) = Only(buffer, From(last) \cap Open)
      BY <1>0, OnlyOnly
    <3>3. Only(Only(buffer, Open), From(last)) = Only(buffer, Open \cap From(last))
      BY <1>0, OnlyOnly
    <3>4. Only(Only(heard, Open \cap From(cut)), From(last))
            = Only(heard, (Open \cap From(cut)) \cap From(last))
      BY <1>0, OnlyOnly, SMTT(30)
    <3>5. From(last) \cap Open = Open \cap From(last)
      OBVIOUS
    <3>6. (Open \cap From(cut)) \cap From(last) = Open \cap From(last)
      <4>1. ASSUME NEW t \in From(last) PROVE t \in From(cut)
        <5>1. t \in TickType /\ t.at >= last
          BY DEF From
        <5>2. t.at \in Nat
          BY <5>1, TicksAreTimed DEF Timed
        <5> QED BY <1>0, <2>5, <5>1, <5>2 DEF From
      <4> QED BY <4>1
    <3> QED BY <1>2, <3>1, <3>2, <3>3, <3>4, <3>5, <3>6
  <2>10. ASSUME NEW s \in Symbol, NEW b \in Nat, b < last PROVE StoredIn(heard, store', s, b)
    <3>1. \A k, l \in DOMAIN front : Key(front[k]) = Key(front[l]) => front[k] = front[l]
      BY <1>1, <2>2
    <3>2. \A k \in DOMAIN front : /\ front[k].start \in Nat /\ cut <= front[k].start
                                  /\ front[k].symbol \in Symbol
                                  /\ front[k] = BarOf(HeardOf(heard, front[k].start), front[k].start)
      BY <1>3, <2>2
    <3>3. \A t \in Symbol : \A a \in Nat : a < cut => StoredIn(heard, store, t, a)
      BY DEF Settled
    <3>4. CASE b < cut \/ \E k \in DOMAIN front : front[k].start = b
      <4>1. StoredIn(heard, Upserted(front), s, b)
        BY <1>0, <3>1, <3>2, <3>3, <3>4, WriteStores
      <4> QED BY <2>1, <2>2, <4>1
    <3>5. CASE ~ (b < cut) /\ \A k \in DOMAIN front : front[k].start # b
      <4>1. b \notin Buckets(heard)
        <5>1. ASSUME NEW k \in DOMAIN bars PROVE bars[k].start # b
          <6>1. CASE k \in 1 .. n
            BY <2>2, <3>5, <6>1
          <6>2. CASE k = n + 1
            BY <2>4, <2>10, <6>2
          <6> QED BY <2>2, <6>1, <6>2
        <5>2. cut <= b
          BY <1>0, <3>5
        <5> QED BY <1>3, <5>1, <5>2
      <4>2. HeardOf(heard, b) = <<>>
        BY <1>0, <4>1, BucketsAre
      <4> QED BY <4>2 DEF StoredIn
    <3> QED BY <3>4, <3>5
  <2>11. Settled(heard, buffer', store', last)
    BY <2>5, <2>9, <2>10 DEF Settled
  <2> QED BY <2>6, <2>8, <2>11
<1> QED BY <1>6, <1>7, <1>8

(* The last flush stores everything that was heard.                        *)
LEMMA FinalFlushSettles ==
  ASSUME OneSymbol, TypeOK, TicksInTime, FinalFlush,
         NEW cut \in 0 .. clock, Settled(heard, buffer, store, cut)
  PROVE  \A s \in Symbol : \A b \in Buckets(heard) : StoredIn(heard, store', s, b)
<1>0. /\ heard \in Seq(TickType) /\ buffer \in Seq(TickType) /\ clock \in Nat /\ cut \in Nat
      /\ BucketStart(cut) = cut
  <2>1. clock \in 0 .. MaxTime /\ heard \in Seq(TickType) /\ buffer \in Seq(TickType)
    BY DEF TypeOK
  <2> QED BY <2>1, RecorderConstants DEF Settled
<1>1. PICK bars \in Seq(BarType), c \in Seq(TickType) :
        /\ bars = Aggregate(buffer) /\ c = Pending
        /\ AreBars(TickType, c, bars)
        /\ \A k, l \in DOMAIN bars : Key(bars[k]) = Key(bars[l]) => k = l
  BY PendingBars
<1>2. c = Only(heard, Open \cap From(cut))
  BY <1>1 DEF Pending, Settled
<1>3. /\ \A k \in DOMAIN bars : /\ bars[k].start \in Nat /\ cut <= bars[k].start
                                /\ bars[k].symbol \in Symbol
                                /\ bars[k] = BarOf(HeardOf(heard, bars[k].start), bars[k].start)
      /\ \A b \in Nat : cut <= b =>
           (b \in Buckets(heard) <=> \E k \in DOMAIN bars : bars[k].start = b)
  BY <1>0, <1>1, <1>2, BarsFromCut
<1>4. store' = Upserted(bars)
  BY <1>1 DEF FinalFlush
<1>5. ASSUME NEW s \in Symbol, NEW b \in Buckets(heard) PROVE StoredIn(heard, store', s, b)
  <2>1. b \in Nat
    BY <1>0, BucketsAre
  <2>2. b < cut \/ \E k \in DOMAIN bars : bars[k].start = b
    BY <1>0, <1>3, <2>1
  <2>3. \A k, l \in DOMAIN bars : Key(bars[k]) = Key(bars[l]) => bars[k] = bars[l]
    BY <1>1
  <2>4. \A t \in Symbol : \A a \in Nat : a < cut => StoredIn(heard, store, t, a)
    BY DEF Settled
  <2>5. StoredIn(heard, Upserted(bars), s, b)
    BY <1>0, <1>3, <2>1, <2>2, <2>3, <2>4, WriteStores
  <2> QED BY <1>4, <2>5
<1> QED BY <1>5

LEMMA SettledKeep ==
  OneSymbol /\ TypeOK /\ TicksInTime /\ SettledUpToACut /\ [Next]_vars => SettledUpToACut'
<1> SUFFICES ASSUME OneSymbol, TypeOK, TicksInTime, SettledUpToACut, [Next]_vars
             PROVE  SettledUpToACut'
  OBVIOUS
<1>0. clock \in Nat /\ heard \in Seq(TickType) /\ buffer \in Seq(TickType)
  <2>1. clock \in 0 .. MaxTime /\ heard \in Seq(TickType) /\ buffer \in Seq(TickType)
    BY DEF TypeOK
  <2> QED BY <2>1, RecorderConstants
<1>1. CASE Start
  <2>1. /\ pc' = "check" /\ buffer' = <<>> /\ heard' = <<>> /\ clock' = clock
    BY <1>1 DEF Start
  <2>2. 0 \in 0 .. clock /\ BucketStart(0) = 0
    <3>1. BucketStart(0) \in Nat /\ BucketStart(0) <= 0
      BY BucketFacts
    <3> QED BY <1>0, <3>1
  <2>3. Only(<<>>, Open) = Only(<<>>, Open \cap From(0))
    BY OnlyEmpty
  <2>4. Settled(<<>>, <<>>, store', 0)
    BY <2>2, <2>3 DEF Settled
  <2>5. OneOpen(<<>>, 0)
    BY DEF OneOpen, Buckets
  <2> QED BY <2>1, <2>2, <2>4, <2>5 DEF SettledUpToACut
<1>2. CASE Poll
  <2>0. PICK S \in SUBSET Symbol : \E price \in [S -> Price] :
          LET ticks == SetToSeq({Tick(s, price[s]) : s \in S}) IN
          /\ buffer' = buffer \o ticks /\ heard' = heard \o ticks
          /\ pc' = "flush" /\ clock' = clock /\ store' = store /\ pc = "poll"
    BY <1>2 DEF Poll
  <2>1. PICK price \in [S -> Price] :
          LET ticks == SetToSeq({Tick(s, price[s]) : s \in S}) IN
          /\ buffer' = buffer \o ticks /\ heard' = heard \o ticks
          /\ pc' = "flush" /\ clock' = clock /\ store' = store /\ pc = "poll"
    BY <2>0
  <2>2. PICK ticks \in Seq(TickType) : /\ ticks = SetToSeq({Tick(s, price[s]) : s \in S})
                                       /\ \A i \in DOMAIN ticks : ticks[i].at = clock
    BY ReadingIs
  <2>3. /\ buffer' = buffer \o ticks /\ heard' = heard \o ticks
        /\ pc' = "flush" /\ clock' = clock /\ store' = store /\ pc = "poll"
    BY <2>1, <2>2
  <2>4. PICK cut \in 0 .. clock : Settled(heard, buffer, store, cut)
    BY <2>3 DEF SettledUpToACut
  <2>5. Settled(heard \o ticks, buffer \o ticks, store, cut)
    BY <1>0, <2>2, <2>4, PollSettles
  <2> QED BY <2>3, <2>5 DEF SettledUpToACut
<1>3. CASE Flush
  <2>1. pc = "flush" /\ pc' = "sleep" /\ clock' = clock /\ heard' = heard
    BY <1>3 DEF Flush
  <2>2. PICK cut \in 0 .. clock : Settled(heard, buffer, store, cut)
    BY <2>1 DEF SettledUpToACut
  <2>3. PICK next \in 0 .. clock : Settled(heard, buffer', store', next) /\ OneOpen(heard, next)
    BY <1>3, <2>2, FlushSettles
  <2> QED BY <2>1, <2>3 DEF SettledUpToACut
<1>4. CASE FinalFlush
  <2>1. pc = "final" /\ pc' = "stopped" /\ heard' = heard
    BY <1>4 DEF FinalFlush
  <2>2. PICK cut \in 0 .. clock : Settled(heard, buffer, store, cut)
    BY <2>1 DEF SettledUpToACut
  <2>3. \A s \in Symbol : \A b \in Buckets(heard) : StoredIn(heard, store', s, b)
    BY <1>4, <2>2, FinalFlushSettles
  <2> QED BY <2>1, <2>3 DEF SettledUpToACut
<1>5. CASE Check \/ PollFails \/ PollExpires \/ WakeUp
  <2>1. /\ pc \in {"check", "poll", "sleep"}
        /\ pc' \in {"check", "poll", "flush", "final"}
        /\ clock' = clock /\ heard' = heard /\ buffer' = buffer /\ store' = store
    BY <1>5 DEF Check, PollFails, PollExpires, WakeUp
  <2>2. PICK cut \in 0 .. clock : Settled(heard, buffer, store, cut) /\ OneOpen(heard, cut)
    BY <2>1 DEF SettledUpToACut
  <2> QED BY <2>1, <2>2 DEF SettledUpToACut
<1>6. CASE Exit \/ Kill
  <2>1. pc' = "off"
    BY <1>6 DEF Exit, Kill, Gone
  <2> QED BY <2>1 DEF SettledUpToACut
<1>7. CASE Trade \/ UNCHANGED vars
  <2>1. pc' = pc /\ clock' = clock /\ heard' = heard /\ buffer' = buffer /\ store' = store
    BY <1>7 DEF Trade, vars, loopVars
  <2> QED BY <2>1 DEF SettledUpToACut
<1>8. CASE Pass
  <2>1. pc' = pc /\ clock' = clock + 1 /\ heard' = heard /\ buffer' = buffer /\ store' = store
    BY <1>8 DEF Pass, loopVars
  <2>2. \A cut \in 0 .. clock : cut \in 0 .. clock'
    BY <1>0, <2>1
  <2> QED BY <2>1, <2>2 DEF SettledUpToACut
<1> QED BY <1>1, <1>2, <1>3, <1>4, <1>5, <1>6, <1>7, <1>8 DEF Next, Loop

(* What a kill leaves: up to some cut every bucket is in the store, and    *)
(* of the buckets after the first from it ticks of one instant were heard. *)
LaterAtOnce(h, cut) ==
  \E t \in Nat : \A i, j \in DOMAIN h :
    /\ h[i] \in Open /\ h[j] \in Open
    /\ cut <= BucketStart(h[i].at) /\ BucketStart(h[i].at) < BucketStart(h[j].at)
    => h[j].at = t

StoredBefore(h, st, cut) ==
  \A s \in Symbol : \A b \in Nat : b < cut => StoredIn(h, st, s, b)

SurvivesKill == \E cut \in Nat : StoredBefore(heard, store, cut) /\ LaterAtOnce(heard, cut)

(* Where one bucket is open none is later.                                 *)
LEMMA OneIsAtOnce ==
  ASSUME NEW h \in Seq(TickType), NEW cut \in Nat, OneOpen(h, cut),
         NEW i \in DOMAIN h, NEW j \in DOMAIN h, h[i] \in Open, h[j] \in Open,
         cut <= BucketStart(h[i].at)
  PROVE  ~ (BucketStart(h[i].at) < BucketStart(h[j].at))
<1>1. BucketStart(h[i].at) \in Buckets(h) /\ BucketStart(h[j].at) \in Buckets(h)
  BY DEF Buckets
<1>2. PICK b \in Nat, a \in Nat : b = BucketStart(h[i].at) /\ a = BucketStart(h[j].at)
  BY <1>1, BucketsAre
<1>3. a <= b
  BY <1>1, <1>2 DEF OneOpen
<1> QED BY <1>2, <1>3

(* A reading adds ticks of one instant, and none is of an older bucket.    *)
LEMMA PollAtOnce ==
  ASSUME clock \in Nat, NEW h \in Seq(TickType), Past(h),
         NEW cut \in Nat, OneOpen(h, cut),
         NEW r \in Seq(TickType), \A i \in DOMAIN r : r[i].at = clock
  PROVE  LaterAtOnce(h \o r, cut)
<1>1. PICK q : q = h \o r
  OBVIOUS
<1>2. \A i \in DOMAIN q : (\E k \in DOMAIN h : q[i] = h[k]) \/ q[i].at = clock
  <2>1. PICK m \in Nat, n \in Nat : m = Len(h) /\ n = Len(r)
    OBVIOUS
  <2>2. /\ DOMAIN h = 1 .. m /\ DOMAIN r = 1 .. n /\ DOMAIN q = 1 .. m + n
        /\ \A i \in 1 .. m : q[i] = h[i]
        /\ \A i \in m + 1 .. m + n : q[i] = r[i - m] /\ i - m \in 1 .. n
    BY <1>1, <2>1
  <2>3. ASSUME NEW i \in DOMAIN q PROVE (\E k \in DOMAIN h : q[i] = h[k]) \/ q[i].at = clock
    <3>1. i \in 1 .. m \/ i \in m + 1 .. m + n
      BY <2>2
    <3>2. CASE i \in 1 .. m
      BY <2>2, <3>2
    <3>3. CASE i \in m + 1 .. m + n
      BY <2>2, <3>3
    <3> QED BY <3>1, <3>2, <3>3
  <2> QED BY <2>3
<1>3. ASSUME NEW i \in DOMAIN q, NEW j \in DOMAIN q, q[i] \in Open, q[j] \in Open,
             cut <= BucketStart(q[i].at), BucketStart(q[i].at) < BucketStart(q[j].at)
      PROVE  q[j].at = clock
  <2>1. CASE \E k \in DOMAIN h : q[j] = h[k]
    <3>1. PICK k \in DOMAIN h : q[j] = h[k]
      BY <2>1
    <3>2. CASE \E l \in DOMAIN h : q[i] = h[l]
      <4>1. PICK l \in DOMAIN h : q[i] = h[l]
        BY <3>2
      <4> QED BY <1>3, <3>1, <4>1, OneIsAtOnce
    <3>3. CASE q[i].at = clock
      <4>1. h[k].at <= clock /\ h[k].at \in Nat
        <5>1. h[k] \in TickType
          OBVIOUS
        <5> QED BY <5>1, TicksAreTimed DEF Past, Timed
      <4>2. BucketStart(h[k].at) <= BucketStart(clock)
        BY <4>1, BucketOrder
      <4>3. BucketStart(h[k].at) \in Nat /\ BucketStart(clock) \in Nat
        BY <4>1, BucketFacts
      <4> QED BY <1>3, <3>1, <3>3, <4>2, <4>3
    <3> QED BY <1>2, <3>2, <3>3
  <2> QED BY <1>2, <2>1
<1>4. LaterAtOnce(q, cut)
  BY <1>3 DEF LaterAtOnce
<1> QED BY <1>1, <1>4

LEMMA SurvivesKeep ==
  OneSymbol /\ TypeOK /\ TicksInTime /\ SettledUpToACut /\ SurvivesKill /\ [Next]_vars
    => SurvivesKill'
<1> SUFFICES ASSUME OneSymbol, TypeOK, TicksInTime, SettledUpToACut, SurvivesKill, [Next]_vars
             PROVE  SurvivesKill'
  OBVIOUS
<1>0. clock \in Nat /\ heard \in Seq(TickType) /\ buffer \in Seq(TickType)
  <2>1. clock \in 0 .. MaxTime /\ heard \in Seq(TickType) /\ buffer \in Seq(TickType)
    BY DEF TypeOK
  <2> QED BY <2>1, RecorderConstants
<1>1. CASE heard' = heard /\ store' = store
  BY <1>1 DEF SurvivesKill
<1>2. CASE Start
  <2>1. heard' = <<>>
    BY <1>2 DEF Start
  <2>2. StoredBefore(<<>>, store', 0) /\ LaterAtOnce(<<>>, 0)
    BY DEF StoredBefore, LaterAtOnce
  <2> QED BY <2>1, <2>2 DEF SurvivesKill
<1>3. CASE Poll
  <2>0. PICK S \in SUBSET Symbol : \E price \in [S -> Price] :
          LET ticks == SetToSeq({Tick(s, price[s]) : s \in S}) IN
          heard' = heard \o ticks /\ store' = store /\ pc = "poll"
    BY <1>3 DEF Poll
  <2>1. PICK price \in [S -> Price] :
          LET ticks == SetToSeq({Tick(s, price[s]) : s \in S}) IN
          heard' = heard \o ticks /\ store' = store /\ pc = "poll"
    BY <2>0
  <2>2. PICK ticks \in Seq(TickType) : /\ ticks = SetToSeq({Tick(s, price[s]) : s \in S})
                                       /\ \A i \in DOMAIN ticks : ticks[i].at = clock
    BY ReadingIs
  <2>3. heard' = heard \o ticks /\ store' = store /\ pc = "poll"
    BY <2>1, <2>2
  <2>4. PICK cut \in 0 .. clock : Settled(heard, buffer, store, cut) /\ OneOpen(heard, cut)
    BY <2>3 DEF SettledUpToACut
  <2>5. Settled(heard \o ticks, buffer \o ticks, store, cut)
    BY <1>0, <2>2, <2>4, PollSettles
  <2>6. LaterAtOnce(heard \o ticks, cut)
    BY <1>0, <2>2, <2>4, PollAtOnce DEF TicksInTime
  <2>7. cut \in Nat
    BY <1>0
  <2> QED BY <2>3, <2>5, <2>6, <2>7 DEF SurvivesKill, Settled, StoredBefore
<1>4. CASE Flush
  <2>1. pc = "flush" /\ heard' = heard
    BY <1>4 DEF Flush
  <2>2. PICK cut \in 0 .. clock : Settled(heard, buffer, store, cut)
    BY <2>1 DEF SettledUpToACut
  <2>3. PICK next \in 0 .. clock : Settled(heard, buffer', store', next) /\ OneOpen(heard, next)
    BY <1>4, <2>2, FlushSettles
  <2>4. next \in Nat
    BY <1>0
  <2>5. LaterAtOnce(heard, next)
    BY <1>0, <2>3, <2>4, OneIsAtOnce DEF LaterAtOnce
  <2> QED BY <2>1, <2>3, <2>4, <2>5 DEF SurvivesKill, Settled, StoredBefore
<1>5. CASE FinalFlush
  <2>1. pc = "final" /\ heard' = heard
    BY <1>5 DEF FinalFlush
  <2>2. PICK cut \in 0 .. clock : Settled(heard, buffer, store, cut)
    BY <2>1 DEF SettledUpToACut
  <2>3. \A s \in Symbol : \A b \in Buckets(heard) : StoredIn(heard, store', s, b)
    BY <1>5, <2>2, FinalFlushSettles
  <2>4. \A b \in Nat : b \notin Buckets(heard) => HeardOf(heard, b) = <<>>
    BY <1>0, BucketsAre
  <2>5. StoredBefore(heard, store', clock + 1)
    BY <2>3, <2>4 DEF StoredBefore, StoredIn
  <2>6. \A i \in DOMAIN heard : ~ (clock + 1 <= BucketStart(heard[i].at))
    <3>1. ASSUME NEW i \in DOMAIN heard PROVE ~ (clock + 1 <= BucketStart(heard[i].at))
      <4>1. heard[i] \in TickType
        BY <1>0
      <4>2. heard[i].at \in Nat /\ heard[i].at <= clock
        BY <4>1, TicksAreTimed DEF TicksInTime, Past, Timed
      <4>3. BucketStart(heard[i].at) \in Nat /\ BucketStart(heard[i].at) <= heard[i].at
        BY <4>2, BucketFacts
      <4> QED BY <1>0, <4>2, <4>3
    <3> QED BY <3>1
  <2>7. LaterAtOnce(heard, clock + 1)
    BY <2>6 DEF LaterAtOnce
  <2>8. clock + 1 \in Nat
    BY <1>0
  <2> QED BY <2>1, <2>5, <2>7, <2>8 DEF SurvivesKill
<1> QED BY <1>1, <1>2, <1>3, <1>4, <1>5
        DEF Next, Loop, Check, PollFails, PollExpires, WakeUp, Exit, Kill, Gone, Trade, Pass,
            vars, loopVars

(* What the runs call heard is what the proof does.                        *)
LEMMA InSessionIsOpen ==
  ASSUME HoursAnnounced, TypeOK, TicksInTime, NEW i \in DOMAIN heard
  PROVE  InSession(heard[i].at) <=> heard[i] \in Open
<1>1. heard \in Seq(TickType) /\ clock \in 0 .. MaxTime
  BY DEF TypeOK
<1>2. heard[i] \in TickType
  BY <1>1
<1>3. heard[i].at \in Nat /\ heard[i].at <= clock
  BY <1>2, TicksAreTimed DEF Timed, TicksInTime, Past
<1>4. heard[i].at \in 0 .. MaxTime
  BY <1>1, <1>3, RecorderConstants
<1>5. InSession(heard[i].at) <=> IsOpen(heard[i].at)
  BY <1>4 DEF HoursAnnounced
<1> QED BY <1>2, <1>5 DEF Open, InSessionOf, Counted

LEMMA HeardIsHeard ==
  ASSUME OneSymbol, HoursAnnounced, TypeOK, TicksInTime
  PROVE  /\ HeardBuckets = Buckets(heard)
         /\ \A s \in Symbol : \A b : HeardIn(s, b) = HeardOf(heard, b)
<1>0. heard \in Seq(TickType) /\ clock \in 0 .. MaxTime
  BY DEF TypeOK
<1>1. ASSUME NEW i \in DOMAIN heard
      PROVE  heard[i] \in TickType /\ (InSession(heard[i].at) <=> heard[i] \in Open)
  BY <1>0, InSessionIsOpen
<1>2. HeardBuckets = Buckets(heard)
  <2>1. {j \in DOMAIN heard : InSession(heard[j].at)} = {j \in DOMAIN heard : heard[j] \in Open}
    BY <1>1
  <2> QED BY <2>1 DEF HeardBuckets, Buckets
<1>3. ASSUME NEW s \in Symbol, NEW b PROVE HeardIn(s, b) = HeardOf(heard, b)
  <2>1. ASSUME NEW i \in DOMAIN heard
        PROVE  (/\ heard[i].symbol = s
                /\ BucketStart(heard[i].at) = b /\ InSession(heard[i].at))
                 <=> heard[i] \in Open \cap In(b)
    <3>1. heard[i].symbol = s
      <4>1. heard[i].symbol \in Symbol
        BY <1>1 DEF TickType
      <4> QED BY <4>1 DEF OneSymbol
    <3> QED BY <1>1, <3>1 DEF In, OfBucket
  <2>2. {i \in DOMAIN heard : /\ heard[i].symbol = s
                              /\ BucketStart(heard[i].at) = b /\ InSession(heard[i].at)}
          = {i \in DOMAIN heard : heard[i] \in Open \cap In(b)}
    BY <2>1
  <2> QED BY <2>2 DEF HeardIn, HeardOf, Only
<1> QED BY <1>2, <1>3

(* A run of one symbol has after each flush stored every bucket but the    *)
(* newest, as the bar of all its ticks, and at its end every one; and      *)
(* wherever it is killed, every bucket with two later readings.            *)
THEOREM SettledBucketsStoredHolds ==
  ASSUME OneSymbol, HoursAnnounced
  PROVE  Spec => []SettledBucketsStored
<1>1. Init => SettledUpToACut /\ SurvivesKill
  <2>1. Init => SettledUpToACut
    BY DEF Init, SettledUpToACut
  <2>2. StoredBefore(<<>>, store, 0) /\ LaterAtOnce(<<>>, 0)
    BY DEF StoredBefore, LaterAtOnce
  <2> QED BY <2>1, <2>2 DEF Init, SurvivesKill
<1>2. /\ TypeOK /\ TicksInTime /\ SettledUpToACut /\ SurvivesKill /\ [Next]_vars
      => SettledUpToACut' /\ SurvivesKill'
  BY SettledKeep, SurvivesKeep
<1>3. ASSUME TypeOK, TicksInTime, SettledUpToACut, SurvivesKill PROVE SettledBucketsStored
  <2>0. heard \in Seq(TickType) /\ clock \in Nat
    <3>1. heard \in Seq(TickType) /\ clock \in 0 .. MaxTime
      BY <1>3 DEF TypeOK
    <3> QED BY <3>1, RecorderConstants
  <2>1. /\ HeardBuckets = Buckets(heard)
        /\ \A s \in Symbol : \A b : HeardIn(s, b) = HeardOf(heard, b)
    BY <1>3, HeardIsHeard
  <2>2. ASSUME NEW s \in Symbol, NEW b, StoredIn(heard, store, s, b) PROVE Stored(s, b)
    BY <2>1, <2>2 DEF Stored, StoredIn
  <2>3. ASSUME NEW s \in Symbol, NEW b \in HeardBuckets, pc = "stopped" PROVE Stored(s, b)
    BY <1>3, <2>1, <2>2, <2>3 DEF SettledUpToACut
  <2>4. ASSUME NEW s \in Symbol, NEW b \in HeardBuckets,
               pc \in {"check", "poll", "sleep", "final"}, b < Max(HeardBuckets)
        PROVE  Stored(s, b)
    <3>1. PICK cut \in 0 .. clock : Settled(heard, buffer, store, cut) /\ OneOpen(heard, cut)
      BY <1>3, <2>4 DEF SettledUpToACut
    <3>2. b \in Nat
      BY <2>0, <2>1, BucketsAre
    <3>3. b < cut
      <4>1. PICK newest \in HeardBuckets : newest = Max(HeardBuckets)
        <5>1. IsFiniteSet(HeardBuckets)
          <6>1. DOMAIN heard = 1 .. Len(heard) /\ Len(heard) \in Nat
            BY <2>0
          <6>2. PICK D : D = {j \in DOMAIN heard : InSession(heard[j].at)}
            OBVIOUS
          <6>3. IsFiniteSet(D)
            BY <2>0, <6>2, PositionsFinite
          <6>4. IsFiniteSet({BucketStart(heard[i].at) : i \in D})
            <7> DEFINE f == [i \in D |-> BucketStart(heard[i].at)]
                       R == {BucketStart(heard[i].at) : i \in D}
            <7>1. f \in Surjection(D, R)
              BY DEF Surjection
            <7> HIDE DEF f, R
            <7>2. IsFiniteSet(R)
              BY <6>3, <7>1, FS_Surjection
            <7> QED BY <7>2 DEF R
          <6> QED BY <6>2, <6>4 DEF HeardBuckets
        <5>2. HeardBuckets \in SUBSET Int
          BY <2>0, <2>1, BucketsAre
        <5> QED BY <2>4, <5>1, <5>2, FiniteExtremes
      <4>2. newest \in Nat
        BY <2>0, <2>1, BucketsAre
      <4>3. b < newest
        BY <2>4, <4>1
      <4>4. ASSUME ~ (b < cut) PROVE FALSE
        <5>1. b >= cut
          BY <2>0, <3>2, <4>4
        <5>2. newest <= b
          BY <2>1, <3>1, <5>1 DEF OneOpen
        <5> QED BY <3>2, <4>2, <4>3, <5>2
      <4> QED BY <4>4
    <3>4. StoredIn(heard, store, s, b)
      BY <3>1, <3>2, <3>3 DEF Settled
    <3> QED BY <2>2, <3>4
  <2>5. ASSUME NEW s \in Symbol, NEW b \in HeardBuckets,
               NEW t \in HeardAfter(b), NEW u \in HeardAfter(b), t # u
        PROVE  Stored(s, b)
    <3>1. PICK cut \in Nat : StoredBefore(heard, store, cut) /\ LaterAtOnce(heard, cut)
      BY <1>3 DEF SurvivesKill
    <3>2. b \in Nat
      BY <2>0, <2>1, BucketsAre
    <3>3. ASSUME NEW k \in DOMAIN heard, InSession(heard[k].at) PROVE heard[k] \in Open
      BY <1>3, <3>3, InSessionIsOpen
    <3>4. PICK i \in DOMAIN heard : InSession(heard[i].at) /\ BucketStart(heard[i].at) = b
      BY DEF HeardBuckets
    <3>5. PICK j \in DOMAIN heard : /\ InSession(heard[j].at) /\ b < BucketStart(heard[j].at)
                                    /\ heard[j].at = t
      BY DEF HeardAfter
    <3>6. PICK k \in DOMAIN heard : /\ InSession(heard[k].at) /\ b < BucketStart(heard[k].at)
                                    /\ heard[k].at = u
      BY DEF HeardAfter
    <3>7. heard[i] \in Open /\ heard[j] \in Open /\ heard[k] \in Open
      BY <3>3, <3>4, <3>5, <3>6
    <3>8. ~ (cut <= b)
      BY <2>5, <3>1, <3>4, <3>5, <3>6, <3>7 DEF LaterAtOnce
    <3>9. StoredIn(heard, store, s, b)
      BY <3>1, <3>2, <3>8 DEF StoredBefore
    <3> QED BY <2>2, <3>9
  <2> QED BY <2>3, <2>4, <2>5 DEF SettledBucketsStored
<1> QED BY <1>1, <1>2, <1>3, RecorderTypesHold, TicksInTimeHold, PTL DEF Spec

=============================================================================
