--------------------------- MODULE BacktestProofs ---------------------------
(***************************************************************************)
(* The backtest for every series, settlement, allowance and strategy.      *)
(***************************************************************************)
EXTENDS Backtest, SumsProofs

Trade == [signal : Nat, entry : Nat, exit : Nat, quantity : Nat, charged : Nat]

Settles(i) == SettleDate(bars[i].date)

BacktestTypes ==
  /\ bars \in Seq(Candle) /\ at \in Nat \ {0}
  /\ position # None => /\ position.entry \in 1 .. Len(bars) /\ position.quantity \in Nat
                        /\ position.settles = Settles(position.entry)
  /\ trades \in Seq(Trade)
  /\ \A k \in DOMAIN trades : /\ trades[k].entry \in 1 .. Len(bars)
                              /\ trades[k].exit \in 1 .. Len(bars)
  /\ executions \in [Months -> Nat]

(* What a position is bought for is a number of shares.                    *)
LEMMA SizeIs ==
  ASSUME NEW bar \in Candle
  PROVE  Size(bar) \in Int
<1>1. PICK q \in Int : q = (Capital * 1000) \div BuyPrice(bar)
  <2>1. bar.open \in Nat \ {0}
    BY DEF Candle, Price
  <2>2. PICK b \in Nat \ {0} : b = BuyPrice(bar)
    <3>1. 1000 + Slippage \in Nat \ {0}
      BY BacktestConstants
    <3>2. \A x, y \in Nat \ {0} : x * y \in Nat \ {0}
      OBVIOUS
    <3>3. bar.open * (1000 + Slippage) \in Nat \ {0}
      BY <2>1, <3>1, <3>2
    <3> QED BY <3>3 DEF BuyPrice
  <2>3. PICK c \in Nat : c = Capital * 1000
    BY BacktestConstants
  <2>4. c \div b \in Int
    OBVIOUS
  <2> QED BY <2>2, <2>3, <2>4
<1>2. PICK v \in Int : v = bar.volume \div VolumeDivisor
  <2>1. bar.volume \in Nat
    BY DEF Candle
  <2> QED BY <2>1, BacktestConstants
<1>3. Min({q, v}) \in Int
  BY MinOfTwo
<1> QED BY <1>1, <1>2, <1>3 DEF Size

LEMMA MonthsOfBars ==
  ASSUME bars \in Seq(Candle)
  PROVE  IsFiniteSet(Months) /\ \A i \in DOMAIN bars : Month(bars[i].date) \in Months
<1>1. PICK n \in Nat : DOMAIN bars = 1 .. n
  OBVIOUS
<1>2. PICK D : D = DOMAIN bars
  OBVIOUS
<1>3. IsFiniteSet(D)
  BY <1>1, <1>2, FS_Interval
<1> DEFINE f == [i \in D |-> Month(bars[i].date)]
           R == {Month(bars[i].date) : i \in D}
<1>4. f \in Surjection(D, R)
  BY DEF Surjection
<1>5. IsFiniteSet(R)
  <2> HIDE DEF f, R
  <2> QED BY <1>3, <1>4, FS_Surjection
<1> QED BY <1>2, <1>5 DEF Months

(* The bar of an exit is the first at which the shares can be delivered.   *)
IsFirstExit(j) ==
  /\ j \in at + 1 .. Len(bars) /\ bars[j].date >= position.settles
  /\ \A i \in at + 1 .. j - 1 : ~ (bars[i].date >= position.settles)

LEMMA FirstExit ==
  ASSUME BacktestTypes, ExitBars # {}
  PROVE  IsFirstExit(Min(ExitBars))
<1>1. PICK n \in Nat : n = Len(bars)
  BY DEF BacktestTypes
<1>2. at + 1 \in Int
  BY DEF BacktestTypes
<1>3. IsFiniteSet(at + 1 .. n)
  BY <1>2, FS_Interval
<1>4. ExitBars \in SUBSET (at + 1 .. n) /\ ExitBars \in SUBSET Int
  BY <1>1, <1>2 DEF ExitBars
<1>5. IsFiniteSet(ExitBars)
  BY <1>3, <1>4, FS_Subset
<1>6. PICK m \in ExitBars : m = Min(ExitBars) /\ \A y \in ExitBars : m <= y
  BY <1>4, <1>5, FiniteExtremes
<1>7. m \in at + 1 .. n /\ bars[m].date >= position.settles
  BY <1>1, <1>6 DEF ExitBars
<1>8. ASSUME NEW i \in at + 1 .. m - 1, bars[i].date >= position.settles PROVE FALSE
  <2>1. i \in at + 1 .. n
    BY <1>2, <1>7
  <2>2. i \in ExitBars
    BY <1>1, <1>8, <2>1 DEF ExitBars
  <2>3. m <= i
    BY <1>6, <2>2
  <2> QED BY <1>2, <1>7, <2>3
<1>9. IsFirstExit(m)
  BY <1>1, <1>7, <1>8 DEF IsFirstExit
<1> QED BY <1>6, <1>9

(* What an exit does, with its parts named.                                *)
IsTrade(t, exit) ==
  /\ t.signal = at /\ t.entry = position.entry /\ t.exit = exit
  /\ t.charged = Charged(executions, Month(bars[position.entry].date))
                 + Charged(Counted(executions, Month(bars[position.entry].date)),
                           Month(bars[exit].date))

LEMMA ExitIs ==
  ASSUME BacktestTypes, Exit
  PROVE  \E t \in Trade, exit \in 1 .. Len(bars) :
           /\ IsFirstExit(exit) /\ IsTrade(t, exit)
           /\ trades' = Append(trades, t)
           /\ executions' = Counted(Counted(executions, Month(bars[position.entry].date)),
                                    Month(bars[exit].date))
           /\ executions' \in [Months -> Nat]
           /\ position' = None /\ at' = at + 1 /\ strategy' = strategy /\ bars' = bars
<1>1. position # None /\ ExitBars # {}
  BY DEF Exit, CanExit
<1>2. PICK exit : exit = Min(ExitBars) /\ IsFirstExit(exit)
  BY <1>1, FirstExit
<1>3. /\ bars \in Seq(Candle) /\ at \in Nat \ {0} /\ executions \in [Months -> Nat]
      /\ position.entry \in 1 .. Len(bars) /\ position.quantity \in Nat
  BY <1>1 DEF BacktestTypes
<1>4. exit \in 1 .. Len(bars)
  <2>1. exit \in at + 1 .. Len(bars)
    BY <1>2 DEF IsFirstExit
  <2> QED BY <1>3, <2>1
<1>5. PICK em \in Months, xm \in Months : /\ em = Month(bars[position.entry].date)
                                          /\ xm = Month(bars[exit].date)
  BY <1>3, <1>4, MonthsOfBars
<1>6. /\ Counted(executions, em) \in [Months -> Nat]
      /\ Counted(Counted(executions, em), xm) \in [Months -> Nat]
  <2>1. ASSUME NEW c \in [Months -> Nat], NEW m \in Months PROVE Counted(c, m) \in [Months -> Nat]
    BY DEF Counted
  <2> QED BY <1>3, <2>1
<1>7. PICK charge \in Nat : charge = Charged(executions, em) + Charged(Counted(executions, em), xm)
  <2>1. \A c, m : Charged(c, m) \in Nat
    BY DEF Charged
  <2> QED BY <2>1
<1>8. PICK t : t = [signal |-> at, entry |-> position.entry, exit |-> exit,
                    quantity |-> position.quantity, charged |-> charge]
  OBVIOUS
<1>9. t \in Trade
  <2>1. at \in Nat /\ position.entry \in Nat /\ exit \in Nat
    BY <1>3, <1>4
  <2> QED BY <1>3, <1>7, <1>8, <2>1 DEF Trade
<1>10. IsTrade(t, exit)
  BY <1>5, <1>7, <1>8 DEF IsTrade
<1>11. /\ trades' = Append(trades, t)
       /\ executions' = Counted(Counted(executions, em), xm)
       /\ position' = None /\ at' = at + 1 /\ strategy' = strategy /\ bars' = bars
  BY <1>2, <1>5, <1>7, <1>8 DEF Exit, ExitMonth
<1> QED BY <1>2, <1>4, <1>5, <1>6, <1>9, <1>10, <1>11

LEMMA BacktestInit == Init => BacktestTypes
<1> SUFFICES ASSUME Init PROVE BacktestTypes
  OBVIOUS
<1>1. strategy \in {"any", "breakout", "baseline"} /\ bars \in Series(strategy)
  BY DEF Init
<1>2. bars \in Seq(Candle)
  BY <1>1, BacktestConstants
<1>3. at = 1 /\ position = None /\ trades = <<>> /\ executions = [m \in Months |-> 0]
  BY DEF Init
<1>4. trades \in Seq(Trade) /\ DOMAIN trades = {}
  BY <1>3
<1>5. executions \in [Months -> Nat]
  BY <1>3
<1> QED BY <1>2, <1>3, <1>4, <1>5 DEF BacktestTypes

LEMMA EnterTypes == BacktestTypes /\ Enter => BacktestTypes'
<1> SUFFICES ASSUME BacktestTypes, Enter PROVE BacktestTypes'
  OBVIOUS
<1>1. /\ at < Len(bars) /\ Size(Next1) > 0 /\ at' = at + 1
      /\ position' = [entry |-> at + 1, quantity |-> Size(Next1), settles |-> SettleDate(Next1.date)]
      /\ bars' = bars /\ trades' = trades /\ executions' = executions
  BY DEF Enter, CanEnter
<1>2. bars \in Seq(Candle) /\ at \in Nat \ {0}
  BY DEF BacktestTypes
<1>3. at + 1 \in 1 .. Len(bars) /\ at + 1 \in Nat \ {0}
  BY <1>1, <1>2
<1>4. Next1 \in Candle
  BY <1>2, <1>3 DEF Next1
<1>5. Size(Next1) \in Nat
  BY <1>1, <1>4, SizeIs
<1>6. /\ position'.entry = at + 1 /\ position'.quantity = Size(Next1)
      /\ position'.settles = Settles(at + 1)
  BY <1>1 DEF Next1, Settles
<1>7. Months' = Months
  BY <1>1 DEF Months
<1>8. /\ position'.entry \in 1 .. Len(bars') /\ position'.quantity \in Nat
      /\ position'.settles = SettleDate(bars'[position'.entry].date)
  BY <1>1, <1>3, <1>5, <1>6 DEF Settles
<1>9. /\ trades' \in Seq(Trade) /\ executions' \in [Months' -> Nat]
      /\ \A k \in DOMAIN trades' : trades'[k].entry \in 1 .. Len(bars') /\ trades'[k].exit \in 1 .. Len(bars')
  BY <1>1, <1>7 DEF BacktestTypes
<1> QED BY <1>1, <1>2, <1>3, <1>8, <1>9 DEF BacktestTypes, Settles

LEMMA ExitTypes == BacktestTypes /\ Exit => BacktestTypes'
<1> SUFFICES ASSUME BacktestTypes, Exit PROVE BacktestTypes'
  OBVIOUS
<1>1. PICK t \in Trade, exit \in 1 .. Len(bars) :
           /\ IsTrade(t, exit)
           /\ trades' = Append(trades, t)
           /\ executions' \in [Months -> Nat]
           /\ position' = None /\ at' = at + 1 /\ bars' = bars
  BY ExitIs
<1>2. /\ bars \in Seq(Candle) /\ at \in Nat \ {0} /\ trades \in Seq(Trade)
      /\ position.entry \in 1 .. Len(bars)
  BY DEF BacktestTypes, Exit
<1>3. Months' = Months
  BY <1>1 DEF Months
<1>4. PICK n \in Nat : n = Len(trades) /\ DOMAIN trades = 1 .. n
  BY <1>2
<1>5. /\ trades' \in Seq(Trade) /\ DOMAIN trades' = 1 .. n + 1
      /\ \A k \in 1 .. n : trades'[k] = trades[k]
      /\ trades'[n + 1] = t
  BY <1>1, <1>2, <1>4
<1>6. ASSUME NEW k \in DOMAIN trades'
      PROVE  trades'[k].entry \in 1 .. Len(bars) /\ trades'[k].exit \in 1 .. Len(bars)
  <2>1. CASE k = n + 1
    BY <1>1, <1>2, <1>5, <2>1 DEF IsTrade
  <2>2. CASE k \in 1 .. n
    BY <1>4, <1>5, <2>2 DEF BacktestTypes
  <2> QED BY <1>5, <2>1, <2>2
<1>7. at' \in Nat \ {0}
  BY <1>1, <1>2
<1> QED BY <1>1, <1>2, <1>3, <1>5, <1>6, <1>7 DEF BacktestTypes

(* A step that only moves on, or none.                                     *)
LEMMA StayTypes ==
  BacktestTypes /\ (Stay \/ UNCHANGED vars) => BacktestTypes'
<1> SUFFICES ASSUME BacktestTypes, Stay \/ UNCHANGED vars PROVE BacktestTypes'
  OBVIOUS
<1>1. /\ at' \in {at, at + 1} /\ bars' = bars /\ position' = position
      /\ trades' = trades /\ executions' = executions
  BY DEF Stay, vars
<1>2. at' \in Nat \ {0}
  BY <1>1 DEF BacktestTypes
<1>3. Months' = Months
  BY <1>1 DEF Months
<1> QED BY <1>1, <1>2, <1>3 DEF BacktestTypes, Settles

LEMMA BacktestTypesNext == BacktestTypes /\ [Next]_vars => BacktestTypes'
BY EnterTypes, ExitTypes, StayTypes DEF Next

(* The series is a sequence of candles, a position names the bar it was    *)
(* bought at and settles as that bar does, every trade names bars of the   *)
(* series, and the months of the series have a count.                      *)
THEOREM BacktestTypesHold == Spec => []BacktestTypes
<1>1. Init => BacktestTypes
  BY BacktestInit
<1>2. BacktestTypes /\ [Next]_vars => BacktestTypes'
  BY BacktestTypesNext
<1> QED BY <1>1, <1>2, PTL DEF Spec

----------------------------------------------------------------------------
LEMMA ExitsNext ==
  BacktestTypes /\ ExitsOnFirstDeliverableBar /\ [Next]_vars => ExitsOnFirstDeliverableBar'
<1> SUFFICES ASSUME BacktestTypes, ExitsOnFirstDeliverableBar, [Next]_vars
             PROVE  ExitsOnFirstDeliverableBar'
  OBVIOUS
<1>1. CASE trades' = trades /\ bars' = bars
  BY <1>1 DEF ExitsOnFirstDeliverableBar
<1>2. CASE Exit
  <2>1. PICK t \in Trade, exit \in 1 .. Len(bars) :
             /\ IsFirstExit(exit) /\ IsTrade(t, exit)
             /\ trades' = Append(trades, t) /\ bars' = bars
    BY <1>2, ExitIs
  <2>2. /\ bars \in Seq(Candle) /\ at \in Nat \ {0} /\ trades \in Seq(Trade)
        /\ position.settles = Settles(position.entry)
    BY <1>2 DEF BacktestTypes, Exit
  <2>3. PICK n \in Nat : n = Len(trades) /\ DOMAIN trades = 1 .. n
    BY <2>2
  <2>4. /\ DOMAIN trades' = 1 .. n + 1
        /\ \A k \in 1 .. n : trades'[k] = trades[k]
        /\ trades'[n + 1] = t
    BY <2>1, <2>2, <2>3
  <2>5. ASSUME NEW k \in DOMAIN trades'
        PROVE  LET u == trades'[k]
                   deliverable(j) == bars[j].date >= SettleDate(bars[u.entry].date)
               IN  /\ u.signal < u.exit /\ deliverable(u.exit)
                   /\ \A j \in u.signal + 1 .. u.exit - 1 : ~deliverable(j)
    <3>1. CASE k = n + 1
      <4>1. exit \in at + 1 .. Len(bars) /\ at < exit
        BY <2>1, <2>2 DEF IsFirstExit
      <4> QED BY <2>1, <2>2, <2>4, <3>1, <4>1 DEF IsFirstExit, IsTrade, Settles
    <3>2. CASE k \in 1 .. n
      BY <2>3, <2>4, <3>2 DEF ExitsOnFirstDeliverableBar
    <3> QED BY <2>4, <3>1, <3>2
  <2> QED BY <2>1, <2>5 DEF ExitsOnFirstDeliverableBar
<1> QED BY <1>1, <1>2 DEF Next, Enter, Stay, vars

(* Every trade is closed at the first bar after its signal at which the    *)
(* shares had settled, for every calendar and every series, whatever the   *)
(* strategy wants (_close_position, "the sell waits for settlement").      *)
THEOREM ExitsOnFirstHolds == Spec => []ExitsOnFirstDeliverableBar
<1>1. Init => ExitsOnFirstDeliverableBar
  BY DEF Init, ExitsOnFirstDeliverableBar
<1> QED BY <1>1, ExitsNext, BacktestTypesHold, PTL DEF Spec

----------------------------------------------------------------------------
(* What a month has above the allowance, and its sum over the months.      *)
Over(counts, m) == Max({0, counts[m] - FreeTrades})

LEMMA OverIs ==
  ASSUME NEW counts \in [Months -> Nat], NEW m \in Months
  PROVE  /\ Over(counts, m) = (IF counts[m] <= FreeTrades THEN 0 ELSE counts[m] - FreeTrades)
         /\ Over(counts, m) \in Nat
<1>1. PICK c \in Nat, f \in Nat : c = counts[m] /\ f = FreeTrades
  BY BacktestConstants
<1>2. Max({0, c - f}) = IF 0 <= c - f THEN c - f ELSE 0
  <2>1. c - f \in Int /\ 0 \in Int
    BY <1>1
  <2>2. PICK d \in Int : d = c - f
    BY <2>1
  <2>3. Max({0, d}) = IF 0 <= d THEN d ELSE 0
    BY MaxOfTwo
  <2> QED BY <2>2, <2>3
<1> QED BY <1>1, <1>2 DEF Over

LEMMA CountedIs ==
  ASSUME NEW counts \in [Months -> Nat], NEW m \in Months
  PROVE  /\ Counted(counts, m) \in [Months -> Nat]
         /\ Counted(counts, m)[m] = counts[m] + 1
         /\ \A x \in Months \ {m} : Counted(counts, m)[x] = counts[x]
BY DEF Counted

(* Counting an execution adds to the excess what it is charged.            *)
LEMMA ExcessCounted ==
  ASSUME bars \in Seq(Candle), NEW counts \in [Months -> Nat], NEW m \in Months
  PROVE  /\ Excess(Counted(counts, m)) = Excess(counts) + Charged(counts, m)
         /\ Excess(counts) \in Nat
<1>0. PICK N \in Nat : N = Cardinality(Months)
  BY MonthsOfBars, SetToSeqFacts
<1>1. PICK months \in [1 .. N -> Months] :
         /\ months = SetToSeq(Months)
         /\ \A x \in Months : \E i \in 1 .. N : months[i] = x
         /\ \A i, j \in 1 .. N : months[i] = months[j] => i = j
  BY <1>0, MonthsOfBars, SetToSeqFacts
<1>2. PICK k \in 1 .. N : months[k] = m
  BY <1>1
<1> DEFINE a == [i \in 1 .. N |-> Over(counts, months[i])]
           b == [i \in 1 .. N |-> Over(Counted(counts, m), months[i])]
           x == Over(Counted(counts, m), m)
<1>3. Excess(counts) = SumOf(a) /\ Excess(Counted(counts, m)) = SumOf(b)
  <2>1. DOMAIN months = 1 .. N
    OBVIOUS
  <2> QED BY <1>1, <2>1 DEF Excess, Over
<1>4. Counted(counts, m) \in [Months -> Nat]
  BY CountedIs
<1>5. a \in [1 .. N -> Nat] /\ x \in Nat
  <2>1. ASSUME NEW i \in 1 .. N PROVE Over(counts, months[i]) \in Nat
    BY OverIs
  <2>2. x \in Nat
    BY <1>4, OverIs
  <2> QED BY <2>1, <2>2
<1>6. b = [a EXCEPT ![k] = x]
  <2>1. ASSUME NEW i \in 1 .. N, i # k PROVE b[i] = a[i]
    <3>1. months[i] \in Months \ {m}
      BY <1>1, <1>2, <2>1
    <3>2. Counted(counts, m)[months[i]] = counts[months[i]]
      BY <3>1, CountedIs
    <3> QED BY <3>2 DEF Over
  <2>2. b[k] = x
    BY <1>2
  <2> QED BY <2>1, <2>2
<1>7. a \in [1 .. N -> Int] /\ x \in Int /\ a \in Seq(Nat)
  BY <1>5
<1>8. SumOf([a EXCEPT ![k] = x]) = SumOf(a) - a[k] + x
  <2> HIDE DEF a, x
  <2> QED BY <1>7, SumOfUpdate
<1>9. a[k] = Over(counts, m)
  BY <1>2
<1>10. SumOf(a) \in Nat
  <2> HIDE DEF a
  <2> QED BY <1>7, SumOfNat
<1>11. x = Over(counts, m) + Charged(counts, m) /\ Charged(counts, m) \in Nat
  <2>1. PICK c \in Nat, f \in Nat : c = counts[m] /\ f = FreeTrades
    BY BacktestConstants
  <2>2. Over(counts, m) = IF c <= f THEN 0 ELSE c - f
    BY <2>1, OverIs
  <2>3. x = IF c + 1 <= f THEN 0 ELSE c + 1 - f
    <3>1. PICK more \in [Months -> Nat] : more = Counted(counts, m)
      BY <1>4
    <3>2. more[m] = c + 1
      BY <2>1, <3>1, CountedIs
    <3>3. Over(more, m) = IF more[m] <= FreeTrades THEN 0 ELSE more[m] - FreeTrades
      BY OverIs
    <3> QED BY <2>1, <3>1, <3>2, <3>3
  <2>4. Charged(counts, m) = IF c < f THEN 0 ELSE 1
    BY <2>1 DEF Charged
  <2> HIDE DEF x
  <2> QED BY <2>1, <2>2, <2>3, <2>4
<1>12. Over(counts, m) \in Nat
  BY OverIs
<1> HIDE DEF a, b, x
<1> QED BY <1>3, <1>6, <1>8, <1>9, <1>10, <1>11, <1>12

LEMMA ExcessOfNone ==
  ASSUME bars \in Seq(Candle)
  PROVE  Excess([m \in Months |-> 0]) = 0
<1> DEFINE counts == [m \in Months |-> 0]
<1>0. PICK N \in Nat : N = Cardinality(Months)
  BY MonthsOfBars, SetToSeqFacts
<1>1. PICK months \in [1 .. N -> Months] : months = SetToSeq(Months)
  BY <1>0, MonthsOfBars, SetToSeqFacts
<1> DEFINE a == [i \in 1 .. N |-> Over(counts, months[i])]
<1>2. Excess(counts) = SumOf(a)
  <2>1. DOMAIN months = 1 .. N
    OBVIOUS
  <2> QED BY <1>1, <2>1 DEF Excess, Over
<1>3. ASSUME NEW i \in 1 .. N PROVE Over(counts, months[i]) = 0
  <2>1. counts \in [Months -> Nat] /\ months[i] \in Months /\ counts[months[i]] = 0
    OBVIOUS
  <2>2. Over(counts, months[i]) = IF counts[months[i]] <= FreeTrades THEN 0 ELSE counts[months[i]] - FreeTrades
    <3> HIDE DEF counts
    <3> QED BY <2>1, OverIs
  <2> HIDE DEF counts
  <2> QED BY <2>1, <2>2, BacktestConstants
<1>4. a \in Seq(Int) /\ \A i \in DOMAIN a : a[i] = 0
  BY <1>3
<1>5. SumOf(a) = 0
  <2> HIDE DEF a
  <2> QED BY <1>4, SumOfZeros
<1> QED BY <1>2, <1>5

(* A further trade is an entry of one month and an exit of one month.      *)
LEMMA OneMore ==
  ASSUME NEW n \in Nat, NEW S \in SUBSET (1 .. n), NEW b \in BOOLEAN
  PROVE  /\ Cardinality(S) \in Nat
         /\ Cardinality(IF b THEN S \cup {n + 1} ELSE S) = Cardinality(S) + IF b THEN 1 ELSE 0
<1>1. IsFiniteSet(S)
  <2>1. IsFiniteSet(1 .. n)
    BY FS_Interval
  <2> QED BY <2>1, FS_Subset
<1>2. Cardinality(S) \in Nat
  BY <1>1, FS_CardinalityType
<1>3. n + 1 \notin S
  OBVIOUS
<1>4. Cardinality(S \cup {n + 1}) = Cardinality(S) + 1
  BY <1>1, <1>3, FS_AddElement
<1> QED BY <1>2, <1>4

LEMMA AllowanceNext ==
  BacktestTypes /\ AllowanceCountsTrades /\ [Next]_vars => AllowanceCountsTrades'
<1> SUFFICES ASSUME BacktestTypes, AllowanceCountsTrades, [Next]_vars
             PROVE  AllowanceCountsTrades'
  OBVIOUS
<1>1. CASE trades' = trades /\ bars' = bars /\ executions' = executions
  <2>1. Months' = Months /\ \A m : EntriesIn(m)' = EntriesIn(m) /\ ExitsIn(m)' = ExitsIn(m)
    BY <1>1 DEF Months, EntriesIn, ExitsIn
  <2>2. Excess(executions)' = Excess(executions)
    BY <1>1, <2>1 DEF Excess
  <2> QED BY <1>1, <2>1, <2>2 DEF AllowanceCountsTrades
<1>2. CASE Exit
  <2>1. PICK t \in Trade, exit \in 1 .. Len(bars) :
             /\ IsTrade(t, exit)
             /\ trades' = Append(trades, t) /\ bars' = bars
             /\ executions' = Counted(Counted(executions, Month(bars[position.entry].date)),
                                      Month(bars[exit].date))
    BY <1>2, ExitIs
  <2>2. /\ bars \in Seq(Candle) /\ at \in Nat \ {0} /\ trades \in Seq(Trade)
        /\ position.entry \in 1 .. Len(bars) /\ executions \in [Months -> Nat]
    BY <1>2 DEF BacktestTypes, Exit
  <2>3. PICK em \in Months, xm \in Months : /\ em = Month(bars[position.entry].date)
                                            /\ xm = Month(bars[exit].date)
    BY <2>2, MonthsOfBars
  <2>4. PICK once \in [Months -> Nat] : once = Counted(executions, em)
    BY <2>2, CountedIs
  <2>5. /\ executions' = Counted(once, xm) /\ Months' = Months
        /\ t.charged = Charged(executions, em) + Charged(once, xm)
        /\ Month(bars[t.entry].date) = em /\ Month(bars[t.exit].date) = xm
    BY <2>1, <2>3, <2>4 DEF IsTrade, Months
  <2>6. PICK n \in Nat : n = Len(trades) /\ DOMAIN trades = 1 .. n
    BY <2>2
  <2>7. /\ DOMAIN trades' = 1 .. n + 1
        /\ \A k \in 1 .. n : trades'[k] = trades[k]
        /\ trades'[n + 1] = t
    BY <2>1, <2>2, <2>6
  <2>8. ASSUME NEW m \in Months
        PROVE  executions'[m] = Cardinality(EntriesIn(m)') + Cardinality(ExitsIn(m)')
    <3>1. EntriesIn(m) \in SUBSET (1 .. n) /\ ExitsIn(m) \in SUBSET (1 .. n)
      BY <2>6 DEF EntriesIn, ExitsIn
    <3>2. EntriesIn(m)' = IF m = em THEN EntriesIn(m) \cup {n + 1} ELSE EntriesIn(m)
      BY <2>1, <2>5, <2>6, <2>7 DEF EntriesIn
    <3>3. ExitsIn(m)' = IF m = xm THEN ExitsIn(m) \cup {n + 1} ELSE ExitsIn(m)
      BY <2>1, <2>5, <2>6, <2>7 DEF ExitsIn
    <3>4. PICK e \in Nat, x \in Nat : /\ e = Cardinality(EntriesIn(m)) /\ x = Cardinality(ExitsIn(m))
                                      /\ Cardinality(EntriesIn(m)') = e + (IF m = em THEN 1 ELSE 0)
                                      /\ Cardinality(ExitsIn(m)') = x + (IF m = xm THEN 1 ELSE 0)
      <4>1. (m = em) \in BOOLEAN /\ (m = xm) \in BOOLEAN
        OBVIOUS
      <4>2. /\ Cardinality(EntriesIn(m)) \in Nat
            /\ Cardinality(EntriesIn(m)') = Cardinality(EntriesIn(m)) + (IF m = em THEN 1 ELSE 0)
        BY <3>1, <3>2, <4>1, OneMore
      <4>3. /\ Cardinality(ExitsIn(m)) \in Nat
            /\ Cardinality(ExitsIn(m)') = Cardinality(ExitsIn(m)) + (IF m = xm THEN 1 ELSE 0)
        BY <3>1, <3>3, <4>1, OneMore
      <4> QED BY <4>2, <4>3
    <3>5. executions[m] = e + x
      BY <3>4 DEF AllowanceCountsTrades
    <3>6. once[m] = executions[m] + (IF m = em THEN 1 ELSE 0)
      <4>1. executions[m] \in Nat
        BY <2>2
      <4>2. /\ once[em] = executions[em] + 1
            /\ \A k \in Months \ {em} : once[k] = executions[k]
        BY <2>2, <2>4, CountedIs
      <4> QED BY <4>1, <4>2
    <3>7. executions'[m] = once[m] + (IF m = xm THEN 1 ELSE 0)
      <4>1. once[m] \in Nat
        OBVIOUS
      <4>2. /\ executions'[xm] = once[xm] + 1
            /\ \A k \in Months \ {xm} : executions'[k] = once[k]
        BY <2>5, CountedIs
      <4> QED BY <4>1, <4>2
    <3> QED BY <3>4, <3>5, <3>6, <3>7
  <2>9. SumOf([k \in DOMAIN trades' |-> trades'[k].charged]) = Excess(executions')
    <3> DEFINE charges == [k \in DOMAIN trades |-> trades[k].charged]
    <3>1. charges \in Seq(Int) /\ Len(charges) = n /\ t.charged \in Int
      <4>1. \A k \in 1 .. n : trades[k] \in Trade
        BY <2>2, <2>6
      <4>2. \A k \in 1 .. n : trades[k].charged \in Int
        BY <4>1 DEF Trade
      <4>3. t.charged \in Int
        BY DEF Trade
      <4> QED BY <2>6, <4>2, <4>3
    <3>2. [k \in DOMAIN trades' |-> trades'[k].charged] = Append(charges, t.charged)
      <4>1. \A k \in 1 .. n + 1 : trades'[k].charged = IF k = n + 1 THEN t.charged ELSE charges[k]
        BY <2>6, <2>7
      <4>2. Append(charges, t.charged) = [k \in 1 .. n + 1 |-> IF k = n + 1 THEN t.charged ELSE charges[k]]
        <5> HIDE DEF charges
        <5> QED BY <3>1
      <4> QED BY <2>7, <4>1, <4>2
    <3>3. SumOf(Append(charges, t.charged)) = SumOf(charges) + t.charged
      <4>1. PICK x \in Int : x = t.charged
        BY <3>1
      <4> HIDE DEF charges
      <4> QED BY <3>1, <4>1, SumOfAppend
    <3>4. SumOf(charges) = Excess(executions)
      BY DEF AllowanceCountsTrades
    <3>5. Excess(once) = Excess(executions) + Charged(executions, em) /\ Excess(executions) \in Nat
      BY <2>2, <2>4, ExcessCounted
    <3>6. Excess(executions') = Excess(once) + Charged(once, xm)
      BY <2>2, <2>5, ExcessCounted
    <3>7. Charged(executions, em) \in Nat /\ Charged(once, xm) \in Nat
      BY DEF Charged
    <3> HIDE DEF charges
    <3>8. PICK first \in Nat, second \in Nat, over \in Nat :
             first = Charged(executions, em) /\ second = Charged(once, xm) /\ over = Excess(executions)
      BY <3>5, <3>7
    <3>9. SumOf(Append(charges, t.charged)) = over + (first + second)
      BY <2>5, <3>3, <3>4, <3>8
    <3>10. Excess(executions') = over + first + second
      BY <3>5, <3>6, <3>8
    <3>11. over + (first + second) = over + first + second
      OBVIOUS
    <3>12. SumOf(Append(charges, t.charged)) = Excess(executions')
      BY <3>9, <3>10, <3>11, Zenon
    <3> QED BY <3>2, <3>12, Zenon
  <2>10. Excess(executions)' = Excess(executions')
    BY <2>5 DEF Excess
  <2> QED BY <2>5, <2>8, <2>9, <2>10 DEF AllowanceCountsTrades
<1> QED BY <1>1, <1>2 DEF Next, Enter, Stay, vars

(* Each side of each trade is counted in the month it is dated, and the    *)
(* commissions charged are just what exceeds the monthly allowance, for    *)
(* every series, calendar and allowance (CostModel, _close_position).      *)
THEOREM AllowanceHolds == Spec => []AllowanceCountsTrades
<1>1. Init => AllowanceCountsTrades
  <2> SUFFICES ASSUME Init PROVE AllowanceCountsTrades
    OBVIOUS
  <2>1. bars \in Seq(Candle)
    BY BacktestInit DEF BacktestTypes
  <2>2. executions = [m \in Months |-> 0] /\ trades = <<>>
    BY DEF Init
  <2>3. Excess(executions) = 0
    BY <2>1, <2>2, ExcessOfNone
  <2>4. [k \in DOMAIN trades |-> trades[k].charged] = <<>>
    BY <2>2
  <2>5. SumOf([k \in DOMAIN trades |-> trades[k].charged]) = 0
    BY <2>4, SumOfEmpty
  <2>6. \A m \in Months : EntriesIn(m) = {} /\ ExitsIn(m) = {} /\ executions[m] = 0
    BY <2>2 DEF EntriesIn, ExitsIn
  <2>7. \A m \in Months : Cardinality(EntriesIn(m)) = 0 /\ Cardinality(ExitsIn(m)) = 0
    BY <2>6, FS_EmptySet
  <2>8. \A m \in Months : executions[m] = Cardinality(EntriesIn(m)) + Cardinality(ExitsIn(m))
    BY <2>6, <2>7
  <2> QED BY <2>3, <2>5, <2>8, Zenon DEF AllowanceCountsTrades
<1> QED BY <1>1, AllowanceNext, BacktestTypesHold, PTL DEF Spec

----------------------------------------------------------------------------
(* Two sequences that agree up to i.  What an indicator says of bar i is   *)
(* shown to be the same of both, the longer one and the one that ends.     *)
SameUpTo(a, b, i) ==
  i \in DOMAIN a /\ i \in DOMAIN b /\ \A j \in 1 .. i : a[j] = b[j]

LEMMA SameBefore ==
  ASSUME NEW a, NEW b, NEW i \in Nat, NEW A, a \in Seq(A), b \in Seq(A),
         SameUpTo(a, b, i), NEW j \in 1 .. i
  PROVE  SameUpTo(a, b, j) /\ a[j] = b[j]
BY DEF SameUpTo

LEMMA EndingSame ==
  ASSUME NEW a \in Seq(Int), NEW b \in Seq(Int), NEW i \in Nat, SameUpTo(a, b, i),
         NEW p \in Nat \ {0}, p <= i
  PROVE  /\ Ending(a, i, p) = Ending(b, i, p)
         /\ Ending(a, i, p) \in Seq(Int) /\ Len(Ending(a, i, p)) = p
<1>1. PICK m \in Int : m = i - p + 1
  OBVIOUS
<1>2. m >= 1 /\ m <= i /\ i - m + 1 = p
  BY <1>1
<1>3. \A j \in m .. i : a[j] \in Int /\ b[j] \in Int /\ a[j] = b[j]
  BY <1>2 DEF SameUpTo
<1>4. /\ SubSeq(a, m, i) \in Seq(Int) /\ Len(SubSeq(a, m, i)) = p
      /\ \A j \in 1 .. p : SubSeq(a, m, i)[j] = a[m + j - 1]
  BY <1>2, <1>3, SubSeqProperties
<1>5. /\ SubSeq(b, m, i) \in Seq(Int) /\ Len(SubSeq(b, m, i)) = p
      /\ \A j \in 1 .. p : SubSeq(b, m, i)[j] = b[m + j - 1]
  BY <1>2, <1>3, SubSeqProperties
<1>6. \A j \in 1 .. p : m + j - 1 \in m .. i
  BY <1>2
<1>7. SubSeq(a, m, i) = SubSeq(b, m, i)
  <2>1. PICK s \in Seq(Int), t \in Seq(Int) : s = SubSeq(a, m, i) /\ t = SubSeq(b, m, i)
    BY <1>4, <1>5
  <2>2. \A j \in 1 .. p : s[j] = t[j]
    BY <1>3, <1>4, <1>5, <1>6, <2>1
  <2>3. Len(s) = p /\ Len(t) = p
    BY <1>4, <1>5, <2>1
  <2>4. s = t
    BY <2>2, <2>3, SeqEqual
  <2> QED BY <2>1, <2>4
<1> QED BY <1>1, <1>4, <1>7 DEF Ending

LEMMA SmaSame ==
  ASSUME NEW a \in Seq(Int), NEW b \in Seq(Int), NEW i \in Nat, SameUpTo(a, b, i),
         NEW p \in Nat \ {0}
  PROVE  Sma(a, p)[i] = Sma(b, p)[i]
<1>1. i \in DOMAIN a /\ i \in DOMAIN b
  BY DEF SameUpTo
<1>2. ~(i < p) => Mean(Ending(a, i, p)) = Mean(Ending(b, i, p))
  BY EndingSame
<1> QED BY <1>1, <1>2 DEF Sma

(* The smoothing of Wilder is a loop over the values.  A mean is a sum and *)
(* what it is over.                                                        *)
Means == [sum : Int, over : Nat \ {0}]

Smooths(out, values, p) ==
  \A i \in DOMAIN values :
    out[i] = CASE i < p -> None
               [] i = p -> [sum |-> SumOf(Ending(values, i, p)), over |-> p]
               [] OTHER -> Decayed(out[i - 1], values[i], p)

MeanStep(x, n, values, p) ==
  CASE n < p -> None
    [] n = p -> [sum |-> SumOf(Ending(values, n, p)), over |-> p]
    [] OTHER -> IF x \in Means THEN Decayed(x, values[n], p) ELSE None

LEMMA PositiveTimes ==
  ASSUME NEW x \in Nat \ {0}, NEW y \in Nat \ {0}
  PROVE  x * y \in Nat \ {0}
<1>1. x * y \in Int /\ x * y >= 1
  OBVIOUS
<1> QED BY <1>1

LEMMA DecayedType ==
  ASSUME NEW mean \in Means, NEW value \in Int, NEW p \in Nat \ {0}
  PROVE  Decayed(mean, value, p) \in Means
<1>1. PICK s \in Int, o \in Nat \ {0} : s = mean.sum /\ o = mean.over
  BY DEF Means
<1>2. s * (p - 1) + value * o \in Int
  OBVIOUS
<1>3. o * p \in Nat \ {0}
  BY PositiveTimes
<1> QED BY <1>1, <1>2, <1>3 DEF Decayed, Means

LEMMA FirstMean ==
  ASSUME NEW values \in Seq(Int), NEW p \in Nat \ {0}, p <= Len(values)
  PROVE  [sum |-> SumOf(Ending(values, p, p)), over |-> p] \in Means
<1>1. SameUpTo(values, values, p)
  BY DEF SameUpTo
<1>2. Ending(values, p, p) \in Seq(Int)
  BY <1>1, EndingSame
<1>3. SumOf(Ending(values, p, p)) \in Int
  BY <1>2, SumOfFacts
<1> QED BY <1>3 DEF Means

LEMMA WilderExists ==
  ASSUME NEW values \in Seq(Int), NEW p \in Nat \ {0}
  PROVE  \E g \in [0 .. Len(values) -> Means \cup {None}] : Smooths(g, values, p)
<1> DEFINE A == Means \cup {None}
           F == [x \in A \X (1 .. Len(values)) |-> MeanStep(x[1], x[2], values, p)]
<1>1. PICK N \in Nat : N = Len(values) /\ DOMAIN values = 1 .. N
  OBVIOUS
<1>2. ASSUME NEW x \in A, NEW n \in 1 .. N PROVE MeanStep(x, n, values, p) \in A
  <2>1. n = p => [sum |-> SumOf(Ending(values, n, p)), over |-> p] \in Means
    BY <1>1, FirstMean
  <2>2. x \in Means => Decayed(x, values[n], p) \in Means
    BY <1>1, DecayedType
  <2> QED BY <2>1, <2>2 DEF MeanStep
<1>3. F \in [A \X (1 .. N) -> A]
  BY <1>1, <1>2
<1>4. PICK g : IsLoop(g, N, A, None, F)
  <2>1. None \in A
    OBVIOUS
  <2> HIDE DEF A, F
  <2> QED BY <1>3, <2>1, LoopExists
<1>5. g \in [0 .. N -> A] /\ g[0] = None
  BY <1>4 DEF IsLoop
<1>6. ASSUME NEW n \in 1 .. N PROVE g[n] = MeanStep(g[n - 1], n, values, p)
  <2>1. g[n] = F[<<g[n - 1], n>>]
    BY <1>4 DEF IsLoop
  <2>2. g[n - 1] \in A
    BY <1>5
  <2> QED BY <1>1, <2>1, <2>2
<1> DEFINE S == {n \in 0 .. N : n >= p => g[n] \in Means}
<1>7. \A n \in 0 .. N : n \in S
  <2>1. 0 \in S
    OBVIOUS
  <2>2. ASSUME NEW n \in 0 .. N - 1, n \in S PROVE n + 1 \in S
    <3>1. n + 1 \in 1 .. N /\ (n + 1) - 1 = n
      OBVIOUS
    <3>2. g[n + 1] = MeanStep(g[n], n + 1, values, p)
      BY <1>6, <3>1
    <3>3. CASE n + 1 < p
      BY <3>1, <3>3
    <3>4. CASE n + 1 = p
      <4>1. g[n + 1] = [sum |-> SumOf(Ending(values, p, p)), over |-> p]
        BY <3>2, <3>4 DEF MeanStep
      <4>2. g[n + 1] \in Means
        BY <1>1, <3>1, <3>4, <4>1, FirstMean
      <4> QED BY <3>1, <4>2
    <3>5. CASE n + 1 > p
      <4>1. g[n] \in Means
        BY <2>2, <3>5
      <4>2. g[n + 1] = Decayed(g[n], values[n + 1], p)
        BY <3>2, <3>5, <4>1 DEF MeanStep
      <4>3. values[n + 1] \in Int
        BY <1>1, <3>1
      <4>4. g[n + 1] \in Means
        BY <4>1, <4>2, <4>3, DecayedType
      <4> QED BY <3>1, <4>4
    <3> QED BY <3>1, <3>3, <3>4, <3>5
  <2>3. S \in SUBSET (0 .. N)
    OBVIOUS
  <2> HIDE DEF S
  <2> QED BY <2>1, <2>2, <2>3, LoopInduction
<1>8. ASSUME NEW i \in 1 .. N
      PROVE  g[i] = CASE i < p -> None
                      [] i = p -> [sum |-> SumOf(Ending(values, i, p)), over |-> p]
                      [] OTHER -> Decayed(g[i - 1], values[i], p)
  <2>1. i - 1 \in 0 .. N /\ (i > p => i - 1 >= p)
    OBVIOUS
  <2>2. i > p => g[i - 1] \in Means
    BY <1>7, <2>1
  <2> QED BY <1>6, <2>2 DEF MeanStep
<1> QED BY <1>1, <1>5, <1>8 DEF Smooths

LEMMA WilderIs ==
  ASSUME NEW values \in Seq(Int), NEW p \in Nat \ {0}
  PROVE  Smooths(WilderSmooth(values, p), values, p)
<1> DEFINE Body(f) ==
             [i \in DOMAIN values |->
                CASE i < p -> None
                  [] i = p -> [sum |-> SumOf(Ending(values, i, p)), over |-> p]
                  [] OTHER -> Decayed(f[i - 1], values[i], p)]
           out == CHOOSE f : f = Body(f)
<1>1. PICK g : Smooths(g, values, p)
  BY WilderExists
<1> DEFINE h == [i \in DOMAIN values |-> g[i]]
<1>2. h = Body(h)
  <2>1. ASSUME NEW i \in DOMAIN values PROVE h[i] = Body(h)[i]
    <3>1. g[i] = CASE i < p -> None
                   [] i = p -> [sum |-> SumOf(Ending(values, i, p)), over |-> p]
                   [] OTHER -> Decayed(g[i - 1], values[i], p)
      BY <1>1 DEF Smooths
    <3>2. i > p => h[i - 1] = g[i - 1]
      OBVIOUS
    <3> QED BY <3>1, <3>2
  <2> QED BY <2>1
<1>3. out = Body(out)
  <2> HIDE DEF Body, h
  <2> QED BY <1>2
<1>4. Smooths(out, values, p)
  <2> HIDE DEF out
  <2> QED BY <1>3 DEF Smooths
<1>5. WilderSmooth(values, p) = out
  BY DEF WilderSmooth
<1> QED BY <1>4, <1>5

LEMMA WilderSame ==
  ASSUME NEW a \in Seq(Int), NEW b \in Seq(Int), NEW i \in Nat, SameUpTo(a, b, i),
         NEW p \in Nat \ {0}
  PROVE  WilderSmooth(a, p)[i] = WilderSmooth(b, p)[i]
<1>1. PICK f, g : /\ f = WilderSmooth(a, p) /\ Smooths(f, a, p)
                  /\ g = WilderSmooth(b, p) /\ Smooths(g, b, p)
  BY WilderIs
<1> DEFINE S == {n \in 0 .. i : n = 0 \/ f[n] = g[n]}
<1>2. i \in DOMAIN a /\ i \in DOMAIN b /\ i >= 1
  BY DEF SameUpTo
<1>3. ASSUME NEW n \in 0 .. i - 1, n \in S PROVE n + 1 \in S
  <2>1. n + 1 \in 1 .. i /\ n + 1 \in DOMAIN a /\ n + 1 \in DOMAIN b /\ (n + 1) - 1 = n
    BY <1>2
  <2>2. SameUpTo(a, b, n + 1) /\ a[n + 1] = b[n + 1]
    BY <2>1, SameBefore
  <2>3. n + 1 = p => SumOf(Ending(a, n + 1, p)) = SumOf(Ending(b, n + 1, p))
    BY <2>1, <2>2, EndingSame
  <2>4. n + 1 > p => f[n] = g[n]
    BY <1>3
  <2>5. /\ f[n + 1] = CASE n + 1 < p -> None
                        [] n + 1 = p -> [sum |-> SumOf(Ending(a, n + 1, p)), over |-> p]
                        [] OTHER -> Decayed(f[n], a[n + 1], p)
        /\ g[n + 1] = CASE n + 1 < p -> None
                        [] n + 1 = p -> [sum |-> SumOf(Ending(b, n + 1, p)), over |-> p]
                        [] OTHER -> Decayed(g[n], b[n + 1], p)
    BY <1>1, <2>1 DEF Smooths
  <2>6. f[n + 1] = g[n + 1]
    <3>1. n + 1 < p \/ n + 1 = p \/ n + 1 > p
      OBVIOUS
    <3>2. CASE n + 1 < p
      BY <2>5, <3>2
    <3>3. CASE n + 1 = p
      BY <2>3, <2>5, <3>3
    <3>4. CASE n + 1 > p
      BY <2>2, <2>4, <2>5, <3>4
    <3> QED BY <3>1, <3>2, <3>3, <3>4
  <2> QED BY <2>1, <2>6
<1>4. \A n \in 0 .. i : n \in S
  <2>1. 0 \in S /\ S \in SUBSET (0 .. i)
    OBVIOUS
  <2> HIDE DEF S
  <2> QED BY <1>3, <2>1, LoopInduction
<1> QED BY <1>1, <1>2, <1>4

----------------------------------------------------------------------------
(* What the indicators are made of.                                        *)
LEMMA CandleIs ==
  ASSUME NEW a \in Seq(Candle), NEW i \in DOMAIN a
  PROVE  /\ a[i].high \in Int /\ a[i].low \in Int /\ a[i].close \in Int /\ a[i].volume \in Int
<1>1. a[i] \in Candle
  OBVIOUS
<1> QED BY <1>1 DEF Candle, Price

LEMMA ClosesSame ==
  ASSUME NEW a \in Seq(Candle), NEW b \in Seq(Candle), NEW i \in Nat, SameUpTo(a, b, i)
  PROVE  /\ Closes(a) \in Seq(Int) /\ Closes(b) \in Seq(Int) /\ SameUpTo(Closes(a), Closes(b), i)
         /\ Volumes(a) \in Seq(Int) /\ Volumes(b) \in Seq(Int) /\ SameUpTo(Volumes(a), Volumes(b), i)
<1>1. ASSUME NEW s \in Seq(Candle)
      PROVE  Closes(s) \in Seq(Int) /\ Volumes(s) \in Seq(Int)
  <2>1. PICK n \in Nat : n = Len(s) /\ DOMAIN s = 1 .. n
    OBVIOUS
  <2>2. \A j \in 1 .. n : s[j].close \in Int /\ s[j].volume \in Int
    BY <2>1, CandleIs
  <2>3. /\ Closes(s) = [j \in 1 .. n |-> s[j].close]
        /\ Volumes(s) = [j \in 1 .. n |-> s[j].volume]
    BY <2>1 DEF Closes, Volumes
  <2> QED BY <2>2, <2>3
<1>2. \A j \in 1 .. i : j \in DOMAIN a /\ j \in DOMAIN b /\ a[j] = b[j]
  BY DEF SameUpTo
<1>3. SameUpTo(Closes(a), Closes(b), i)
  BY <1>2 DEF SameUpTo, Closes
<1>4. SameUpTo(Volumes(a), Volumes(b), i)
  BY <1>2 DEF SameUpTo, Volumes
<1> QED BY <1>1, <1>3, <1>4

LEMMA RangeIs ==
  ASSUME NEW a \in Seq(Candle), NEW k \in 1 .. Len(a) - 1
  PROVE  TrueRange(a, k + 1) \in Int
<1>1. k + 1 \in DOMAIN a /\ k \in DOMAIN a /\ (k + 1) - 1 = k
  OBVIOUS
<1>2. PICK h \in Int, l \in Int, c \in Int : h = a[k + 1].high /\ l = a[k + 1].low /\ c = a[k].close
  BY <1>1, CandleIs
<1>3. PICK x \in Int, y \in Int : x = Max({h, c}) /\ y = Min({l, c})
  BY MaxOfTwo, MinOfTwo
<1>4. TrueRange(a, k + 1) = x - y
  BY <1>1, <1>2, <1>3 DEF TrueRange
<1> QED BY <1>4

LEMMA RangesSame ==
  ASSUME NEW a \in Seq(Candle), NEW b \in Seq(Candle), NEW i \in Nat, i > 1, SameUpTo(a, b, i)
  PROVE  Ranges(a) \in Seq(Int) /\ Ranges(b) \in Seq(Int) /\ SameUpTo(Ranges(a), Ranges(b), i - 1)
<1>1. ASSUME NEW s \in Seq(Candle) PROVE Ranges(s) \in Seq(Int)
  <2>1. PICK n \in Nat : n = Len(s)
    OBVIOUS
  <2>2. CASE n = 0
    <3>1. 1 .. n - 1 = 1 .. 0
      BY <2>2
    <3>2. Ranges(s) = [k \in 1 .. 0 |-> TrueRange(s, k + 1)]
      BY <2>1, <3>1 DEF Ranges
    <3> QED BY <3>2
  <2>3. CASE n > 0
    <3>1. n - 1 \in Nat
      BY <2>3
    <3>2. \A k \in 1 .. n - 1 : TrueRange(s, k + 1) \in Int
      BY <2>1, RangeIs
    <3>3. Ranges(s) = [k \in 1 .. n - 1 |-> TrueRange(s, k + 1)]
      BY <2>1 DEF Ranges
    <3> QED BY <3>1, <3>2, <3>3
  <2> QED BY <2>2, <2>3
<1>2. i <= Len(a) /\ i <= Len(b) /\ \A j \in 1 .. i : a[j] = b[j]
  BY DEF SameUpTo
<1>3. ASSUME NEW j \in 1 .. i - 1 PROVE Ranges(a)[j] = Ranges(b)[j]
  <2>1. j \in 1 .. Len(a) - 1 /\ j \in 1 .. Len(b) - 1
    BY <1>2
  <2>2. a[j] = b[j] /\ a[j + 1] = b[j + 1] /\ (j + 1) - 1 = j
    BY <1>2
  <2>3. TrueRange(a, j + 1) = TrueRange(b, j + 1)
    BY <2>2 DEF TrueRange
  <2> QED BY <2>1, <2>3 DEF Ranges
<1>4. i - 1 \in DOMAIN Ranges(a) /\ i - 1 \in DOMAIN Ranges(b)
  BY <1>2 DEF Ranges
<1> QED BY <1>1, <1>3, <1>4 DEF SameUpTo

LEMMA MovesSame ==
  ASSUME NEW a \in Seq(Candle), NEW b \in Seq(Candle), NEW i \in Nat, i > 1, SameUpTo(a, b, i),
         NEW sign \in {1, -1}
  PROVE  /\ Moves(a, sign) \in Seq(Int) /\ Moves(b, sign) \in Seq(Int)
         /\ SameUpTo(Moves(a, sign), Moves(b, sign), i - 1)
<1>1. ASSUME NEW s \in Seq(Candle) PROVE Moves(s, sign) \in Seq(Int)
  <2>1. PICK n \in Nat : n = Len(s)
    OBVIOUS
  <2>2. Moves(s, sign) = [k \in 1 .. n - 1 |-> Max({0, sign * (s[k + 1].close - s[k].close)})]
    BY <2>1 DEF Moves
  <2>3. ASSUME NEW k \in 1 .. n - 1 PROVE Max({0, sign * (s[k + 1].close - s[k].close)}) \in Int
    <3>1. k \in DOMAIN s /\ k + 1 \in DOMAIN s
      BY <2>1
    <3>2. PICK c \in Int, d \in Int : c = s[k].close /\ d = s[k + 1].close
      BY <3>1, CandleIs
    <3>3. PICK m \in Int : m = sign * (d - c)
      OBVIOUS
    <3>4. Max({0, m}) \in Int
      BY MaxOfTwo
    <3> QED BY <3>2, <3>3, <3>4
  <2>4. CASE n = 0
    <3>1. 1 .. n - 1 = 1 .. 0
      BY <2>4
    <3> QED BY <2>2, <2>3, <3>1
  <2>5. CASE n > 0
    <3>1. n - 1 \in Nat
      BY <2>5
    <3> QED BY <2>2, <2>3, <3>1
  <2> QED BY <2>4, <2>5
<1>2. i <= Len(a) /\ i <= Len(b) /\ \A j \in 1 .. i : a[j] = b[j]
  BY DEF SameUpTo
<1>3. ASSUME NEW j \in 1 .. i - 1 PROVE Moves(a, sign)[j] = Moves(b, sign)[j]
  <2>1. j \in 1 .. Len(a) - 1 /\ j \in 1 .. Len(b) - 1
    BY <1>2
  <2>2. a[j] = b[j] /\ a[j + 1] = b[j + 1]
    BY <1>2
  <2> QED BY <2>1, <2>2 DEF Moves
<1>4. i - 1 \in DOMAIN Moves(a, sign) /\ i - 1 \in DOMAIN Moves(b, sign)
  BY <1>2 DEF Moves
<1> QED BY <1>1, <1>3, <1>4 DEF SameUpTo

----------------------------------------------------------------------------
(* The indicators, one by one.                                             *)
LEMMA AtrSame ==
  ASSUME NEW a \in Seq(Candle), NEW b \in Seq(Candle), NEW i \in Nat, SameUpTo(a, b, i),
         NEW p \in Nat \ {0}
  PROVE  Atr(a, p)[i] = Atr(b, p)[i]
<1>1. i \in DOMAIN a /\ i \in DOMAIN b /\ i >= 1
  BY DEF SameUpTo
<1>2. i > 1 => WilderSmooth(Ranges(a), p)[i - 1] = WilderSmooth(Ranges(b), p)[i - 1]
  <2>1. SUFFICES ASSUME i > 1
                 PROVE  WilderSmooth(Ranges(a), p)[i - 1] = WilderSmooth(Ranges(b), p)[i - 1]
    OBVIOUS
  <2>2. i - 1 \in Nat
    BY <2>1
  <2> QED BY <2>1, <2>2, RangesSame, WilderSame
<1> QED BY <1>1, <1>2 DEF Atr

LEMMA DonchianSame ==
  ASSUME NEW a \in Seq(Candle), NEW b \in Seq(Candle), NEW i \in Nat, SameUpTo(a, b, i),
         NEW p \in Nat \ {0}
  PROVE  DonchianHigh(a, p)[i] = DonchianHigh(b, p)[i]
<1>1. i \in DOMAIN a /\ i \in DOMAIN b /\ \A j \in 1 .. i : a[j] = b[j]
  BY DEF SameUpTo
<1>2. i > p => {a[j].high : j \in i - p .. i - 1} = {b[j].high : j \in i - p .. i - 1}
  BY <1>1
<1>3. ASSUME NEW s, i \in DOMAIN s
      PROVE  DonchianHigh(s, p)[i] = IF i <= p THEN None ELSE Max({s[j].high : j \in i - p .. i - 1})
  BY <1>3 DEF DonchianHigh
<1>4. CASE i > p
  <2>1. ~(i <= p)
    BY <1>4
  <2> QED BY <1>1, <1>2, <1>3, <1>4, <2>1, Zenon
<1>5. CASE i <= p
  BY <1>1, <1>3, <1>5, Zenon
<1> QED BY <1>4, <1>5

LEMMA RelativeVolumeSame ==
  ASSUME NEW a \in Seq(Candle), NEW b \in Seq(Candle), NEW i \in Nat, SameUpTo(a, b, i),
         NEW p \in Nat \ {0}
  PROVE  RelativeVolume(a, p)[i] = RelativeVolume(b, p)[i]
<1>1. i \in DOMAIN a /\ i \in DOMAIN b /\ a[i] = b[i] /\ i >= 1
  BY DEF SameUpTo
<1>2. ~(i <= p) => Ending(Volumes(a), i - 1, p) = Ending(Volumes(b), i - 1, p)
  <2>1. SUFFICES ASSUME ~(i <= p)
                 PROVE  Ending(Volumes(a), i - 1, p) = Ending(Volumes(b), i - 1, p)
    OBVIOUS
  <2>2. PICK j \in 1 .. i : j = i - 1
    BY <2>1
  <2>3. SameUpTo(a, b, j) /\ j \in Nat /\ p <= j
    BY <2>1, <2>2, SameBefore
  <2>4. Ending(Volumes(a), j, p) = Ending(Volumes(b), j, p)
    BY <2>3, ClosesSame, EndingSame
  <2> QED BY <2>2, <2>4
<1> QED BY <1>1, <1>2 DEF RelativeVolume

LEMMA TurnoverSame ==
  ASSUME NEW a \in Seq(Candle), NEW b \in Seq(Candle), NEW i \in Nat, SameUpTo(a, b, i),
         NEW p \in Nat \ {0}
  PROVE  Turnover(a, p)[i] = Turnover(b, p)[i]
<1> DEFINE Of(s) == [j \in DOMAIN s |-> s[j].close * s[j].volume]
<1>1. ASSUME NEW s \in Seq(Candle) PROVE Of(s) \in Seq(Int)
  <2>1. PICK n \in Nat : n = Len(s) /\ DOMAIN s = 1 .. n
    OBVIOUS
  <2>2. ASSUME NEW j \in 1 .. n PROVE s[j].close * s[j].volume \in Int
    <3>1. PICK c \in Int, v \in Int : c = s[j].close /\ v = s[j].volume
      BY <2>1, CandleIs
    <3> QED BY <3>1
  <2>3. Of(s) = [j \in 1 .. n |-> s[j].close * s[j].volume]
    BY <2>1
  <2>4. Of(s) \in [1 .. n -> Int]
    BY <2>2, <2>3
  <2> HIDE DEF Of
  <2> QED BY <2>4
<1>2. SameUpTo(Of(a), Of(b), i)
  <2>1. \A j \in 1 .. i : j \in DOMAIN a /\ j \in DOMAIN b /\ a[j] = b[j]
    BY DEF SameUpTo
  <2> QED BY <2>1 DEF SameUpTo
<1>3. Sma(Of(a), p)[i] = Sma(Of(b), p)[i]
  <2> HIDE DEF Of
  <2> QED BY <1>1, <1>2, SmaSame
<1> QED BY <1>3 DEF Turnover

LEMMA RsiSame ==
  ASSUME NEW a \in Seq(Candle), NEW b \in Seq(Candle), NEW i \in Nat, SameUpTo(a, b, i),
         NEW p \in Nat \ {0}
  PROVE  Rsi(a, p)[i] = Rsi(b, p)[i]
<1>1. i \in DOMAIN a /\ i \in DOMAIN b /\ i >= 1
  BY DEF SameUpTo
<1>2. ASSUME NEW sign \in {1, -1}, ~(i <= p)
      PROVE  WilderSmooth(Moves(a, sign), p)[i - 1] = WilderSmooth(Moves(b, sign), p)[i - 1]
  <2>1. i - 1 \in Nat /\ i > 1
    BY <1>2
  <2> QED BY <2>1, MovesSame, WilderSame
<1>3. ~(i <= p) => /\ WilderSmooth(Moves(a, 1), p)[i - 1] = WilderSmooth(Moves(b, 1), p)[i - 1]
                   /\ WilderSmooth(Moves(a, -1), p)[i - 1] = WilderSmooth(Moves(b, -1), p)[i - 1]
  BY <1>2
<1> QED BY <1>1, <1>3 DEF Rsi

LEMMA StopSame ==
  ASSUME NEW a \in Seq(Candle), NEW b \in Seq(Candle), NEW i \in Nat, SameUpTo(a, b, i),
         NEW entry \in 1 .. i
  PROVE  BreakoutStop(a, entry, i) = BreakoutStop(b, entry, i)
<1>1. Atr(a, Breakout.atr)[i] = Atr(b, Breakout.atr)[i]
  BY StrategyConstants, AtrSame
<1>2. {a[j].high : j \in entry .. i} = {b[j].high : j \in entry .. i}
  BY DEF SameUpTo
<1> QED BY <1>1, <1>2 DEF BreakoutStop, ChandelierStop

----------------------------------------------------------------------------
LEMMA IntentSame ==
  ASSUME NEW a \in Seq(Candle), NEW b \in Seq(Candle), NEW i \in Nat, SameUpTo(a, b, i),
         NEW entry \in {None} \cup 1 .. i, NEW s
  PROVE  Intent(s, a, i, entry) = Intent(s, b, i, entry)
<1>1. a[i] = b[i]
  BY DEF SameUpTo
<1>2. ASSUME NEW p \in Nat \ {0} PROVE Sma(Closes(a), p)[i] = Sma(Closes(b), p)[i]
  BY ClosesSame, SmaSame
<1>3. BreakoutEnters(a, i) <=> BreakoutEnters(b, i)
  <2>1. /\ DonchianHigh(a, Breakout.channel)[i] = DonchianHigh(b, Breakout.channel)[i]
        /\ RelativeVolume(a, Average)[i] = RelativeVolume(b, Average)[i]
        /\ Turnover(a, Average)[i] = Turnover(b, Average)[i]
        /\ Sma(Closes(a), Breakout.fast)[i] = Sma(Closes(b), Breakout.fast)[i]
        /\ Sma(Closes(a), Breakout.slow)[i] = Sma(Closes(b), Breakout.slow)[i]
        /\ Atr(a, Breakout.atr)[i] = Atr(b, Breakout.atr)[i]
    <3>1. /\ Breakout.channel \in Nat \ {0} /\ Breakout.atr \in Nat \ {0}
          /\ Breakout.fast \in Nat \ {0} /\ Breakout.slow \in Nat \ {0}
          /\ Average \in Nat \ {0}
      BY StrategyConstants
    <3>2. DonchianHigh(a, Breakout.channel)[i] = DonchianHigh(b, Breakout.channel)[i]
      BY <3>1, DonchianSame
    <3>3. RelativeVolume(a, Average)[i] = RelativeVolume(b, Average)[i]
      BY <3>1, RelativeVolumeSame
    <3>4. Turnover(a, Average)[i] = Turnover(b, Average)[i]
      BY <3>1, TurnoverSame
    <3>5. Atr(a, Breakout.atr)[i] = Atr(b, Breakout.atr)[i]
      BY <3>1, AtrSame
    <3> QED BY <1>2, <3>1, <3>2, <3>3, <3>4, <3>5
  <2> QED BY <1>1, <2>1, Zenon DEF BreakoutEnters
<1>4. BaselineEnters(a, i) <=> BaselineEnters(b, i)
  <2>1. /\ Rsi(a, Baseline.rsi)[i] = Rsi(b, Baseline.rsi)[i]
        /\ Sma(Closes(a), Baseline.short)[i] = Sma(Closes(b), Baseline.short)[i]
        /\ Sma(Closes(a), Baseline.long)[i] = Sma(Closes(b), Baseline.long)[i]
        /\ RelativeVolume(a, Average)[i] = RelativeVolume(b, Average)[i]
    <3>1. /\ Baseline.rsi \in Nat \ {0} /\ Baseline.short \in Nat \ {0}
          /\ Baseline.long \in Nat \ {0} /\ Average \in Nat \ {0}
      BY StrategyConstants
    <3>2. Rsi(a, Baseline.rsi)[i] = Rsi(b, Baseline.rsi)[i]
      BY <3>1, RsiSame
    <3>3. RelativeVolume(a, Average)[i] = RelativeVolume(b, Average)[i]
      BY <3>1, RelativeVolumeSame
    <3> QED BY <1>2, <3>1, <3>2, <3>3
  <2> QED BY <1>1, <2>1, Zenon DEF BaselineEnters
<1>5. entry # None => BreakoutStop(a, entry, i) = BreakoutStop(b, entry, i)
  BY StopSame
<1>6. entry # None => (BreakoutExits(a, entry, i) <=> BreakoutExits(b, entry, i))
  BY <1>1, <1>5, Zenon DEF BreakoutExits
<1>7. BreakoutWants(a, i, entry) = BreakoutWants(b, i, entry)
  BY <1>3, <1>6 DEF BreakoutWants
<1>8. BaselineWants(a, i, entry) = BaselineWants(b, i, entry)
  BY <1>4 DEF BaselineWants
<1> QED BY <1>7, <1>8 DEF Intent

(* No look-ahead: neither strategy's wish after a bar depends on a later   *)
(* bar, for every series and every choice of periods, though both prepare  *)
(* their indicators on the whole series (base.py, "using bars 0..i only"). *)
THEOREM NoLookAheadHolds == Spec => []NoLookAhead
<1>1. BacktestTypes => NoLookAhead
  <2> SUFFICES ASSUME BacktestTypes, NEW i \in DOMAIN bars, NEW entry \in {None} \cup 1 .. i
               PROVE  Intent(strategy, bars, i, entry) = Intent(strategy, SubSeq(bars, 1, i), i, entry)
    BY DEF NoLookAhead
  <2>1. PICK n \in Nat : bars \in Seq(Candle) /\ n = Len(bars) /\ DOMAIN bars = 1 .. n
    BY DEF BacktestTypes
  <2>2. i \in Nat /\ i >= 1 /\ \A j \in 1 .. i : bars[j] \in Candle
    BY <2>1
  <2>3. /\ SubSeq(bars, 1, i) \in Seq(Candle) /\ Len(SubSeq(bars, 1, i)) = i
        /\ \A j \in 1 .. i : SubSeq(bars, 1, i)[j] = bars[j]
    <3>1. 1 \in Int /\ i \in Int /\ i - 1 + 1 = i /\ \A j \in 1 .. i : 1 + j - 1 = j
      BY <2>2
    <3>2. /\ SubSeq(bars, 1, i) \in Seq(Candle)
          /\ Len(SubSeq(bars, 1, i)) = IF 1 <= i THEN i - 1 + 1 ELSE 0
          /\ \A j \in 1 .. i - 1 + 1 : SubSeq(bars, 1, i)[j] = bars[1 + j - 1]
      BY <2>2, <3>1, SubSeqProperties
    <3> QED BY <2>2, <3>1, <3>2
  <2>4. PICK b \in Seq(Candle) : b = SubSeq(bars, 1, i)
    BY <2>3
  <2>5. SameUpTo(bars, b, i)
    BY <2>1, <2>2, <2>3, <2>4 DEF SameUpTo
  <2>6. Intent(strategy, bars, i, entry) = Intent(strategy, b, i, entry)
    BY <2>1, <2>2, <2>5, IntentSame
  <2> QED BY <2>4, <2>6
<1> QED BY <1>1, BacktestTypesHold, PTL

----------------------------------------------------------------------------
(* A new high is no dip.  The smoothed gains exceed the smoothed losses by *)
(* at least what the close is above M, where no earlier close is.          *)
LEMMA WilderMeans ==
  ASSUME NEW values \in Seq(Int), NEW p \in Nat \ {0}, NEW n \in p .. Len(values)
  PROVE  WilderSmooth(values, p)[n] \in Means
<1>1. PICK out : out = WilderSmooth(values, p) /\ Smooths(out, values, p)
  BY WilderIs
<1>2. PICK N \in Nat : N = Len(values) /\ DOMAIN values = 1 .. N
  OBVIOUS
<1> DEFINE S == {k \in 0 .. N : k >= p => out[k] \in Means}
<1>3. ASSUME NEW k \in 0 .. N - 1, k \in S PROVE k + 1 \in S
  <2>1. k + 1 \in 1 .. N /\ (k + 1) - 1 = k /\ values[k + 1] \in Int
    BY <1>2
  <2>2. out[k + 1] = CASE k + 1 < p -> None
                       [] k + 1 = p -> [sum |-> SumOf(Ending(values, k + 1, p)), over |-> p]
                       [] OTHER -> Decayed(out[k], values[k + 1], p)
    BY <1>1, <1>2, <2>1 DEF Smooths
  <2>3. CASE k + 1 < p
    BY <2>1, <2>3
  <2>4. CASE k + 1 = p
    BY <1>2, <2>1, <2>2, <2>4, FirstMean
  <2>5. CASE k + 1 > p
    <3>1. out[k] \in Means /\ out[k + 1] = Decayed(out[k], values[k + 1], p)
      BY <1>3, <2>2, <2>5
    <3>2. out[k + 1] \in Means
      BY <2>1, <3>1, DecayedType
    <3> QED BY <2>1, <3>2
  <2> QED BY <2>1, <2>3, <2>4, <2>5
<1>4. \A k \in 0 .. N : k \in S
  <2>1. 0 \in S /\ S \in SUBSET (0 .. N)
    OBVIOUS
  <2> HIDE DEF S
  <2> QED BY <1>3, <2>1, LoopInduction
<1> QED BY <1>1, <1>2, <1>4

LEMMA FirstSum ==
  ASSUME NEW values \in Seq(Int), NEW g, AddsUp(g, values), NEW p \in 1 .. Len(values)
  PROVE  SumOf(Ending(values, p, p)) = g[p]
<1>1. p - p + 1 = 1
  OBVIOUS
<1>2. /\ SubSeq(values, 1, p) \in Seq(Int) /\ Len(SubSeq(values, 1, p)) = p
      /\ \A j \in 1 .. p : SubSeq(values, 1, p)[j] = values[j]
  <2>1. 1 \in Int /\ p \in Int /\ 1 <= p /\ p - 1 + 1 = p /\ \A j \in 1 .. p : 1 + j - 1 = j
    OBVIOUS
  <2>2. \A j \in 1 .. p : values[j] \in Int
    OBVIOUS
  <2> QED BY <2>1, <2>2, SubSeqProperties
<1>3. SubSeq(values, 1, p) = [i \in 1 .. p |-> values[i]]
  <2>1. PICK s \in Seq(Int) : s = SubSeq(values, 1, p)
    BY <1>2
  <2>2. s = [i \in 1 .. p |-> s[i]]
    BY <1>2, <2>1
  <2> QED BY <1>2, <2>1, <2>2
<1>4. Ending(values, p, p) = [i \in 1 .. p |-> values[i]]
  BY <1>1, <1>3 DEF Ending
<1>5. p \in 0 .. Len(values)
  OBVIOUS
<1> QED BY <1>4, <1>5, SumOfPrefix

(* The step of the induction below, in numbers: s, t are the sums of the   *)
(* gains and losses over o, and c the close that becomes d.                *)
LEMMA DecayKeepsLead ==
  ASSUME NEW s \in Int, NEW t \in Int, NEW o \in Nat \ {0}, NEW p \in Nat \ {0},
         NEW c \in Int, NEW d \in Int, NEW M \in Int, c <= M,
         NEW x \in Int, NEW y \in Int, x - y = d - c,
         p * (s - t) >= (c - M) * o
  PROVE  p * ((s * (p - 1) + x * o) - (t * (p - 1) + y * o)) >= (d - M) * (o * p)
<1>1. PICK e \in Int, h \in Nat, q \in Nat : e = s - t /\ h = M - c /\ q = p - 1
  OBVIOUS
<1>2. p * e >= 0 - h * o
  <2>1. c - M = 0 - h
    BY <1>1
  <2>2. (0 - h) * o = 0 - h * o
    OBVIOUS
  <2> QED BY <1>1, <2>1, <2>2
<1>3. (s * q + x * o) - (t * q + y * o) = e * q + (d - c) * o
  <2>1. s * q - t * q = (s - t) * q
    OBVIOUS
  <2>2. x * o - y * o = (x - y) * o
    OBVIOUS
  <2>3. s * q \in Int /\ t * q \in Int /\ x * o \in Int /\ y * o \in Int
    OBVIOUS
  <2> QED BY <1>1, <2>1, <2>2, <2>3
<1>4. p * (e * q) >= 0 - (h * o) * p
  <2>1. PICK a \in Int, b \in Nat : a = p * e /\ b = h * o
    OBVIOUS
  <2>2. a * q >= (0 - b) * q
    BY <1>2, <2>1
  <2>3. (0 - b) * q >= 0 - b * p
    <3>1. p = q + 1
      BY <1>1
    <3>2. b * p = b * q + b /\ (0 - b) * q = 0 - b * q
      BY <3>1
    <3> QED BY <3>2
  <2>4. p * (e * q) = a * q
    BY <2>1
  <2> QED BY <2>1, <2>2, <2>3, <2>4
<1>5. p * (e * q + (d - c) * o) = p * (e * q) + (d - c) * (o * p)
  OBVIOUS
<1>6. (d - M) * (o * p) = (d - c) * (o * p) - (h * o) * p
  <2>1. d - M = (d - c) - h
    BY <1>1
  <2> QED BY <2>1
<1> QED BY <1>1, <1>3, <1>4, <1>5, <1>6

(* What the smoothed gains and losses are over is the same, and where M is *)
(* at least every close so far, the lead of the gains is that of the close *)
(* over M.                                                                 *)
Leads(G, L, p, c, M) ==
  /\ G.over = L.over /\ L.sum >= 0
  /\ p * (G.sum - L.sum) >= (c - M) * L.over

LEMMA FirstLeads ==
  ASSUME NEW s \in Int, NEW t \in Nat, NEW c \in Int, NEW d \in Int, NEW M \in Int,
         c <= M, s - t = d - c, NEW p \in Nat \ {0}
  PROVE  Leads([sum |-> s, over |-> p], [sum |-> t, over |-> p], p, d, M)
<1>1. PICK e \in Int, f \in Int : e = s - t /\ f = d - M /\ e >= f
  OBVIOUS
<1>2. p * e >= f * p
  BY <1>1
<1>3. p * (s - t) >= (d - M) * p
  BY <1>1, <1>2
<1> QED BY <1>3 DEF Leads

LEMMA DecayedLeads ==
  ASSUME NEW G \in Means, NEW L \in Means, NEW x \in Nat, NEW y \in Nat,
         NEW c \in Int, NEW d \in Int, NEW M \in Int, c <= M, x - y = d - c,
         NEW p \in Nat \ {0}, Leads(G, L, p, c, M)
  PROVE  Leads(Decayed(G, x, p), Decayed(L, y, p), p, d, M)
<1>1. PICK s \in Int, t \in Int, o \in Nat \ {0} :
        s = G.sum /\ t = L.sum /\ o = G.over /\ o = L.over
  BY DEF Leads, Means
<1>2. t >= 0 /\ p * (s - t) >= (c - M) * o
  BY <1>1 DEF Leads
<1>3. p * ((s * (p - 1) + x * o) - (t * (p - 1) + y * o)) >= (d - M) * (o * p)
  BY <1>2, DecayKeepsLead
<1>4. t * (p - 1) + y * o >= 0
  <2>1. PICK q \in Nat, u \in Nat : q = p - 1 /\ u = t
    BY <1>2
  <2>2. u * q >= 0 /\ y * o >= 0
    OBVIOUS
  <2> QED BY <2>1, <2>2
<1>5. /\ Decayed(G, x, p) = [sum |-> s * (p - 1) + x * o, over |-> o * p]
      /\ Decayed(L, y, p) = [sum |-> t * (p - 1) + y * o, over |-> o * p]
  BY <1>1 DEF Decayed
<1> QED BY <1>3, <1>4, <1>5 DEF Leads

(* The first means are as far apart as the closes they span.               *)
LEMMA SumsLead ==
  ASSUME NEW N \in Nat, NEW c \in [1 .. N + 1 -> Int],
         NEW x \in [1 .. N -> Nat], NEW y \in [1 .. N -> Nat],
         \A k \in 1 .. N : x[k] - y[k] = c[k + 1] - c[k],
         NEW p \in 1 .. N
  PROVE  /\ SumOf(Ending(x, p, p)) \in Int /\ SumOf(Ending(y, p, p)) \in Nat
         /\ SumOf(Ending(x, p, p)) - SumOf(Ending(y, p, p)) = c[p + 1] - c[1]
<1>1. x \in Seq(Int) /\ y \in Seq(Int) /\ Len(x) = N /\ Len(y) = N
  OBVIOUS
<1>2. PICK g, h : AddsUp(g, x) /\ AddsUp(h, y)
  BY <1>1, AddsUpExists
<1>3. /\ g \in [0 .. N -> Int] /\ h \in [0 .. N -> Int] /\ g[0] = 0 /\ h[0] = 0
      /\ \A n \in 1 .. N : g[n] = g[n - 1] + x[n] /\ h[n] = h[n - 1] + y[n]
  BY <1>1, <1>2 DEF AddsUp
<1> DEFINE T == {j \in 0 .. p : g[j] - h[j] = c[j + 1] - c[1] /\ h[j] >= 0}
<1>4. 0 \in T
  <2>1. c[0 + 1] \in Int /\ c[0 + 1] = c[1]
    OBVIOUS
  <2>2. g[0] - h[0] = 0 /\ h[0] >= 0
    BY <1>3
  <2>3. c[0 + 1] - c[1] = 0
    BY <2>1
  <2> QED BY <2>2, <2>3
<1>5. ASSUME NEW j \in 0 .. p - 1, j \in T PROVE j + 1 \in T
  <2>1. PICK k \in 1 .. N : k = j + 1 /\ k - 1 = j /\ k \in 0 .. p /\ k + 1 \in 1 .. N + 1
    OBVIOUS
  <2>2. PICK u \in Nat, v \in Nat, d \in Int, e \in Int, f \in Int, s \in Int, t \in Int :
          /\ u = x[k] /\ v = y[k] /\ d = c[k] /\ e = c[k + 1] /\ f = c[1]
          /\ s = g[j] /\ t = h[j]
    <3>1. 1 \in 1 .. N + 1 /\ k \in 1 .. N + 1 /\ j \in 0 .. N
      BY <2>1
    <3>2. c[k] \in Int /\ c[k + 1] \in Int /\ c[1] \in Int
      BY <2>1, <3>1
    <3>3. g[j] \in Int /\ h[j] \in Int /\ x[k] \in Nat /\ y[k] \in Nat
      BY <1>3, <2>1, <3>1
    <3> QED BY <3>2, <3>3
  <2>3. u - v = e - d
    BY <2>1, <2>2
  <2>4. s - t = d - f /\ t >= 0
    BY <1>5, <2>1, <2>2
  <2>5. g[k] = s + u /\ h[k] = t + v
    BY <1>3, <2>1, <2>2
  <2>6. g[k] - h[k] = e - f /\ h[k] >= 0
    <3>1. (s + u) - (t + v) = e - f /\ t + v >= 0
      BY <2>3, <2>4
    <3> QED BY <2>5, <3>1
  <2> QED BY <2>1, <2>2, <2>6
<1>6. \A j \in 0 .. p : j \in T
  <2>1. T \in SUBSET (0 .. p) /\ p \in Nat
    OBVIOUS
  <2> HIDE DEF T
  <2> QED BY <1>4, <1>5, <2>1, LoopInduction
<1>7. SumOf(Ending(x, p, p)) = g[p] /\ SumOf(Ending(y, p, p)) = h[p]
  BY <1>1, <1>2, FirstSum
<1>8. p \in 0 .. p /\ p \in 0 .. N
  OBVIOUS
<1>9. g[p] \in Int /\ h[p] \in Int
  BY <1>3, <1>8
<1> QED BY <1>6, <1>7, <1>8, <1>9

LEMMA GainsLead ==
  ASSUME NEW N \in Nat, NEW c \in [1 .. N + 1 -> Int], NEW M \in Int,
         \A k \in 1 .. N : c[k] <= M,
         NEW x \in [1 .. N -> Nat], NEW y \in [1 .. N -> Nat],
         \A k \in 1 .. N : x[k] - y[k] = c[k + 1] - c[k],
         NEW p \in 1 .. N
  PROVE  Leads(WilderSmooth(x, p)[N], WilderSmooth(y, p)[N], p, c[N + 1], M)
<1>1. /\ x \in Seq(Int) /\ y \in Seq(Int) /\ Len(x) = N /\ Len(y) = N
      /\ DOMAIN x = 1 .. N /\ DOMAIN y = 1 .. N /\ p \in Nat \ {0}
  OBVIOUS
<1>2. PICK G, L : /\ G = WilderSmooth(x, p) /\ Smooths(G, x, p)
                  /\ L = WilderSmooth(y, p) /\ Smooths(L, y, p)
  BY <1>1, WilderIs
<1>3. \A n \in p .. N : G[n] \in Means /\ L[n] \in Means
  BY <1>1, <1>2, WilderMeans
<1>4. /\ SumOf(Ending(x, p, p)) \in Int /\ SumOf(Ending(y, p, p)) \in Nat
      /\ SumOf(Ending(x, p, p)) - SumOf(Ending(y, p, p)) = c[p + 1] - c[1]
  BY SumsLead
<1> DEFINE S == {n \in 0 .. N : n >= p => Leads(G[n], L[n], p, c[n + 1], M)}
<1>5. ASSUME NEW n \in 0 .. N - 1, n \in S PROVE n + 1 \in S
  <2>1. PICK k \in 1 .. N : k = n + 1 /\ k - 1 = n /\ k \in 0 .. N
    OBVIOUS
  <2>2. k >= p => Leads(G[k], L[k], p, c[k + 1], M)
    <3>1. CASE k < p
      BY <3>1
    <3>2. CASE k = p
      <4>1. /\ G[k] = [sum |-> SumOf(Ending(x, p, p)), over |-> p]
            /\ L[k] = [sum |-> SumOf(Ending(y, p, p)), over |-> p]
        BY <1>1, <1>2, <3>2 DEF Smooths
      <4>2. PICK s \in Int, t \in Nat :
              s = SumOf(Ending(x, p, p)) /\ t = SumOf(Ending(y, p, p)) /\ s - t = c[p + 1] - c[1]
        BY <1>4
      <4>3. 1 \in 1 .. N /\ 1 \in 1 .. N + 1 /\ p + 1 \in 1 .. N + 1
        OBVIOUS
      <4>4. c[1] \in Int /\ c[p + 1] \in Int /\ c[1] <= M
        BY <4>3
      <4>5. Leads([sum |-> s, over |-> p], [sum |-> t, over |-> p], p, c[p + 1], M)
        BY <1>1, <4>2, <4>4, FirstLeads
      <4> QED BY <3>2, <4>1, <4>2, <4>5
    <3>3. CASE k > p
      <4>1. n >= p /\ n \in p .. N
        BY <2>1, <3>3
      <4>2. Leads(G[n], L[n], p, c[k], M) /\ G[n] \in Means /\ L[n] \in Means
        BY <1>3, <1>5, <2>1, <4>1
      <4>3. G[k] = Decayed(G[n], x[k], p) /\ L[k] = Decayed(L[n], y[k], p)
        <5>1. ~(k < p) /\ k # p
          BY <3>3
        <5>2. /\ G[k] = Decayed(G[k - 1], x[k], p)
              /\ L[k] = Decayed(L[k - 1], y[k], p)
          BY <1>1, <1>2, <5>1 DEF Smooths
        <5> QED BY <2>1, <5>2
      <4>4. /\ c[k] \in Int /\ c[k + 1] \in Int /\ c[k] <= M
            /\ x[k] \in Nat /\ y[k] \in Nat /\ x[k] - y[k] = c[k + 1] - c[k]
        <5>1. k \in 1 .. N + 1 /\ k + 1 \in 1 .. N + 1
          OBVIOUS
        <5> QED BY <5>1
      <4>5. Leads(Decayed(G[n], x[k], p), Decayed(L[n], y[k], p), p, c[k + 1], M)
        BY <1>1, <4>2, <4>4, DecayedLeads
      <4> QED BY <4>3, <4>5
    <3> QED BY <3>1, <3>2, <3>3
  <2> QED BY <2>1, <2>2
<1>6. \A n \in 0 .. N : n \in S
  <2>1. 0 \in S /\ S \in SUBSET (0 .. N)
    OBVIOUS
  <2> HIDE DEF S
  <2> QED BY <1>5, <2>1, LoopInduction
<1> QED BY <1>2, <1>6

LEMMA MoveIs ==
  ASSUME NEW a \in Seq(Candle), NEW k \in 1 .. Len(a) - 1
  PROVE  /\ Moves(a, 1)[k] \in Nat /\ Moves(a, -1)[k] \in Nat
         /\ Moves(a, 1)[k] - Moves(a, -1)[k] = a[k + 1].close - a[k].close
<1>1. PICK c \in Int, d \in Int : c = a[k].close /\ d = a[k + 1].close
  <2>1. k \in DOMAIN a /\ k + 1 \in DOMAIN a
    OBVIOUS
  <2> QED BY <2>1, CandleIs
<1>2. Moves(a, 1)[k] = Max({0, 1 * (d - c)}) /\ Moves(a, -1)[k] = Max({0, (-1) * (d - c)})
  BY <1>1 DEF Moves
<1>3. PICK u \in Int, v \in Int : u = 1 * (d - c) /\ v = (-1) * (d - c) /\ u = d - c /\ v = c - d
  OBVIOUS
<1>4. Max({0, u}) = IF 0 <= u THEN u ELSE 0
  BY MaxOfTwo
<1>5. Max({0, v}) = IF 0 <= v THEN v ELSE 0
  BY MaxOfTwo
<1>6. /\ Moves(a, 1)[k] = IF 0 <= u THEN u ELSE 0
      /\ Moves(a, -1)[k] = IF 0 <= v THEN v ELSE 0
  BY <1>2, <1>3, <1>4, <1>5
<1>7. CASE 0 <= u
  <2>1. Moves(a, 1)[k] = u /\ Moves(a, -1)[k] = 0
    BY <1>3, <1>6, <1>7
  <2>2. u \in Nat /\ u - 0 = d - c
    BY <1>3, <1>7
  <2> QED BY <1>1, <2>1, <2>2
<1>8. CASE ~(0 <= u)
  <2>1. Moves(a, 1)[k] = 0 /\ Moves(a, -1)[k] = v
    BY <1>3, <1>6, <1>8
  <2>2. v \in Nat /\ 0 - v = d - c
    BY <1>3, <1>8
  <2> QED BY <1>1, <2>1, <2>2
<1> QED BY <1>7, <1>8

LEMMA FunctionIsSeq ==
  ASSUME NEW A, NEW N \in Nat, NEW z \in [1 .. N -> A]
  PROVE  z \in Seq(A) /\ Len(z) = N
OBVIOUS

LEMMA CandleOrder ==
  ASSUME NEW b \in Candle
  PROVE  b.high \in Int /\ b.close \in Int /\ b.close <= b.high
<1>1. b.high \in Int /\ b.low \in Int /\ b.close \in b.low .. b.high
  BY DEF Candle, Price
<1> QED BY <1>1

(* At a close above every high before it the RSI is above one half.        *)
LEMMA NewHighRises ==
  ASSUME NEW a \in Seq(Candle), NEW i \in DOMAIN a, NEW p \in Nat \ {0}, i > p,
         \A j \in 1 .. i - 1 : a[j].high < a[i].close
  PROVE  LET rsi == Rsi(a, p)[i] IN
         rsi.gain \in Int /\ rsi.loss \in Int /\ rsi.gain > rsi.loss /\ rsi.loss >= 0
<1>1. PICK n \in Nat, b \in Seq(Candle) :
        /\ n = Len(a) /\ i \in 1 .. n /\ b = SubSeq(a, 1, i)
        /\ Len(b) = i /\ SameUpTo(a, b, i) /\ \A j \in 1 .. i : b[j] = a[j]
  <2>1. PICK n \in Nat : n = Len(a) /\ i \in 1 .. n /\ i \in Nat
    OBVIOUS
  <2>2. 1 \in Int /\ i \in Int /\ 1 <= i /\ i - 1 + 1 = i /\ \A j \in 1 .. i : 1 + j - 1 = j
    BY <2>1
  <2>3. \A j \in 1 .. i : a[j] \in Candle
    BY <2>1
  <2>4. /\ SubSeq(a, 1, i) \in Seq(Candle) /\ Len(SubSeq(a, 1, i)) = i
        /\ \A j \in 1 .. i : SubSeq(a, 1, i)[j] = a[j]
    BY <2>2, <2>3, SubSeqProperties
  <2>5. PICK b \in Seq(Candle) : b = SubSeq(a, 1, i)
    BY <2>4
  <2>6. SameUpTo(a, b, i)
    BY <2>1, <2>4, <2>5 DEF SameUpTo
  <2> QED BY <2>1, <2>4, <2>5, <2>6
<1>2. PICK N \in Nat : N = i - 1 /\ N + 1 = i /\ p \in 1 .. N /\ i \in Nat
  BY <1>1
<1> DEFINE c == [k \in 1 .. N + 1 |-> b[k].close]
           x == Moves(b, 1)
           y == Moves(b, -1)
           M == c[N + 1] - 1
<1>3. c \in [1 .. N + 1 -> Int] /\ M \in Int
  <2>1. \A k \in 1 .. N + 1 : b[k].close \in Int
    BY <1>1, <1>2, CandleIs
  <2> QED BY <2>1, <1>2
<1>4. \A k \in 1 .. N : c[k] <= M
  <2>1. ASSUME NEW k \in 1 .. N PROVE c[k] <= M
    <3>1. k \in DOMAIN b /\ i \in DOMAIN b /\ k \in 1 .. i - 1
      BY <1>1, <1>2
    <3>2. b[k] \in Candle /\ b[i] \in Candle
      BY <3>1
    <3>3. PICK h \in Int, m \in Int, e \in Int :
            h = b[k].high /\ m = b[k].close /\ e = b[i].close /\ m <= h
      BY <3>2, CandleOrder
    <3>4. h < e
      BY <1>1, <3>1, <3>3
    <3>5. c[k] = m /\ M = e - 1
      <4>1. k \in 1 .. N + 1 /\ N + 1 \in 1 .. N + 1
        BY <1>2
      <4>2. c[k] = b[k].close /\ c[N + 1] = b[N + 1].close
        BY <4>1
      <4> QED BY <1>2, <3>3, <4>2
    <3>6. m <= e - 1
      BY <3>3, <3>4
    <3> QED BY <3>5, <3>6
  <2> QED BY <2>1
<1>5. /\ x \in [1 .. N -> Nat] /\ y \in [1 .. N -> Nat]
      /\ \A k \in 1 .. N : x[k] - y[k] = c[k + 1] - c[k]
  <2>1. ASSUME NEW k \in 1 .. N
        PROVE  x[k] \in Nat /\ y[k] \in Nat /\ x[k] - y[k] = c[k + 1] - c[k]
    <3>1. k \in 1 .. Len(b) - 1
      BY <1>1, <1>2
    <3>2. c[k + 1] = b[k + 1].close /\ c[k] = b[k].close
      BY <1>2
    <3> QED BY <3>1, <3>2, MoveIs
  <2>2. \A sign \in {1, -1} : Moves(b, sign) = [k \in 1 .. N |-> Moves(b, sign)[k]]
    BY <1>1, <1>2 DEF Moves
  <2> QED BY <2>1, <2>2
<1>6. Leads(WilderSmooth(x, p)[N], WilderSmooth(y, p)[N], p, c[N + 1], M)
  <2> HIDE DEF c, x, y, M
  <2> QED BY <1>2, <1>3, <1>4, <1>5, GainsLead
<1>7. WilderSmooth(x, p)[N] \in Means /\ WilderSmooth(y, p)[N] \in Means
  <2>1. x \in Seq(Int) /\ y \in Seq(Int) /\ N \in p .. Len(x) /\ N \in p .. Len(y)
    <3>1. x \in Seq(Nat) /\ y \in Seq(Nat) /\ Len(x) = N /\ Len(y) = N
      <4>1. ASSUME NEW z \in [1 .. N -> Nat] PROVE z \in Seq(Nat) /\ Len(z) = N
        BY <1>2, FunctionIsSeq
      <4> HIDE DEF x, y
      <4> QED BY <1>5, <4>1
    <3>2. N \in p .. N
      BY <1>2
    <3> HIDE DEF x, y
    <3> QED BY <3>1, <3>2
  <2> HIDE DEF x, y
  <2> QED BY <2>1, WilderMeans
<1>8. PICK s \in Int, t \in Int, o \in Nat \ {0} :
        /\ s = WilderSmooth(x, p)[N].sum /\ t = WilderSmooth(y, p)[N].sum
        /\ o = WilderSmooth(y, p)[N].over
  BY <1>7 DEF Means
<1>9. t >= 0 /\ p * (s - t) >= o
  <2>1. PICK z \in Int : z = c[N + 1]
    BY <1>3
  <2>2. (z - (z - 1)) * o = o
    OBVIOUS
  <2>3. t >= 0 /\ p * (s - t) >= (z - (z - 1)) * o
    <3> HIDE DEF c, x, y
    <3> QED BY <1>6, <1>8, <2>1 DEF Leads
  <2> QED BY <2>2, <2>3
<1>10. s > t
  <2>1. ASSUME s - t <= 0 PROVE p * (s - t) <= 0
    <3>1. PICK u \in Nat, d \in Nat : u = p /\ d = t - s
      BY <2>1
    <3>2. u * d \in Nat /\ p * (s - t) = -(u * d)
      BY <3>1
    <3> QED BY <3>2
  <2> QED BY <1>9, <2>1
<1>11. Rsi(b, p)[i] = [gain |-> s, loss |-> t]
  <2>1. i \in DOMAIN b /\ ~(i <= p) /\ i - 1 = N
    BY <1>1, <1>2
  <2>2. Rsi(b, p)[i] = [gain |-> WilderSmooth(Moves(b, 1), p)[i - 1].sum,
                        loss |-> WilderSmooth(Moves(b, -1), p)[i - 1].sum]
    BY <2>1 DEF Rsi
  <2> QED BY <1>8, <2>1, <2>2
<1>12. Rsi(a, p)[i] = Rsi(b, p)[i]
  <2>1. i \in Nat /\ SameUpTo(a, b, i)
    BY <1>1, <1>2
  <2> QED BY <2>1, RsiSame
<1> QED BY <1>9, <1>10, <1>11, <1>12

(* A close above every high before it never is an entry of the baseline:   *)
(* its gains outweigh its losses, for every series and every period        *)
(* (mean_reversion.py, "a breakout can never trigger it").                 *)
THEOREM BreakoutIsNoDip == Spec => []BreakoutIsNotADip
<1>1. BacktestTypes => BreakoutIsNotADip
  <2> SUFFICES ASSUME BacktestTypes, NEW i \in DOMAIN bars,
                      \A j \in 1 .. i - 1 : bars[j].high < bars[i].close, BaselineEnters(bars, i)
               PROVE  FALSE
    BY DEF BreakoutIsNotADip
  <2>1. bars \in Seq(Candle) /\ Baseline.rsi \in Nat \ {0}
    BY StrategyConstants DEF BacktestTypes
  <2>2. i > Baseline.rsi
    <3>1. Rsi(bars, Baseline.rsi)[i] # None
      BY DEF BaselineEnters
    <3>2. i \in Nat
      BY <2>1
    <3> QED BY <2>1, <3>1, <3>2 DEF Rsi
  <2>3. PICK s \in Int, t \in Int :
          /\ s = Rsi(bars, Baseline.rsi)[i].gain /\ t = Rsi(bars, Baseline.rsi)[i].loss
          /\ s > t /\ t >= 0
    BY <2>1, <2>2, NewHighRises
  <2>4. 100 * s <= 30 * (s + t) \/ 100 * s <= 40 * (s + t)
    BY <2>3 DEF BaselineEnters, RsiAtMost
  <2> QED BY <2>3, <2>4
<1> QED BY <1>1, BacktestTypesHold, PTL
=============================================================================
