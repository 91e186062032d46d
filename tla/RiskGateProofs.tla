--------------------------- MODULE RiskGateProofs ---------------------------
(***************************************************************************)
(* The ledger, then the gates in front of it, for every number of lots,    *)
(* every list of prices, every limit and every calendar.                   *)
(***************************************************************************)
EXTENDS RiskGate, SumsProofs

Route == INSTANCE Routing

----------------------------------------------------------------------------
(* The lot ledger.  A sale is a loop over the lots, so each proof about it *)
(* is a proof about sums: what the loop takes from each lot adds up to the *)
(* quantity sold, whatever the sale cuts.                                  *)


(* The terms of a total.                                                   *)
LEMMA DeliverableType ==
  ASSUME NEW held \in Seq(LotType)
  PROVE  [i \in DOMAIN held |-> Deliverable(held[i])] \in Seq(Nat)
<1>1. ASSUME NEW i \in DOMAIN held PROVE Deliverable(held[i]) \in Nat
  <2>1. held[i] \in LotType
    OBVIOUS
  <2> QED BY <2>1 DEF Deliverable, LotType
<1> QED BY <1>1

----------------------------------------------------------------------------
(* What a sale takes from the i-th lot, when d adds up what can be         *)
(* delivered: nothing once the lots before it cover the quantity.          *)
LEMMA TakenIs ==
  ASSUME NEW held \in Seq(LotType), NEW q \in Nat, NEW d,
         AddsUp(d, [i \in DOMAIN held |-> Deliverable(held[i])]), NEW i \in DOMAIN held
  PROVE  Taken(held, q, i) =
           IF q - d[i - 1] <= 0 THEN 0
           ELSE IF Deliverable(held[i]) <= q - d[i - 1] THEN Deliverable(held[i])
                ELSE q - d[i - 1]
<1> DEFINE nums == [j \in DOMAIN held |-> Deliverable(held[j])]
           sub  == SubSeq(held, 1, i - 1)
<1>1. PICK N \in Nat : N = Len(held) /\ DOMAIN held = 1 .. N
  OBVIOUS
<1>2. nums \in Seq(Nat) /\ nums \in Seq(Int) /\ Len(nums) = N
  <2>1. nums \in Seq(Nat)
    BY DeliverableType
  <2> QED BY <1>1, <2>1
<1>3. i - 1 \in 0 .. Len(nums)
  BY <1>1, <1>2
<1>4. SumOf([j \in 1 .. i - 1 |-> nums[j]]) = d[i - 1]
  <2> HIDE DEF nums
  <2>1. AddsUp(d, nums)
    BY DEF nums
  <2> QED BY <1>2, <1>3, <2>1, SumOfPrefix
<1>5. Total(Deliverable, sub) = d[i - 1]
  <2>1. /\ DOMAIN sub = 1 .. i - 1
        /\ \A j \in 1 .. i - 1 : sub[j] = held[j] /\ j \in DOMAIN held
    BY <1>1
  <2>2. [j \in DOMAIN sub |-> Deliverable(sub[j])] = [j \in 1 .. i - 1 |-> nums[j]]
    <3> HIDE DEF sub
    <3> QED BY <2>1
  <2> QED BY <1>4, <2>2 DEF Total
<1>6. d[i - 1] \in Int
  BY <1>2, <1>3 DEF AddsUp
<1>7. Deliverable(held[i]) = IF Settled(held[i]) THEN held[i].quantity ELSE 0
  BY DEF Deliverable
<1>8. held[i].quantity \in Nat
  <2>1. held[i] \in LotType
    OBVIOUS
  <2> QED BY <2>1 DEF LotType
<1>9. CASE Settled(held[i])
  <2>1. Min({held[i].quantity, q - d[i - 1]})
          = IF held[i].quantity <= q - d[i - 1] THEN held[i].quantity ELSE q - d[i - 1]
    BY <1>6, <1>8, MinOfTwo, SMTT(30)
  <2>2. Max({0, Min({held[i].quantity, q - d[i - 1]})})
          = IF 0 <= Min({held[i].quantity, q - d[i - 1]})
            THEN Min({held[i].quantity, q - d[i - 1]}) ELSE 0
    <3>1. 0 \in Int /\ Min({held[i].quantity, q - d[i - 1]}) \in Int
      BY <1>6, <1>8, <2>1
    <3> QED BY <3>1, MaxOfTwo
  <2>3. Taken(held, q, i) = Max({0, Min({held[i].quantity, q - d[i - 1]})})
    BY <1>5, <1>9 DEF Taken
  <2> QED BY <1>6, <1>7, <1>8, <1>9, <2>1, <2>2, <2>3
<1>10. CASE ~Settled(held[i])
  BY <1>6, <1>7, <1>10 DEF Taken
<1> QED BY <1>9, <1>10

(* A sale of no more than can be delivered takes exactly what it sells, no *)
(* lot for more than it has, and none before every settled one before it   *)
(* is emptied.                                                             *)
LEMMA SaleTakes ==
  ASSUME NEW held \in Seq(LotType), NEW q \in Nat \ {0}, q <= Total(Deliverable, held)
  PROVE  /\ \A i \in DOMAIN held : /\ Taken(held, q, i) \in 0 .. held[i].quantity
                                   /\ ~Settled(held[i]) => Taken(held, q, i) = 0
         /\ SumOf([i \in DOMAIN held |-> Taken(held, q, i)]) = q
         /\ \E i \in DOMAIN held : Taken(held, q, i) > 0
         /\ \A i, j \in DOMAIN held :
              i < j /\ Settled(held[i]) /\ Taken(held, q, j) > 0
                => Taken(held, q, i) = held[i].quantity
<1> DEFINE nums  == [i \in DOMAIN held |-> Deliverable(held[i])]
           taken == [i \in DOMAIN held |-> Taken(held, q, i)]
<1>1. PICK N \in Nat : N = Len(held) /\ DOMAIN held = 1 .. N
  OBVIOUS
<1>2. nums \in Seq(Nat) /\ nums \in Seq(Int) /\ Len(nums) = N
  <2>1. nums \in Seq(Nat)
    BY DeliverableType
  <2> QED BY <1>1, <2>1
<1>3. PICK d : AddsUp(d, nums) /\ SumOf(nums) = d[N]
  <2> HIDE DEF nums
  <2> QED BY <1>2, SumOfFacts
<1>4. /\ d \in [0 .. N -> Int] /\ d[0] = 0 /\ q <= d[N]
      /\ \A n \in 1 .. N : d[n] = d[n - 1] + Deliverable(held[n])
  <2>1. q <= d[N]
    BY <1>3 DEF Total
  <2>2. d \in [0 .. N -> Int] /\ d[0] = 0 /\ \A n \in 1 .. N : d[n] = d[n - 1] + nums[n]
    <3> HIDE DEF nums
    <3> QED BY <1>2, <1>3 DEF AddsUp
  <2> QED BY <1>1, <2>1, <2>2
<1>5. \A i \in 0 .. N, j \in 0 .. N : i <= j => d[i] <= d[j]
  <2> HIDE DEF nums
  <2> QED BY <1>2, <1>3, AddsUpGrows
<1>6. \A i \in 1 .. N : /\ d[i - 1] \in Nat /\ held[i].quantity \in Nat \ {0}
                        /\ Deliverable(held[i]) = IF Settled(held[i]) THEN held[i].quantity ELSE 0
  <2>1. \A i \in 1 .. N : i - 1 \in 0 .. N /\ 0 \in 0 .. N /\ 0 <= i - 1
    OBVIOUS
  <2>2. \A i \in 1 .. N : held[i] \in LotType
    BY <1>1
  <2>3. \A i \in 1 .. N : d[0] <= d[i - 1]
    BY <1>5, <2>1
  <2> SUFFICES ASSUME NEW i \in 1 .. N
      PROVE  /\ d[i - 1] \in Nat /\ held[i].quantity \in Nat \ {0}
             /\ Deliverable(held[i]) = IF Settled(held[i]) THEN held[i].quantity ELSE 0
    OBVIOUS
  <2>4. d[i - 1] \in Int /\ d[i - 1] >= 0
    BY <1>4, <2>1, <2>3
  <2>5. held[i].quantity \in Nat \ {0}
    BY <2>2 DEF LotType
  <2>6. Deliverable(held[i]) = IF Settled(held[i]) THEN held[i].quantity ELSE 0
    BY DEF Deliverable
  <2>7. d[i - 1] \in Nat
    BY <2>4
  <2> QED BY <2>5, <2>6, <2>7
<1>7. \A i \in 1 .. N : Taken(held, q, i) =
           IF q - d[i - 1] <= 0 THEN 0
           ELSE IF Deliverable(held[i]) <= q - d[i - 1] THEN Deliverable(held[i])
                ELSE q - d[i - 1]
  BY <1>1, <1>3, TakenIs
<1>8. ASSUME NEW i \in 1 .. N
      PROVE  /\ Taken(held, q, i) \in 0 .. held[i].quantity
             /\ ~Settled(held[i]) => Taken(held, q, i) = 0
  BY <1>6, <1>7, SMTT(30)
<1>9. SumOf(taken) = q
  <2> DEFINE f == [n \in 0 .. N |-> IF d[n] <= q THEN d[n] ELSE q]
  <2>1. taken \in Seq(Int) /\ Len(taken) = N
    BY <1>1, <1>8
  <2>2. f \in [0 .. N -> Int] /\ f[0] = 0 /\ f[N] = q
    BY <1>4
  <2>3. ASSUME NEW n \in 1 .. N PROVE f[n] = f[n - 1] + taken[n]
    <3>1. n \in 0 .. N /\ n - 1 \in 0 .. N /\ d[n] \in Int /\ d[n] = d[n - 1] + Deliverable(held[n])
      BY <1>4
    <3>2. taken[n] = IF q - d[n - 1] <= 0 THEN 0
                     ELSE IF Deliverable(held[n]) <= q - d[n - 1] THEN Deliverable(held[n])
                          ELSE q - d[n - 1]
      BY <1>1, <1>7
    <3>3. Deliverable(held[n]) \in Nat /\ d[n - 1] \in Nat
      BY <1>6, SMTT(30)
    <3> HIDE DEF taken
    <3> QED BY <3>1, <3>2, <3>3
  <2>4. AddsUp(f, taken)
    <3> HIDE DEF f, taken
    <3> QED BY <2>1, <2>2, <2>3 DEF AddsUp
  <2> HIDE DEF f, taken
  <2> QED BY <2>1, <2>2, <2>4, SumOfAddsUp
<1>10. \E i \in 1 .. N : Taken(held, q, i) > 0
  <2>1. SUFFICES ASSUME \A i \in 1 .. N : Taken(held, q, i) = 0 PROVE FALSE
    BY <1>8
  <2>2. taken \in Seq(Int) /\ \A i \in DOMAIN taken : taken[i] = 0
    BY <1>1, <2>1
  <2> HIDE DEF taken
  <2> QED BY <1>9, <2>2, SumOfZeros
<1>11. ASSUME NEW i \in 1 .. N, NEW j \in 1 .. N, i < j, Settled(held[i]), Taken(held, q, j) > 0
       PROVE  Taken(held, q, i) = held[i].quantity
  <2>1. i \in 0 .. N /\ j - 1 \in 0 .. N /\ i <= j - 1
    BY <1>11
  <2>2. d[i] <= d[j - 1] /\ d[i] = d[i - 1] + held[i].quantity
    BY <1>4, <1>5, <1>6, <1>11, <2>1
  <2>3. q - d[j - 1] > 0
    BY <1>6, <1>7, <1>11
  <2>4. Deliverable(held[i]) = held[i].quantity /\ held[i].quantity \in Nat
        /\ d[i - 1] \in Nat /\ d[j - 1] \in Nat
    BY <1>6, <1>11
  <2>5. held[i].quantity <= q - d[i - 1] /\ ~(q - d[i - 1] <= 0)
    BY <2>2, <2>3, <2>4
  <2> QED BY <1>7, <2>4, <2>5
<1> QED BY <1>1, <1>8, <1>9, <1>10, <1>11

----------------------------------------------------------------------------
(* A lot while the sale goes on: it may be empty.                          *)
CutLot == [quantity : Nat, price : Price, settles : Nat, preExisting : BOOLEAN, id : Nat \ {0}]

LEMMA CutLotIs ==
  ASSUME NEW lot \in LotType, NEW n \in Nat
  PROVE  /\ [lot EXCEPT !.quantity = n] \in CutLot
         /\ [lot EXCEPT !.quantity = n].quantity = n
         /\ n > 0 => [lot EXCEPT !.quantity = n] \in LotType
BY DEF LotType, CutLot

LEMMA LessenedIs ==
  ASSUME NEW held \in Seq(LotType), NEW q \in Nat \ {0}, q <= Total(Deliverable, held)
  PROVE  /\ Lessened(held, q) \in Seq(CutLot) /\ DOMAIN Lessened(held, q) = DOMAIN held
         /\ \A i \in DOMAIN held :
              /\ Lessened(held, q)[i] = [held[i] EXCEPT !.quantity = @ - Taken(held, q, i)]
              /\ Lessened(held, q)[i] \in CutLot
              /\ Lessened(held, q)[i].quantity = held[i].quantity - Taken(held, q, i)
              /\ Lessened(held, q)[i].quantity > 0 => Lessened(held, q)[i] \in LotType
<1>1. ASSUME NEW i \in DOMAIN held
      PROVE  /\ [held[i] EXCEPT !.quantity = @ - Taken(held, q, i)] \in CutLot
             /\ [held[i] EXCEPT !.quantity = @ - Taken(held, q, i)].quantity
                  = held[i].quantity - Taken(held, q, i)
             /\ held[i].quantity - Taken(held, q, i) > 0
                  => [held[i] EXCEPT !.quantity = @ - Taken(held, q, i)] \in LotType
  <2>1. held[i] \in LotType
    OBVIOUS
  <2>2. Taken(held, q, i) \in 0 .. held[i].quantity
    BY SaleTakes
  <2>3. held[i].quantity - Taken(held, q, i) \in Nat
    BY <2>1, <2>2 DEF LotType
  <2> QED BY <2>1, <2>3, CutLotIs
<1>2. Lessened(held, q)
        = [i \in DOMAIN held |-> [held[i] EXCEPT !.quantity = @ - Taken(held, q, i)]]
  BY DEF Lessened
<1> HIDE DEF Lessened
<1>3. Lessened(held, q) \in Seq(CutLot) /\ DOMAIN Lessened(held, q) = DOMAIN held
  BY <1>1, <1>2
<1> QED BY <1>1, <1>2, <1>3

LEMMA RemainingType ==
  ASSUME NEW held \in Seq(LotType), NEW q \in Nat \ {0}, q <= Total(Deliverable, held)
  PROVE  Remaining(held, q) \in Seq(LotType)
<1> DEFINE less == Lessened(held, q)
           left == {i \in DOMAIN held : less[i].quantity > 0}
<1>1. less \in Seq(CutLot) /\ \A i \in DOMAIN less : i \in left => less[i] \in LotType
  BY LessenedIs
<1>2. Remaining(held, q) = Picked(less, left)
  BY DEF Remaining
<1> HIDE DEF less, left
<1> QED BY <1>1, <1>2, PickedType

Weighted(W, held)         == [i \in DOMAIN held |-> held[i].quantity * W[held[i]]]
TakenWeighted(W, held, q) == [i \in DOMAIN held |-> Taken(held, q, i) * W[held[i]]]

(* A total with a weight for each lot, that the lot keeps while it is cut: *)
(* a sale lessens it by the weight of what it takes.                       *)
LEMMA RemainingTotal ==
  ASSUME NEW held \in Seq(LotType), NEW q \in Nat \ {0}, q <= Total(Deliverable, held),
         NEW W \in [LotType -> Int],
         \A lot \in LotType, n \in Nat \ {0} : W[[lot EXCEPT !.quantity = n]] = W[lot]
  PROVE  SumOf(Weighted(W, Remaining(held, q)))
           = SumOf(Weighted(W, held)) - SumOf(TakenWeighted(W, held, q))
<1> DEFINE less == Lessened(held, q)
           S    == {i \in DOMAIN held : less[i].quantity > 0}
           F    == [lot \in LotType |-> lot.quantity * W[lot]]
           p    == Picked(less, S)
           all  == ValuesWhere(F, less, S)
           a    == [i \in DOMAIN held |-> held[i].quantity * W[held[i]]]
           b    == [i \in DOMAIN held |-> Taken(held, q, i) * W[held[i]]]
<1>1. PICK N \in Nat : N = Len(held) /\ DOMAIN held = 1 .. N
  OBVIOUS
<1>2. /\ less \in Seq(CutLot) /\ DOMAIN less = DOMAIN held
      /\ \A i \in DOMAIN less : i \in S => less[i] \in LotType
  BY LessenedIs
<1>3. F \in [LotType -> Int]
  <2>1. ASSUME NEW lot \in LotType PROVE lot.quantity * W[lot] \in Int
    <3>1. lot.quantity \in Int
      BY DEF LotType
    <3>2. W[lot] \in Int
      OBVIOUS
    <3> QED BY <3>1, <3>2
  <2> QED BY <2>1
<1>4. SumOf(Values(F, p)) = SumOf(all)
  <2> HIDE DEF less, S, F
  <2> QED BY <1>2, <1>3, SumOfPicked
<1>5. ASSUME NEW i \in DOMAIN held
      PROVE  /\ (IF i \in S THEN F[less[i]] ELSE 0)
                  = held[i].quantity * W[held[i]] - Taken(held, q, i) * W[held[i]]
             /\ held[i].quantity * W[held[i]] \in Int /\ Taken(held, q, i) * W[held[i]] \in Int
  <2>1. PICK x \in Nat \ {0}, w \in Int, t \in Nat :
          held[i].quantity = x /\ W[held[i]] = w /\ Taken(held, q, i) = t /\ t <= x
    <3>1. held[i] \in LotType
      OBVIOUS
    <3>2. Taken(held, q, i) \in 0 .. held[i].quantity
      BY SaleTakes
    <3>3. held[i].quantity \in Nat \ {0} /\ W[held[i]] \in Int
      BY <3>1 DEF LotType
    <3> QED BY <3>2, <3>3
  <2>2. x * w - t * w = (x - t) * w /\ x * w \in Int /\ t * w \in Int
    BY <2>1
  <2>3. less[i].quantity = x - t /\ less[i] = [held[i] EXCEPT !.quantity = x - t]
    <3>1. less[i] = [held[i] EXCEPT !.quantity = @ - Taken(held, q, i)]
      BY LessenedIs
    <3>2. less[i].quantity = held[i].quantity - Taken(held, q, i)
      BY LessenedIs
    <3> HIDE DEF less
    <3> QED BY <2>1, <3>1, <3>2
  <2>4. CASE x - t > 0
    <3>1. W[less[i]] = w
      <4>1. held[i] \in LotType /\ x - t \in Nat \ {0}
        BY <2>1, <2>4
      <4> HIDE DEF less
      <4> QED BY <2>1, <2>3, <4>1
    <3>2. i \in S /\ less[i] \in LotType
      BY <1>2, <2>3, <2>4
    <3>3. F[less[i]] = (x - t) * w
      <4> HIDE DEF less, S
      <4> QED BY <2>3, <3>1, <3>2
    <3> HIDE DEF less, S, F
    <3> QED BY <2>1, <2>2, <3>2, <3>3
  <2>5. CASE ~(x - t > 0)
    <3>1. x - t = 0 /\ i \notin S
      <4>1. x - t = 0
        BY <2>1, <2>5
      <4>2. ~(less[i].quantity > 0)
        <5> HIDE DEF less
        <5> QED BY <2>3, <4>1
      <4> HIDE DEF less
      <4> QED BY <4>1, <4>2
    <3>2. (x - t) * w = 0
      BY <3>1
    <3> HIDE DEF less, S, F
    <3> QED BY <2>1, <2>2, <3>1, <3>2
  <2> QED BY <2>4, <2>5
<1>6. /\ a \in [1 .. N -> Int] /\ b \in [1 .. N -> Int]
      /\ all = [i \in 1 .. N |-> a[i] - b[i]]
  <2>1. a \in [1 .. N -> Int] /\ b \in [1 .. N -> Int]
    BY <1>1, <1>5
  <2>2. \A i \in 1 .. N : /\ a[i] = held[i].quantity * W[held[i]]
                           /\ b[i] = Taken(held, q, i) * W[held[i]]
    BY <1>1
  <2>3. DOMAIN less = 1 .. N
    BY <1>1, <1>2
  <2>4. all = [i \in 1 .. N |-> IF i \in S THEN F[less[i]] ELSE 0]
    <3> HIDE DEF less, S, F
    <3> QED BY <2>3 DEF ValuesWhere
  <2> HIDE DEF a, b, less, S, F
  <2> HIDE DEF all
  <2> QED BY <1>1, <1>5, <2>1, <2>2, <2>3, <2>4
<1>7. SumOf(all) = SumOf(a) - SumOf(b)
  <2> HIDE DEF a, b, all
  <2> QED BY <1>6, SumOfMinus
<1>8. Remaining(held, q) = p
  BY DEF Remaining
<1>9. Values(F, p) = [j \in DOMAIN p |-> p[j].quantity * W[p[j]]]
  <2>1. p \in Seq(LotType)
    BY <1>8, RemainingType
  <2>2. \A j \in DOMAIN p : p[j] \in LotType
    <3> HIDE DEF p
    <3> QED BY <2>1
  <2> HIDE DEF p
  <2> QED BY <2>2 DEF Values
<1>10. /\ Weighted(W, p) = [j \in DOMAIN p |-> p[j].quantity * W[p[j]]]
       /\ Weighted(W, held) = a /\ TakenWeighted(W, held, q) = b
  <2> HIDE DEF p
  <2> QED BY DEF Weighted, TakenWeighted
<1> HIDE DEF less, S, F, p, all, a, b
<1> QED BY <1>4, <1>7, <1>8, <1>9, <1>10

----------------------------------------------------------------------------
(* The commission of a sale is in exactly one of its slices.               *)
LEMMA CommissionOnce ==
  ASSUME NEW held \in Seq(LotType), NEW q \in Nat \ {0}, q <= Total(Deliverable, held),
         NEW fee \in Int
  PROVE  SumOf([i \in DOMAIN held |->
                  IF Taken(held, q, i) > 0 /\ ~(\E j \in 1 .. i - 1 : Taken(held, q, j) > 0)
                  THEN fee ELSE 0]) = fee
<1>1. PICK N \in Nat : N = Len(held) /\ DOMAIN held = 1 .. N
  OBVIOUS
<1> DEFINE T == {i \in 1 .. N : Taken(held, q, i) > 0}
           c == [i \in 1 .. N |-> IF i \in T /\ ~(\E j \in 1 .. i - 1 : j \in T) THEN fee ELSE 0]
           f == [n \in 0 .. N |-> IF \E j \in 1 .. n : j \in T THEN fee ELSE 0]
<1>2. \E i \in 1 .. N : i \in T
  BY <1>1, SaleTakes
<1>3. [i \in DOMAIN held |->
         IF Taken(held, q, i) > 0 /\ ~(\E j \in 1 .. i - 1 : Taken(held, q, j) > 0)
         THEN fee ELSE 0] = c
  BY <1>1
<1> HIDE DEF T
<1>4. c \in Seq(Int) /\ Len(c) = N
  OBVIOUS
<1>5. f \in [0 .. N -> Int] /\ f[0] = 0
  OBVIOUS
<1>6. ASSUME NEW n \in 1 .. N PROVE f[n] = f[n - 1] + c[n]
  <2>1. n - 1 \in 0 .. N /\ n \in 0 .. N
        /\ \A j : j \in 1 .. n <=> j \in 1 .. n - 1 \/ j = n
    OBVIOUS
  <2> QED BY <2>1
<1>7. AddsUp(f, c)
  <2> HIDE DEF f, c
  <2> QED BY <1>4, <1>5, <1>6 DEF AddsUp
<1>8. SumOf(c) = f[N]
  <2> HIDE DEF f, c
  <2> QED BY <1>4, <1>7, SumOfAddsUp
<1>9. f[N] = fee
  BY <1>2
<1> QED BY <1>3, <1>8, <1>9

(* What a sale needs to have.                                              *)
SaleTypes(s, q, p, fee) ==
  /\ lots[s] \in Seq(LotType) /\ q \in Nat \ {0} /\ q <= Total(Deliverable, lots[s])
  /\ s \in Symbol /\ p \in Price /\ fee \in Nat /\ today \in Date

LEMMA SliceType ==
  ASSUME NEW s, NEW q, NEW p, NEW fee, SaleTypes(s, q, p, fee),
         NEW i \in DOMAIN lots[s], Taken(lots[s], q, i) > 0
  PROVE  Slice(s, q, p, fee, i) \in TradeType
<1>1. lots[s][i] \in LotType
  BY DEF SaleTypes
<1>2. Taken(lots[s], q, i) \in 0 .. lots[s][i].quantity
  BY SaleTakes DEF SaleTypes
<1>3. Taken(lots[s], q, i) \in Nat \ {0} /\ lots[s][i].price \in Price
  BY <1>1, <1>2 DEF LotType
<1> QED BY <1>3 DEF Slice, TradeType, SaleTypes

LEMMA SlicesType ==
  ASSUME NEW s, NEW q, NEW p, NEW fee, SaleTypes(s, q, p, fee)
  PROVE  Slices(s, q, p, fee) \in Seq(TradeType)
<1> DEFINE seq  == [i \in DOMAIN lots[s] |-> Slice(s, q, p, fee, i)]
           sold == {i \in DOMAIN lots[s] : Taken(lots[s], q, i) > 0}
           A    == {Slice(s, q, p, fee, i) : i \in DOMAIN lots[s]}
<1>1. seq \in Seq(A)
  BY DEF SaleTypes
<1>2. \A i \in DOMAIN seq : i \in sold => seq[i] \in TradeType
  BY SliceType
<1>3. Slices(s, q, p, fee) = Picked(seq, sold)
  BY DEF Slices
<1> HIDE DEF seq, sold, A
<1> QED BY <1>1, <1>2, <1>3, PickedType

(* A total over the slices is a total over the lots that are cut.          *)
LEMMA SlicesTotal ==
  ASSUME NEW s, NEW q, NEW p, NEW fee, SaleTypes(s, q, p, fee), NEW V \in [TradeType -> Int]
  PROVE  SumOf(Values(V, Slices(s, q, p, fee)))
           = SumOf([i \in DOMAIN lots[s] |->
                      IF Taken(lots[s], q, i) > 0 THEN V[Slice(s, q, p, fee, i)] ELSE 0])
<1> DEFINE seq  == [i \in DOMAIN lots[s] |-> Slice(s, q, p, fee, i)]
           sold == {i \in DOMAIN lots[s] : Taken(lots[s], q, i) > 0}
           A    == {Slice(s, q, p, fee, i) : i \in DOMAIN lots[s]}
<1>1. seq \in Seq(A)
  BY DEF SaleTypes
<1>2. \A i \in DOMAIN seq : i \in sold => seq[i] \in TradeType
  BY SliceType
<1>3. Slices(s, q, p, fee) = Picked(seq, sold)
  BY DEF Slices
<1>4. SumOf(Values(V, Picked(seq, sold))) = SumOf(ValuesWhere(V, seq, sold))
  <2> HIDE DEF seq, sold, A
  <2> QED BY <1>1, <1>2, SumOfPicked
<1>5. ValuesWhere(V, seq, sold)
        = [i \in DOMAIN lots[s] |->
             IF Taken(lots[s], q, i) > 0 THEN V[Slice(s, q, p, fee, i)] ELSE 0]
  BY DEF ValuesWhere
<1> HIDE DEF seq, sold
<1> QED BY <1>3, <1>4, <1>5

(* The result of a sale: what was received for it, less the cost of what   *)
(* left the lots, less its commission once.                                *)
LEMMA SlicesPnl ==
  ASSUME LedgerConstants, NEW s, NEW q, NEW p, NEW fee, SaleTypes(s, q, p, fee)
  PROVE  SumOf(Values([t \in TradeType |-> GrossPnl(t) - t.commission], Slices(s, q, p, fee)))
           = p * q - SumOf([i \in DOMAIN lots[s] |-> Taken(lots[s], q, i) * lots[s][i].price]) - fee
<1> DEFINE V == [t \in TradeType |-> GrossPnl(t) - t.commission]
           taken == [i \in DOMAIN lots[s] |-> Taken(lots[s], q, i)]
           cost  == [i \in DOMAIN lots[s] |-> Taken(lots[s], q, i) * lots[s][i].price]
           comm  == [i \in DOMAIN lots[s] |->
                       IF /\ Taken(lots[s], q, i) > 0
                          /\ ~(\E j \in 1 .. i - 1 : Taken(lots[s], q, j) > 0)
                       THEN fee ELSE 0]
           all   == [i \in DOMAIN lots[s] |->
                       IF Taken(lots[s], q, i) > 0 THEN V[Slice(s, q, p, fee, i)] ELSE 0]
<1>1. PICK N \in Nat : N = Len(lots[s]) /\ DOMAIN lots[s] = 1 .. N
  BY DEF SaleTypes
<1>2. p \in Int /\ fee \in Int /\ q \in Int
  BY DEF SaleTypes, LedgerConstants
<1>3. ASSUME NEW i \in 1 .. N
      PROVE  /\ Taken(lots[s], q, i) \in Nat /\ lots[s][i].price \in Nat
             /\ Taken(lots[s], q, i) * lots[s][i].price \in Int
  <2>1. lots[s][i] \in LotType /\ lots[s] \in Seq(LotType)
    BY <1>1 DEF SaleTypes
  <2>2. Taken(lots[s], q, i) \in 0 .. lots[s][i].quantity
    BY <1>1, SaleTakes DEF SaleTypes
  <2>3. Taken(lots[s], q, i) \in Nat
    BY <2>1, <2>2 DEF LotType
  <2>4. lots[s][i].price \in Nat
    BY <2>1 DEF LotType, LedgerConstants
  <2> QED BY <2>3, <2>4
<1>4. /\ taken \in [1 .. N -> Int] /\ cost \in [1 .. N -> Int] /\ comm \in [1 .. N -> Int]
  BY <1>1, <1>2, <1>3
<1>5. V \in [TradeType -> Int]
  <2>1. ASSUME NEW t \in TradeType PROVE GrossPnl(t) - t.commission \in Int
    <3>1. t.exit \in Price /\ t.entry \in Price /\ t.quantity \in Int /\ t.commission \in Int
      BY DEF TradeType
    <3>2. t.exit \in Int /\ t.entry \in Int
      <4>1. Price \subseteq Int
        BY DEF LedgerConstants
      <4> QED BY <3>1, <4>1
    <3> QED BY <3>1, <3>2 DEF GrossPnl
  <2> QED BY <2>1
<1>6. SumOf(Values(V, Slices(s, q, p, fee))) = SumOf(all)
  <2> HIDE DEF V
  <2> QED BY <1>5, SlicesTotal
<1>7. ASSUME NEW i \in 1 .. N PROVE all[i] = (p * taken[i] - cost[i]) - comm[i]
  <2>1. CASE Taken(lots[s], q, i) > 0
    <3>1. Slice(s, q, p, fee, i) \in TradeType /\ all[i] = V[Slice(s, q, p, fee, i)]
      BY <1>1, <2>1, SliceType
    <3>2. V[Slice(s, q, p, fee, i)]
            = GrossPnl(Slice(s, q, p, fee, i)) - Slice(s, q, p, fee, i).commission
      BY <3>1
    <3>3. GrossPnl(Slice(s, q, p, fee, i))
            = (p - lots[s][i].price) * Taken(lots[s], q, i)
      BY DEF GrossPnl, Slice
    <3>4. Slice(s, q, p, fee, i).commission = comm[i]
      BY <1>1, <2>1 DEF Slice
    <3>5. taken[i] = Taken(lots[s], q, i) /\ cost[i] = Taken(lots[s], q, i) * lots[s][i].price
          /\ comm[i] \in Int
      BY <1>1, <1>4
    <3>6. PICK a \in Int, b \in Int, x \in Int :
             p = a /\ lots[s][i].price = b /\ Taken(lots[s], q, i) = x
      BY <1>2, <1>3
    <3>7. (a - b) * x = a * x - x * b
      BY <3>6
    <3> HIDE DEF V, taken, cost, comm, all
    <3> QED BY <3>1, <3>2, <3>3, <3>4, <3>5, <3>6, <3>7
  <2>2. CASE ~(Taken(lots[s], q, i) > 0)
    <3>1. Taken(lots[s], q, i) = 0
      BY <1>3, <2>2
    <3>2. all[i] = 0 /\ taken[i] = 0 /\ comm[i] = 0 /\ cost[i] = 0 * lots[s][i].price
      BY <1>1, <2>2, <3>1
    <3>3. 0 * lots[s][i].price = 0 /\ p * 0 = 0
      BY <1>2, <1>3
    <3> HIDE DEF V, taken, cost, comm, all
    <3> QED BY <3>2, <3>3
  <2> QED BY <2>1, <2>2
<1> DEFINE gain == [i \in 1 .. N |-> p * taken[i]]
           net  == [i \in 1 .. N |-> gain[i] - cost[i]]
<1>8. all = [i \in 1 .. N |-> net[i] - comm[i]]
  <2>1. DOMAIN all = 1 .. N /\ all = [i \in 1 .. N |-> all[i]]
    BY <1>1
  <2>2. \A i \in 1 .. N : net[i] = p * taken[i] - cost[i]
    <3> HIDE DEF taken, cost
    <3> QED OBVIOUS
  <2> HIDE DEF all, net, comm, taken, cost
  <2> QED BY <1>7, <2>1, <2>2
<1>9. SumOf(gain) = p * SumOf(taken)
  <2> HIDE DEF taken
  <2> QED BY <1>2, <1>4, SumOfTimes
<1>10. gain \in [1 .. N -> Int] /\ net \in [1 .. N -> Int]
  <2> HIDE DEF taken, cost
  <2> QED BY <1>2, <1>4
<1>11. SumOf(net) = SumOf(gain) - SumOf(cost)
  <2> HIDE DEF gain, cost
  <2> QED BY <1>4, <1>10, SumOfMinus
<1>12. SumOf([i \in 1 .. N |-> net[i] - comm[i]]) = SumOf(net) - SumOf(comm)
  <2> HIDE DEF net, comm
  <2> QED BY <1>4, <1>10, SumOfMinus
<1>13. SumOf(comm) = fee /\ SumOf(taken) = q
  <2>1. PICK held \in Seq(LotType) : held = lots[s]
    BY DEF SaleTypes
  <2>2. q \in Nat \ {0} /\ q <= Total(Deliverable, held)
    BY <2>1 DEF SaleTypes
  <2>3. SumOf([i \in DOMAIN held |-> Taken(held, q, i)]) = q
    BY <2>2, SaleTakes
  <2>4. SumOf([i \in DOMAIN held |->
                  IF Taken(held, q, i) > 0 /\ ~(\E j \in 1 .. i - 1 : Taken(held, q, j) > 0)
                  THEN fee ELSE 0]) = fee
    BY <1>2, <2>2, CommissionOnce
  <2> QED BY <2>1, <2>3, <2>4
<1> HIDE DEF V, taken, cost, comm, all, gain, net
<1> QED BY <1>6, <1>8, <1>9, <1>11, <1>12, <1>13 DEF V, cost

----------------------------------------------------------------------------
(* The totals of the book as sums of values.                               *)
QuantityOf == [lot \in LotType |-> lot.quantity]
CostIn     == [lot \in LotType |-> lot.quantity * lot.price]
Delivered(d)  == [lot \in LotType |-> IF lot.preExisting \/ d >= lot.settles THEN lot.quantity ELSE 0]
Coming(d, e)  == [lot \in LotType |->
                    IF ~(lot.preExisting \/ d >= lot.settles) /\ lot.settles = e
                    THEN lot.quantity ELSE 0]
PnlOf      == [t \in TradeType |-> GrossPnl(t) - t.commission]
SoldOf(s)  == [t \in TradeType |-> IF t.symbol = s THEN t.quantity ELSE 0]

LEMMA LotValues ==
  ASSUME LedgerConstants
  PROVE  /\ QuantityOf \in [LotType -> Int] /\ CostIn \in [LotType -> Int]
         /\ \A d : Delivered(d) \in [LotType -> Int]
         /\ \A d, e : Coming(d, e) \in [LotType -> Int]
<1>1. Price \subseteq Int
  BY DEF LedgerConstants
<1>2. ASSUME NEW lot \in LotType PROVE lot.quantity \in Int /\ lot.quantity * lot.price \in Int
  <2>1. lot.quantity \in Int /\ lot.price \in Price
    BY DEF LotType
  <2>2. lot.price \in Int
    BY <1>1, <2>1
  <2> QED BY <2>1, <2>2
<1> QED BY <1>2 DEF QuantityOf, CostIn, Delivered, Coming

LEMMA TradeValues ==
  ASSUME LedgerConstants
  PROVE  PnlOf \in [TradeType -> Int] /\ \A s : SoldOf(s) \in [TradeType -> Int]
<1>1. Price \subseteq Int
  BY DEF LedgerConstants
<1>2. ASSUME NEW t \in TradeType PROVE t.quantity \in Int /\ GrossPnl(t) - t.commission \in Int
  <2>1. t.exit \in Price /\ t.entry \in Price /\ t.quantity \in Int /\ t.commission \in Int
    BY DEF TradeType
  <2>2. t.exit \in Int /\ t.entry \in Int
    BY <1>1, <2>1
  <2> QED BY <2>1, <2>2 DEF GrossPnl
<1> QED BY <1>2 DEF PnlOf, SoldOf

LEMMA TotalsAreValues ==
  ASSUME NEW held \in Seq(LotType)
  PROVE  /\ Total(LAMBDA lot : lot.quantity, held) = SumOf(Values(QuantityOf, held))
         /\ CostOf(held) = SumOf(Values(CostIn, held))
         /\ Total(Deliverable, held) = SumOf(Values(Delivered(today), held))
         /\ \A d : Total(LAMBDA lot : IF ~Settled(lot) /\ lot.settles = d THEN lot.quantity ELSE 0,
                         held) = SumOf(Values(Coming(today, d), held))
<1>1. \A i \in DOMAIN held : held[i] \in LotType
  OBVIOUS
<1>2. [i \in DOMAIN held |-> held[i].quantity] = Values(QuantityOf, held)
  BY <1>1 DEF Values, QuantityOf
<1>3. [i \in DOMAIN held |-> held[i].quantity * held[i].price] = Values(CostIn, held)
  BY <1>1 DEF Values, CostIn
<1>4. [i \in DOMAIN held |-> Deliverable(held[i])] = Values(Delivered(today), held)
  BY <1>1 DEF Values, Delivered, Deliverable, Settled
<1>5. ASSUME NEW d
      PROVE  [i \in DOMAIN held |->
                IF ~Settled(held[i]) /\ held[i].settles = d THEN held[i].quantity ELSE 0]
               = Values(Coming(today, d), held)
  BY <1>1 DEF Values, Coming, Settled
<1> QED BY <1>2, <1>3, <1>4, <1>5 DEF Total, CostOf

LEMMA TradesAreValues ==
  ASSUME NEW trades \in Seq(TradeType)
  PROVE  /\ Total(LAMBDA t : GrossPnl(t) - t.commission, trades) = SumOf(Values(PnlOf, trades))
         /\ \A s : Total(LAMBDA t : IF t.symbol = s THEN t.quantity ELSE 0, trades)
                      = SumOf(Values(SoldOf(s), trades))
<1>1. \A i \in DOMAIN trades : trades[i] \in TradeType
  OBVIOUS
<1>2. [i \in DOMAIN trades |-> GrossPnl(trades[i]) - trades[i].commission] = Values(PnlOf, trades)
  BY <1>1 DEF Values, PnlOf
<1>3. ASSUME NEW s
      PROVE  [i \in DOMAIN trades |-> IF trades[i].symbol = s THEN trades[i].quantity ELSE 0]
               = Values(SoldOf(s), trades)
  BY <1>1 DEF Values, SoldOf
<1> QED BY <1>2, <1>3 DEF Total

(* What a sale does to each total of the lots.                             *)
LEMMA SaleTotals ==
  ASSUME LedgerConstants, NEW held \in Seq(LotType), NEW q \in Nat \ {0},
         q <= Total(Deliverable, held)
  PROVE  /\ SumOf(Values(QuantityOf, Remaining(held, q))) = SumOf(Values(QuantityOf, held)) - q
         /\ SumOf(Values(CostIn, Remaining(held, q))) = SumOf(Values(CostIn, held))
              - SumOf([i \in DOMAIN held |-> Taken(held, q, i) * held[i].price])
         /\ SumOf(Values(Delivered(today), Remaining(held, q)))
              = SumOf(Values(Delivered(today), held)) - q
         /\ \A d : SumOf(Values(Coming(today, d), Remaining(held, q)))
                     = SumOf(Values(Coming(today, d), held))
<1>1. PICK left \in Seq(LotType) : left = Remaining(held, q)
  BY RemainingType
<1>2. /\ \A i \in DOMAIN held : held[i] \in LotType
      /\ \A i \in DOMAIN left : left[i] \in LotType
  OBVIOUS
<1>3. \A lot \in LotType : lot.quantity \in Nat /\ lot.price \in Int
  <2>1. Price \subseteq Int
    BY DEF LedgerConstants
  <2>2. \A lot \in LotType : lot.quantity \in Nat /\ lot.price \in Price
    BY DEF LotType
  <2> QED BY <2>1, <2>2
<1>4. \A i \in DOMAIN held : /\ Taken(held, q, i) \in Nat
                             /\ ~Settled(held[i]) => Taken(held, q, i) = 0
  <2>1. \A i \in DOMAIN held : Taken(held, q, i) \in 0 .. held[i].quantity
    BY SaleTakes
  <2>2. \A i \in DOMAIN held : ~Settled(held[i]) => Taken(held, q, i) = 0
    BY SaleTakes
  <2> QED BY <1>2, <1>3, <2>1, <2>2
<1>5. SumOf([i \in DOMAIN held |-> Taken(held, q, i)]) = q
  BY SaleTakes
<1>6. SumOf(Values(QuantityOf, left)) = SumOf(Values(QuantityOf, held)) - q
  <2> DEFINE W == [lot \in LotType |-> 1]
  <2>1. /\ W \in [LotType -> Int]
        /\ \A lot \in LotType, n \in Nat \ {0} : W[[lot EXCEPT !.quantity = n]] = W[lot]
    BY CutLotIs
  <2>2. SumOf(Weighted(W, left)) = SumOf(Weighted(W, held)) - SumOf(TakenWeighted(W, held, q))
    <3> HIDE DEF W
    <3> QED BY <1>1, <2>1, RemainingTotal
  <2>3. Weighted(W, left) = Values(QuantityOf, left)
    BY <1>2, <1>3 DEF Weighted, Values, QuantityOf
  <2>4. Weighted(W, held) = Values(QuantityOf, held)
    BY <1>2, <1>3 DEF Weighted, Values, QuantityOf
  <2>5. TakenWeighted(W, held, q) = [i \in DOMAIN held |-> Taken(held, q, i)]
    BY <1>2, <1>4 DEF TakenWeighted
  <2> HIDE DEF W
  <2> QED BY <1>5, <2>2, <2>3, <2>4, <2>5
<1>7. SumOf(Values(CostIn, left)) = SumOf(Values(CostIn, held))
              - SumOf([i \in DOMAIN held |-> Taken(held, q, i) * held[i].price])
  <2> DEFINE W == [lot \in LotType |-> lot.price]
  <2>1. /\ W \in [LotType -> Int]
        /\ \A lot \in LotType, n \in Nat \ {0} : W[[lot EXCEPT !.quantity = n]] = W[lot]
    <3>1. ASSUME NEW lot \in LotType, NEW n \in Nat \ {0}
          PROVE  /\ [lot EXCEPT !.quantity = n] \in LotType
                 /\ [lot EXCEPT !.quantity = n].price = lot.price
      BY CutLotIs DEF LotType
    <3> QED BY <1>3, <3>1
  <2>2. SumOf(Weighted(W, left)) = SumOf(Weighted(W, held)) - SumOf(TakenWeighted(W, held, q))
    <3> HIDE DEF W
    <3> QED BY <1>1, <2>1, RemainingTotal
  <2>3. Weighted(W, left) = Values(CostIn, left)
    BY <1>2, <1>3 DEF Weighted, Values, CostIn
  <2>4. Weighted(W, held) = Values(CostIn, held)
    BY <1>2, <1>3 DEF Weighted, Values, CostIn
  <2>5. TakenWeighted(W, held, q) = [i \in DOMAIN held |-> Taken(held, q, i) * held[i].price]
    BY <1>2, <1>4 DEF TakenWeighted
  <2> HIDE DEF W
  <2> QED BY <2>2, <2>3, <2>4, <2>5
<1>8. SumOf(Values(Delivered(today), left)) = SumOf(Values(Delivered(today), held)) - q
  <2> DEFINE W == [lot \in LotType |-> IF Settled(lot) THEN 1 ELSE 0]
  <2>1. /\ W \in [LotType -> Int]
        /\ \A lot \in LotType, n \in Nat \ {0} : W[[lot EXCEPT !.quantity = n]] = W[lot]
    <3>1. ASSUME NEW lot \in LotType, NEW n \in Nat \ {0}
          PROVE  /\ [lot EXCEPT !.quantity = n] \in LotType
                 /\ Settled([lot EXCEPT !.quantity = n]) = Settled(lot)
      BY CutLotIs DEF LotType, Settled
    <3> QED BY <3>1
  <2>2. SumOf(Weighted(W, left)) = SumOf(Weighted(W, held)) - SumOf(TakenWeighted(W, held, q))
    <3> HIDE DEF W
    <3> QED BY <1>1, <2>1, RemainingTotal
  <2>3. Weighted(W, left) = Values(Delivered(today), left)
    BY <1>2, <1>3 DEF Weighted, Values, Delivered, Settled
  <2>4. Weighted(W, held) = Values(Delivered(today), held)
    BY <1>2, <1>3 DEF Weighted, Values, Delivered, Settled
  <2>5. TakenWeighted(W, held, q) = [i \in DOMAIN held |-> Taken(held, q, i)]
    BY <1>2, <1>4 DEF TakenWeighted
  <2> HIDE DEF W
  <2> QED BY <1>5, <2>2, <2>3, <2>4, <2>5
<1>9. ASSUME NEW d
      PROVE  SumOf(Values(Coming(today, d), left)) = SumOf(Values(Coming(today, d), held))
  <2> DEFINE W == [lot \in LotType |-> IF ~Settled(lot) /\ lot.settles = d THEN 1 ELSE 0]
             none == TakenWeighted(W, held, q)
  <2>1. /\ W \in [LotType -> Int]
        /\ \A lot \in LotType, n \in Nat \ {0} : W[[lot EXCEPT !.quantity = n]] = W[lot]
    <3>1. ASSUME NEW lot \in LotType, NEW n \in Nat \ {0}
          PROVE  W[[lot EXCEPT !.quantity = n]] = W[lot]
      <4>1. /\ [lot EXCEPT !.quantity = n] \in LotType
            /\ Settled([lot EXCEPT !.quantity = n]) = Settled(lot)
            /\ [lot EXCEPT !.quantity = n].settles = lot.settles
        BY CutLotIs DEF LotType, Settled
      <4> QED BY <4>1
    <3>2. W \in [LotType -> Int]
      OBVIOUS
    <3> QED BY <3>1, <3>2
  <2>2. SumOf(Weighted(W, left)) = SumOf(Weighted(W, held)) - SumOf(none)
    <3> HIDE DEF W
    <3> QED BY <1>1, <2>1, RemainingTotal
  <2>3. Weighted(W, left) = Values(Coming(today, d), left)
    BY <1>2, <1>3 DEF Weighted, Values, Coming, Settled
  <2>4. Weighted(W, held) = Values(Coming(today, d), held)
    BY <1>2, <1>3 DEF Weighted, Values, Coming, Settled
  <2>5. none \in Seq(Int) /\ \A i \in DOMAIN none : none[i] = 0
    <3>1. \A i \in DOMAIN held : Taken(held, q, i) * W[held[i]] = 0
      BY <1>2, <1>4
    <3> HIDE DEF W
    <3> QED BY <3>1 DEF TakenWeighted
  <2>6. SumOf(none) = 0
    <3> HIDE DEF none
    <3> QED BY <2>5, SumOfZeros
  <2>7. SumOf(Values(Coming(today, d), held)) \in Int
    <3>1. Coming(today, d) \in [LotType -> Int]
      BY LotValues
    <3> QED BY <3>1, ValuesType
  <2> HIDE DEF W, none
  <2> QED BY <2>2, <2>3, <2>4, <2>6, <2>7
<1> QED BY <1>1, <1>6, <1>7, <1>8, <1>9

(* A sale is in the realised trades with exactly the shares sold.          *)
LEMMA SlicesSold ==
  ASSUME LedgerConstants, NEW s, NEW q, NEW p, NEW fee, SaleTypes(s, q, p, fee), NEW t
  PROVE  SumOf(Values(SoldOf(t), Slices(s, q, p, fee))) = IF t = s THEN q ELSE 0
<1> DEFINE held == lots[s]
           all == [i \in DOMAIN held |->
                     IF Taken(held, q, i) > 0 THEN SoldOf(t)[Slice(s, q, p, fee, i)] ELSE 0]
           taken == [i \in DOMAIN held |-> Taken(held, q, i)]
<1>1. SumOf(Values(SoldOf(t), Slices(s, q, p, fee))) = SumOf(all)
  <2>1. SoldOf(t) \in [TradeType -> Int]
    BY TradeValues
  <2> QED BY <2>1, SlicesTotal
<1>2. SumOf(taken) = q /\ \A i \in DOMAIN held : Taken(held, q, i) \in Nat
  <2>1. PICK h \in Seq(LotType) : h = lots[s]
    BY DEF SaleTypes
  <2>2. q \in Nat \ {0} /\ q <= Total(Deliverable, h)
    BY <2>1 DEF SaleTypes
  <2>3. /\ SumOf([i \in DOMAIN h |-> Taken(h, q, i)]) = q
        /\ \A i \in DOMAIN h : Taken(h, q, i) \in 0 .. h[i].quantity
    BY <2>2, SaleTakes
  <2>4. \A i \in DOMAIN h : h[i] \in LotType
    OBVIOUS
  <2>5. \A i \in DOMAIN h : h[i].quantity \in Nat
    BY <2>4 DEF LotType
  <2> QED BY <2>1, <2>3, <2>5
<1>3. ASSUME NEW i \in DOMAIN held, Taken(held, q, i) > 0
      PROVE  SoldOf(t)[Slice(s, q, p, fee, i)] = IF t = s THEN Taken(held, q, i) ELSE 0
  <2>1. Slice(s, q, p, fee, i) \in TradeType
    BY <1>3, SliceType
  <2>2. /\ Slice(s, q, p, fee, i).symbol = s
        /\ Slice(s, q, p, fee, i).quantity = Taken(held, q, i)
    BY DEF Slice
  <2> QED BY <2>1, <2>2 DEF SoldOf
<1>4. CASE t = s
  <2>1. all = taken
    <3>1. \A i \in DOMAIN held : ~(Taken(held, q, i) > 0) => Taken(held, q, i) = 0
      BY <1>2
    <3>2. \A i \in DOMAIN held :
            (IF Taken(held, q, i) > 0 THEN SoldOf(t)[Slice(s, q, p, fee, i)] ELSE 0)
              = Taken(held, q, i)
      BY <1>3, <1>4, <3>1
    <3> HIDE DEF held
    <3> QED BY <3>2
  <2> QED BY <1>1, <1>2, <1>4, <2>1
<1>5. CASE t # s
  <2>1. \A i \in DOMAIN held : all[i] = 0
    BY <1>3, <1>5
  <2>2. all \in Seq(Int) /\ \A i \in DOMAIN all : all[i] = 0
    <3>1. PICK N \in Nat : DOMAIN held = 1 .. N
      BY DEF SaleTypes
    <3>2. DOMAIN all = 1 .. N
      BY <3>1
    <3>3. \A i \in 1 .. N : all[i] = 0
      BY <2>1, <3>1
    <3>4. all = [i \in 1 .. N |-> 0]
      <4>1. all = [i \in 1 .. N |-> all[i]]
        BY <3>2
      <4> HIDE DEF all
      <4> QED BY <3>3, <4>1
    <3>5. [i \in 1 .. N |-> 0] \in Seq(Int)
      OBVIOUS
    <3> HIDE DEF all
    <3> QED BY <3>2, <3>3, <3>4, <3>5
  <2>3. SumOf(all) = 0
    <3> HIDE DEF all
    <3> QED BY <2>2, SumOfZeros
  <2> QED BY <1>1, <1>5, <2>3
<1> QED BY <1>4, <1>5

----------------------------------------------------------------------------
(* The book, symbol by symbol.                                             *)
LEMMA SymbolsFacts ==
  ASSUME LedgerConstants
  PROVE  /\ Cardinality(Symbol) \in Nat /\ Symbols \in [1 .. Cardinality(Symbol) -> Symbol]
         /\ \A s \in Symbol : \E i \in 1 .. Cardinality(Symbol) : Symbols[i] = s
         /\ \A i, j \in 1 .. Cardinality(Symbol) : Symbols[i] = Symbols[j] => i = j
BY SetToSeqFacts DEF LedgerConstants, Symbols

(* The cost of a book, given as a function of the symbol.                  *)
CostOfBook(book) == SumOf([i \in DOMAIN Symbols |-> CostOf(book[Symbols[i]])])

LEMMA CostOfType ==
  ASSUME LedgerConstants, NEW held \in Seq(LotType)
  PROVE  CostOf(held) \in Int
<1>1. CostIn \in [LotType -> Int]
  BY LotValues
<1>2. SumOf(Values(CostIn, held)) \in Int
  BY <1>1, ValuesType
<1> QED BY <1>2, TotalsAreValues

LEMMA BookCostIs == BookCost = CostOfBook(lots) /\ BookCost' = CostOfBook(lots')
BY DEF BookCost, CostOfBook, Total

LEMMA BookCostUpdate ==
  ASSUME LedgerConstants, NEW book \in [Symbol -> Seq(LotType)],
         NEW s \in Symbol, NEW held \in Seq(LotType)
  PROVE  /\ CostOfBook([book EXCEPT ![s] = held])
              = CostOfBook(book) - CostOf(book[s]) + CostOf(held)
         /\ CostOfBook(book) \in Int
<1> DEFINE new   == [book EXCEPT ![s] = held]
           costs == [i \in DOMAIN Symbols |-> CostOf(book[Symbols[i]])]
           after == [i \in DOMAIN Symbols |-> CostOf(new[Symbols[i]])]
<1>1. PICK N \in Nat : N = Cardinality(Symbol)
  BY SymbolsFacts
<1>2. DOMAIN Symbols = 1 .. N /\ \A i \in 1 .. N : Symbols[i] \in Symbol
  BY <1>1, SymbolsFacts
<1>3. PICK k \in 1 .. N : Symbols[k] = s
  BY <1>1, SymbolsFacts
<1>4. \A i \in 1 .. N : Symbols[i] = s => i = k
  BY <1>1, <1>3, SymbolsFacts
<1>5. costs \in [1 .. N -> Int]
  <2>1. ASSUME NEW i \in 1 .. N PROVE CostOf(book[Symbols[i]]) \in Int
    <3>1. book[Symbols[i]] \in Seq(LotType)
      BY <1>2
    <3> QED BY <3>1, CostOfType
  <2> QED BY <1>2, <2>1
<1>6. CostOf(held) \in Int
  BY CostOfType
<1>7. \A i \in 1 .. N : new[Symbols[i]] = IF i = k THEN held ELSE book[Symbols[i]]
  BY <1>2, <1>3, <1>4
<1>8. after = [costs EXCEPT ![k] = CostOf(held)]
  <2>1. \A i \in 1 .. N : costs[i] = CostOf(book[Symbols[i]])
    BY <1>2
  <2>2. \A i \in 1 .. N : after[i] = IF i = k THEN CostOf(held) ELSE costs[i]
    <3>1. \A i \in 1 .. N : after[i] = CostOf(new[Symbols[i]])
      BY <1>2
    <3> HIDE DEF after, new, costs
    <3> QED BY <1>7, <2>1, <3>1
  <2>3. after = [i \in 1 .. N |-> after[i]]
    BY <1>2
  <2> HIDE DEF after, new, costs
  <2> QED BY <1>5, <2>2, <2>3
<1>9. SumOf(after) = SumOf(costs) - costs[k] + CostOf(held)
  <2>1. SumOf([costs EXCEPT ![k] = CostOf(held)]) = SumOf(costs) - costs[k] + CostOf(held)
    <3> HIDE DEF costs
    <3> QED BY <1>5, <1>6, SumOfUpdate
  <2> HIDE DEF after, costs
  <2> QED BY <1>8, <2>1
<1>10. costs[k] = CostOf(book[s])
  BY <1>2, <1>3
<1>11. SumOf(costs) \in Int
  <2>1. costs \in Seq(Int)
    <3> HIDE DEF costs
    <3> QED BY <1>5
  <2> HIDE DEF costs
  <2> QED BY <2>1, SumOfFacts
<1> HIDE DEF costs, after
<1> QED BY <1>9, <1>10, <1>11 DEF CostOfBook, costs, after

----------------------------------------------------------------------------
(* The identities of the lots rise along the list, up to the last one      *)
(* given: the order of the list is the order of opening, whatever is sold. *)
Rising(held, n) ==
  /\ \A i \in DOMAIN held : held[i].id <= n
  /\ \A i, j \in DOMAIN held : i < j => held[i].id < held[j].id

IdsRise == \A s \in Symbol : Rising(lots[s], acquired.lots)

LEMMA RisingAppend ==
  ASSUME NEW held \in Seq(LotType), NEW n \in Nat, Rising(held, n),
         NEW lot \in LotType, lot.id = n + 1
  PROVE  Rising(Append(held, lot), n + 1)
<1>1. PICK N \in Nat : N = Len(held) /\ DOMAIN held = 1 .. N
  OBVIOUS
<1> DEFINE more == Append(held, lot)
<1>2. /\ DOMAIN more = 1 .. N + 1
      /\ \A i \in 1 .. N : more[i] = held[i]
      /\ more[N + 1] = lot
  BY <1>1
<1> HIDE DEF more
<1>3. \A i \in 1 .. N : held[i] \in LotType
  BY <1>1
<1>4. \A i \in 1 .. N : held[i].id \in Nat /\ held[i].id <= n
  BY <1>1, <1>3 DEF Rising, LotType
<1>5. ASSUME NEW i \in 1 .. N + 1 PROVE more[i].id <= n + 1
  <2>1. CASE i \in 1 .. N
    BY <1>2, <1>4, <2>1
  <2>2. CASE i = N + 1
    BY <1>2, <2>2
  <2> QED BY <2>1, <2>2
<1>6. ASSUME NEW i \in 1 .. N + 1, NEW j \in 1 .. N + 1, i < j
      PROVE  more[i].id < more[j].id
  <2>1. CASE j \in 1 .. N
    <3>1. i \in 1 .. N
      BY <1>6, <2>1
    <3>2. held[i].id < held[j].id
      BY <1>1, <1>6, <2>1, <3>1 DEF Rising
    <3> QED BY <1>2, <2>1, <3>1, <3>2
  <2>2. CASE j = N + 1
    <3>1. i \in 1 .. N
      BY <1>6, <2>2
    <3>2. /\ more[i].id = held[i].id /\ more[j].id = n + 1
      BY <1>2, <2>2, <3>1
    <3>3. held[i].id \in Nat /\ held[i].id <= n
      BY <1>4, <3>1
    <3> QED BY <3>2, <3>3
  <2> QED BY <2>1, <2>2
<1> QED BY <1>2, <1>5, <1>6 DEF Rising, more

(* What a sale leaves are the lots it does not empty, in the same order.   *)
LEMMA RemainingIs ==
  ASSUME NEW held \in Seq(LotType), NEW q \in Nat \ {0}, q <= Total(Deliverable, held)
  PROVE  \E e : InOrder(e, Remaining(held, q), Lessened(held, q),
                        {i \in DOMAIN held : Lessened(held, q)[i].quantity > 0})
<1>1. Lessened(held, q) \in Seq(CutLot)
  BY LessenedIs
<1> QED BY <1>1, PickedInOrder DEF Remaining

LEMMA RemainingOf ==
  ASSUME NEW held \in Seq(LotType), NEW q \in Nat \ {0}, q <= Total(Deliverable, held)
  PROVE  \E e \in [DOMAIN Remaining(held, q) -> DOMAIN held] :
           /\ \A j \in DOMAIN Remaining(held, q) :
                /\ Remaining(held, q)[j].id = held[e[j]].id
                /\ Taken(held, q, e[j]) < held[e[j]].quantity
           /\ \A j, k \in DOMAIN Remaining(held, q) : j < k => e[j] < e[k]
           /\ \A i \in DOMAIN held :
                Taken(held, q, i) = 0 => \E j \in DOMAIN Remaining(held, q) : Remaining(held, q)[j] = held[i]
<1> DEFINE p    == Remaining(held, q)
           less == Lessened(held, q)
           S    == {i \in DOMAIN held : less[i].quantity > 0}
<1>1. PICK e : InOrder(e, p, less, S)
  BY RemainingIs
<1>2. DOMAIN less = DOMAIN held
  BY LessenedIs
<1>3. \A i \in DOMAIN held : /\ less[i] = [held[i] EXCEPT !.quantity = @ - Taken(held, q, i)]
                             /\ less[i].quantity = held[i].quantity - Taken(held, q, i)
  BY LessenedIs
<1>4. \A i \in DOMAIN held : held[i] \in LotType
  OBVIOUS
<1>5. \A i \in DOMAIN held : Taken(held, q, i) \in 0 .. held[i].quantity
  BY SaleTakes
<1> HIDE DEF p, less
<1>6. /\ e \in [DOMAIN p -> DOMAIN held \cap S]
      /\ \A j \in DOMAIN p : p[j] = less[e[j]]
      /\ \A j, k \in DOMAIN p : j < k => e[j] < e[k]
      /\ \A i \in DOMAIN held \cap S : \E j \in DOMAIN p : e[j] = i
  BY <1>1, <1>2 DEF InOrder
<1>7. ASSUME NEW i \in DOMAIN held
      PROVE  /\ less[i].id = held[i].id
             /\ i \in S <=> Taken(held, q, i) < held[i].quantity
             /\ Taken(held, q, i) = 0 => i \in S /\ less[i] = held[i]
  <2>1. held[i].quantity \in Nat \ {0} /\ Taken(held, q, i) \in Nat
    BY <1>4, <1>5 DEF LotType
  <2>2. less[i].id = held[i].id
    BY <1>3, <1>4 DEF LotType
  <2>3. i \in S <=> Taken(held, q, i) < held[i].quantity
    <3>1. PICK x \in Nat \ {0}, t \in Nat : held[i].quantity = x /\ Taken(held, q, i) = t
      BY <2>1
    <3>2. less[i].quantity = x - t
      BY <1>3, <3>1
    <3>3. x - t > 0 <=> t < x
      BY <3>1
    <3> QED BY <3>1, <3>2, <3>3
  <2>4. ASSUME Taken(held, q, i) = 0 PROVE i \in S /\ less[i] = held[i]
    <3>1. less[i] = [held[i] EXCEPT !.quantity = held[i].quantity - 0]
      BY <1>3, <2>4
    <3>2. held[i].quantity - 0 = held[i].quantity
      BY <2>1
    <3>3. [held[i] EXCEPT !.quantity = held[i].quantity] = held[i]
      BY <1>4 DEF LotType
    <3> QED BY <2>1, <2>3, <2>4, <3>1, <3>2, <3>3
  <2> QED BY <2>2, <2>3, <2>4
<1>8. e \in [DOMAIN p -> DOMAIN held]
  BY <1>6
<1>9. ASSUME NEW j \in DOMAIN p
      PROVE  p[j].id = held[e[j]].id /\ Taken(held, q, e[j]) < held[e[j]].quantity
  <2>1. e[j] \in DOMAIN held /\ e[j] \in S /\ p[j] = less[e[j]]
    BY <1>6
  <2> HIDE DEF S
  <2> QED BY <1>7, <2>1
<1>10. ASSUME NEW i \in DOMAIN held, Taken(held, q, i) = 0
       PROVE  \E j \in DOMAIN p : p[j] = held[i]
  <2>1. i \in S /\ less[i] = held[i]
    BY <1>7, <1>10
  <2>2. PICK j \in DOMAIN p : e[j] = i
    <3> HIDE DEF S
    <3> QED BY <1>6, <2>1
  <2> QED BY <1>6, <2>1, <2>2
<1>11. \A j, k \in DOMAIN p : j < k => e[j] < e[k]
  BY <1>6
<1> HIDE DEF S
<1> QED BY <1>8, <1>9, <1>10, <1>11 DEF p

LEMMA RisingRemaining ==
  ASSUME NEW held \in Seq(LotType), NEW q \in Nat \ {0}, q <= Total(Deliverable, held),
         NEW n, Rising(held, n)
  PROVE  Rising(Remaining(held, q), n)
<1>1. PICK e \in [DOMAIN Remaining(held, q) -> DOMAIN held] :
        /\ \A j \in DOMAIN Remaining(held, q) : Remaining(held, q)[j].id = held[e[j]].id
        /\ \A j, k \in DOMAIN Remaining(held, q) : j < k => e[j] < e[k]
  BY RemainingOf
<1> QED BY <1>1 DEF Rising

(* A sale cuts a lot only when it empties every settled lot opened before. *)
LEMMA SaleIsFifo ==
  ASSUME NEW held \in Seq(LotType), NEW q \in Nat \ {0}, q <= Total(Deliverable, held),
         NEW n, Rising(held, n),
         NEW i \in DOMAIN held, NEW j \in DOMAIN held, held[i].id < held[j].id, Settled(held[i]),
         ~(\E k \in DOMAIN Remaining(held, q) : Remaining(held, q)[k] = held[j])
  PROVE  \A k \in DOMAIN Remaining(held, q) : Remaining(held, q)[k].id # held[i].id
<1>1. PICK N \in Nat : N = Len(held) /\ DOMAIN held = 1 .. N
  OBVIOUS
<1>2. \A m \in 1 .. N : held[m].id \in Nat /\ held[m].quantity \in Nat
  <2>1. \A m \in 1 .. N : held[m] \in LotType
    BY <1>1
  <2> QED BY <2>1 DEF LotType
<1>3. \A m \in 1 .. N : Taken(held, q, m) \in 0 .. held[m].quantity
  BY <1>1, SaleTakes
<1>4. PICK e \in [DOMAIN Remaining(held, q) -> DOMAIN held] :
        /\ \A k \in DOMAIN Remaining(held, q) :
             /\ Remaining(held, q)[k].id = held[e[k]].id
             /\ Taken(held, q, e[k]) < held[e[k]].quantity
        /\ \A m \in DOMAIN held :
             Taken(held, q, m) = 0 =>
               \E k \in DOMAIN Remaining(held, q) : Remaining(held, q)[k] = held[m]
  BY RemainingOf
<1>5. i < j
  BY <1>1, <1>2 DEF Rising
<1>6. Taken(held, q, j) > 0
  BY <1>1, <1>2, <1>3, <1>4
<1>7. Taken(held, q, i) = held[i].quantity
  BY <1>5, <1>6, SaleTakes
<1>8. SUFFICES ASSUME NEW k \in DOMAIN Remaining(held, q), Remaining(held, q)[k].id = held[i].id
               PROVE  FALSE
  OBVIOUS
<1>9. e[k] \in 1 .. N /\ held[e[k]].id = held[i].id
  BY <1>1, <1>4, <1>8
<1>10. e[k] = i
  BY <1>1, <1>2, <1>9 DEF Rising
<1> QED BY <1>1, <1>2, <1>4, <1>7, <1>10

----------------------------------------------------------------------------
(* What each operation does to the book, and that types are kept.          *)
LEMMA CommissionType ==
  ASSUME LedgerConstants, TypeOK, NEW notional \in Nat
  PROVE  Commission(notional) \in Nat
<1>1. notional \div FeeDivisor \in Nat
  BY DEF LedgerConstants
<1> QED BY <1>1 DEF Commission, LedgerConstants

LEMMA CountType ==
  ASSUME TypeOK, CountExecution
  PROVE  executions' \in [Months -> Nat]
BY DEF TypeOK, CountExecution, Months

AcquiredType == [shares : [Symbol -> Nat], seedCost : Nat, buyFees : Nat, lots : Nat]

(* What a new lot adds to the account of what was ever acquired.           *)
LEMMA SeedAcquired ==
  ASSUME NEW a \in AcquiredType, NEW s \in Symbol, NEW q \in Nat, NEW c \in Nat, NEW b,
         b = [a EXCEPT !.shares = [a.shares EXCEPT ![s] = @ + q], !.seedCost = @ + c, !.lots = @ + 1]
  PROVE  /\ b \in AcquiredType /\ b.shares = [a.shares EXCEPT ![s] = a.shares[s] + q]
         /\ b.lots = a.lots + 1 /\ b.seedCost = a.seedCost + c /\ b.buyFees = a.buyFees
<1>1. /\ a.shares \in [Symbol -> Nat] /\ a.seedCost \in Nat /\ a.buyFees \in Nat /\ a.lots \in Nat
  BY DEF AcquiredType
<1>2. [a.shares EXCEPT ![s] = a.shares[s] + q] \in [Symbol -> Nat]
  BY <1>1
<1>3. PICK sh \in [Symbol -> Nat] : sh = [a.shares EXCEPT ![s] = a.shares[s] + q]
  BY <1>2
<1>4. b = [a EXCEPT !.shares = sh, !.seedCost = a.seedCost + c, !.lots = a.lots + 1]
  BY <1>3
<1>5. PICK x \in Nat, y \in Nat : x = a.seedCost + c /\ y = a.lots + 1
  BY <1>1
<1>6. b = [a EXCEPT !.shares = sh, !.seedCost = x, !.lots = y]
  BY <1>4, <1>5
<1>7. b \in AcquiredType
  BY <1>6 DEF AcquiredType
<1>8. b.shares = sh /\ b.seedCost = x /\ b.lots = y /\ b.buyFees = a.buyFees
  BY <1>6 DEF AcquiredType
<1> QED BY <1>3, <1>5, <1>7, <1>8

LEMMA BuyAcquired ==
  ASSUME NEW a \in AcquiredType, NEW s \in Symbol, NEW q \in Nat, NEW c \in Nat, NEW b,
         b = [a EXCEPT !.shares = [a.shares EXCEPT ![s] = @ + q], !.buyFees = @ + c, !.lots = @ + 1]
  PROVE  /\ b \in AcquiredType /\ b.shares = [a.shares EXCEPT ![s] = a.shares[s] + q]
         /\ b.lots = a.lots + 1 /\ b.buyFees = a.buyFees + c /\ b.seedCost = a.seedCost
<1>1. /\ a.shares \in [Symbol -> Nat] /\ a.seedCost \in Nat /\ a.buyFees \in Nat /\ a.lots \in Nat
  BY DEF AcquiredType
<1>2. [a.shares EXCEPT ![s] = a.shares[s] + q] \in [Symbol -> Nat]
  BY <1>1
<1>3. PICK sh \in [Symbol -> Nat] : sh = [a.shares EXCEPT ![s] = a.shares[s] + q]
  BY <1>2
<1>4. b = [a EXCEPT !.shares = sh, !.buyFees = a.buyFees + c, !.lots = a.lots + 1]
  BY <1>3
<1>5. PICK x \in Nat, y \in Nat : x = a.buyFees + c /\ y = a.lots + 1
  BY <1>1
<1>6. b = [a EXCEPT !.shares = sh, !.buyFees = x, !.lots = y]
  BY <1>4, <1>5
<1>7. b \in AcquiredType
  BY <1>6 DEF AcquiredType
<1>8. b.shares = sh /\ b.buyFees = x /\ b.lots = y /\ b.seedCost = a.seedCost
  BY <1>6 DEF AcquiredType
<1> QED BY <1>3, <1>5, <1>7, <1>8

(* A lot q shares at p joins those of s.                                   *)
Opens(s, q, p, lot) ==
  /\ lot \in LotType /\ lot.quantity = q /\ lot.price = p /\ lot.id = acquired.lots + 1
  /\ lots' = [lots EXCEPT ![s] = Append(lots[s], lot)]
  /\ acquired'.shares = [acquired.shares EXCEPT ![s] = acquired.shares[s] + q]
  /\ acquired'.lots = acquired.lots + 1
  /\ realised' = realised

LEMMA ParameterTypes ==
  ASSUME LedgerConstants, NEW q \in Quantity, NEW p \in Price
  PROVE  q \in Nat \ {0} /\ p \in Nat \ {0} /\ q * p \in Nat /\ p * q = q * p
<1>1. q \in Nat \ {0} /\ p \in Nat \ {0}
  BY DEF LedgerConstants
<1> QED BY <1>1

LEMMA SeedDoes ==
  ASSUME LedgerConstants, TypeOK, UNCHANGED today,
         NEW s \in Symbol, NEW q \in Quantity, NEW p \in Price, AddPreExisting(s, q, p)
  PROVE  /\ TypeOK'
         /\ \E lot : Opens(s, q, p, lot) /\ lot.preExisting
         /\ cash' = cash /\ acquired'.seedCost = acquired.seedCost + q * p
         /\ acquired'.buyFees = acquired.buyFees
<1> DEFINE lot == Lot(q, p, 0, TRUE)
<1>1. q \in Nat \ {0} /\ q * p \in Nat
  BY ParameterTypes
<1>2. /\ lot \in LotType /\ lot.quantity = q /\ lot.price = p /\ lot.preExisting = TRUE
      /\ lot.id = acquired.lots + 1
  BY <1>1 DEF TypeOK, Lot, LotType
<1>3. lots' = [lots EXCEPT ![s] = Append(lots[s], lot)] /\ lots' \in [Symbol -> Seq(LotType)]
  <2>1. lots' = [lots EXCEPT ![s] = Append(lots[s], lot)]
    BY DEF AddPreExisting, Appended
  <2>2. lots \in [Symbol -> Seq(LotType)] /\ Append(lots[s], lot) \in Seq(LotType)
    <3> HIDE DEF lot
    <3> QED BY <1>2 DEF TypeOK
  <2> HIDE DEF lot
  <2> QED BY <2>1, <2>2
<1>4. acquired' = [acquired EXCEPT !.shares = [acquired.shares EXCEPT ![s] = @ + q], !.seedCost = @ + q * p, !.lots = @ + 1]
  BY DEF AddPreExisting
<1>5. /\ acquired \in [shares : [Symbol -> Nat], seedCost : Nat, buyFees : Nat, lots : Nat]
      /\ acquired.shares \in [Symbol -> Nat] /\ acquired.shares[s] \in Nat
  BY DEF TypeOK
<1>6. /\ acquired' \in [shares : [Symbol -> Nat], seedCost : Nat, buyFees : Nat, lots : Nat]
      /\ acquired'.shares = [acquired.shares EXCEPT ![s] = acquired.shares[s] + q]
      /\ acquired'.seedCost = acquired.seedCost + q * p
      /\ acquired'.buyFees = acquired.buyFees /\ acquired'.lots = acquired.lots + 1
  <2>1. acquired \in AcquiredType
    BY <1>5 DEF AcquiredType
  <2> QED BY <1>1, <1>4, <2>1, SeedAcquired DEF AcquiredType
<1>7. cash' = cash /\ realised' = realised /\ executions' = executions /\ today' = today
  BY DEF AddPreExisting
<1>8. TypeOK'
  BY <1>3, <1>6, <1>7 DEF TypeOK
<1>9. Opens(s, q, p, lot)
  BY <1>2, <1>3, <1>6, <1>7 DEF Opens
<1> HIDE DEF lot
<1>10. lot.preExisting
  BY <1>2, Zenon
<1> QED BY <1>6, <1>7, <1>8, <1>9, <1>10

LEMMA BuyDoes ==
  ASSUME LedgerConstants, SettlementAssumption, TypeOK, UNCHANGED today,
         NEW s \in Symbol, NEW q \in Quantity, NEW p \in Price, Buy(s, q, p)
  PROVE  /\ TypeOK'
         /\ \E lot : Opens(s, q, p, lot) /\ ~lot.preExisting /\ lot.settles = SettleDate(today)
         /\ \E fee \in Nat : /\ fee = Commission(q * p) /\ cash' = cash - (q * p + fee)
                             /\ acquired'.buyFees = acquired.buyFees + fee
         /\ acquired'.seedCost = acquired.seedCost
<1> DEFINE lot == Lot(q, p, SettleDate(today), FALSE)
<1>1. q \in Nat \ {0} /\ q * p \in Nat
  BY ParameterTypes
<1>2. PICK fee \in Nat : fee = Commission(q * p)
  BY <1>1, CommissionType
<1>3. SettleDate(today) \in Nat
  BY DEF TypeOK, SettlementAssumption
<1>4. /\ lot \in LotType /\ lot.quantity = q /\ lot.price = p /\ lot.preExisting = FALSE
      /\ lot.settles = SettleDate(today) /\ lot.id = acquired.lots + 1
  BY <1>1, <1>3 DEF TypeOK, Lot, LotType
<1>5. lots' = [lots EXCEPT ![s] = Append(lots[s], lot)] /\ lots' \in [Symbol -> Seq(LotType)]
  <2>1. lots' = [lots EXCEPT ![s] = Append(lots[s], lot)]
    BY DEF Buy, Appended
  <2>2. lots \in [Symbol -> Seq(LotType)] /\ Append(lots[s], lot) \in Seq(LotType)
    <3> HIDE DEF lot
    <3> QED BY <1>4 DEF TypeOK
  <2> HIDE DEF lot
  <2> QED BY <2>1, <2>2
<1>6. acquired' = [acquired EXCEPT !.shares = [acquired.shares EXCEPT ![s] = @ + q], !.buyFees = @ + fee, !.lots = @ + 1]
  BY <1>2 DEF Buy
<1>7. /\ acquired \in [shares : [Symbol -> Nat], seedCost : Nat, buyFees : Nat, lots : Nat]
      /\ acquired.shares \in [Symbol -> Nat] /\ acquired.shares[s] \in Nat
  BY DEF TypeOK
<1>8. /\ acquired' \in [shares : [Symbol -> Nat], seedCost : Nat, buyFees : Nat, lots : Nat]
      /\ acquired'.shares = [acquired.shares EXCEPT ![s] = acquired.shares[s] + q]
      /\ acquired'.seedCost = acquired.seedCost
      /\ acquired'.buyFees = acquired.buyFees + fee /\ acquired'.lots = acquired.lots + 1
  <2>1. acquired \in AcquiredType
    BY <1>7 DEF AcquiredType
  <2> QED BY <1>1, <1>6, <2>1, BuyAcquired DEF AcquiredType
<1>9. /\ cash' = cash - (q * p + fee) /\ realised' = realised /\ today' = today
      /\ CountExecution
  BY <1>2 DEF Buy
<1>10. executions' \in [Months -> Nat] /\ cash' \in Int
  <2>1. cash' \in Int
    BY <1>1, <1>9 DEF TypeOK
  <2> QED BY <1>9, <2>1, CountType
<1>11. TypeOK'
  BY <1>5, <1>8, <1>9, <1>10 DEF TypeOK
<1>12. Opens(s, q, p, lot)
  BY <1>4, <1>5, <1>8, <1>9 DEF Opens
<1> HIDE DEF lot
<1>13. ~lot.preExisting
  BY <1>4, Zenon
<1> QED BY <1>2, <1>4, <1>8, <1>9, <1>11, <1>12, <1>13

LEMMA SellDoes ==
  ASSUME LedgerConstants, TypeOK, UNCHANGED today,
         NEW s \in Symbol, NEW q \in Quantity, NEW p \in Price, Sell(s, q, p)
  PROVE  /\ TypeOK'
         /\ lots' = [lots EXCEPT ![s] = Remaining(lots[s], q)]
         /\ \E fee \in Nat : /\ SaleTypes(s, q, p, fee) /\ cash' = cash + (q * p - fee)
                             /\ realised' = realised \o Slices(s, q, p, fee)
         /\ acquired' = acquired
<1>1. q \in Nat \ {0} /\ q * p \in Nat
  BY ParameterTypes
<1>2. PICK fee \in Nat : fee = Commission(q * p)
  BY <1>1, CommissionType
<1>3. lots[s] \in Seq(LotType) /\ q <= Total(Deliverable, lots[s])
  BY DEF TypeOK, Sell, Sellable, SellableQuantity
<1>4. SaleTypes(s, q, p, fee)
  BY <1>1, <1>3 DEF SaleTypes, TypeOK
<1>5. lots' = [lots EXCEPT ![s] = Remaining(lots[s], q)] /\ lots' \in [Symbol -> Seq(LotType)]
  <2>1. Remaining(lots[s], q) \in Seq(LotType)
    BY <1>1, <1>3, RemainingType
  <2>2. lots' = [lots EXCEPT ![s] = Remaining(lots[s], q)]
    BY DEF Sell
  <2> QED BY <2>1, <2>2 DEF TypeOK
<1>6. /\ cash' = cash + (q * p - fee) /\ realised' = realised \o Slices(s, q, p, fee)
      /\ today' = today /\ acquired' = acquired /\ CountExecution
  BY <1>2 DEF Sell
<1>7. realised' \in Seq(TradeType)
  <2>1. Slices(s, q, p, fee) \in Seq(TradeType)
    BY <1>4, SlicesType
  <2> QED BY <1>6, <2>1 DEF TypeOK
<1>8. executions' \in [Months -> Nat] /\ cash' \in Int
  <2>1. cash' \in Int
    BY <1>1, <1>6 DEF TypeOK
  <2> QED BY <1>6, <2>1, CountType
<1>9. TypeOK'
  BY <1>5, <1>6, <1>7, <1>8 DEF TypeOK
<1> QED BY <1>4, <1>5, <1>6, <1>9

----------------------------------------------------------------------------
(* The totals the operations are stated with, as sums.                     *)
BookSums ==
  /\ \A s \in Symbol : /\ HeldQuantity(s) = SumOf(Values(QuantityOf, lots[s]))
                       /\ SellableQuantity(s) = SumOf(Values(Delivered(today), lots[s]))
                       /\ \A d : Arriving(s, d) = SumOf(Values(Coming(today, d), lots[s]))
  /\ RealisedPnl = SumOf(Values(PnlOf, realised))
  /\ \A s : SoldQuantity(s) = SumOf(Values(SoldOf(s), realised))

LEMMA BookSumsNow == TypeOK => BookSums
<1> SUFFICES ASSUME TypeOK PROVE BookSums
  OBVIOUS
<1>1. ASSUME NEW s \in Symbol
      PROVE  /\ HeldQuantity(s) = SumOf(Values(QuantityOf, lots[s]))
             /\ SellableQuantity(s) = SumOf(Values(Delivered(today), lots[s]))
             /\ \A d : Arriving(s, d) = SumOf(Values(Coming(today, d), lots[s]))
  <2>1. lots[s] \in Seq(LotType)
    BY DEF TypeOK
  <2> QED BY <2>1, TotalsAreValues DEF HeldQuantity, SellableQuantity, Arriving
<1>2. realised \in Seq(TradeType)
  BY DEF TypeOK
<1>3. /\ RealisedPnl = SumOf(Values(PnlOf, realised))
      /\ \A s : SoldQuantity(s) = SumOf(Values(SoldOf(s), realised))
  BY <1>2, TradesAreValues DEF RealisedPnl, SoldQuantity
<1> QED BY <1>1, <1>3 DEF BookSums

LEMMA BookSumsNext == TypeOK' => BookSums'
BY BookSumsNow, PTL

(* A new lot adds its value to every total of its symbol.                  *)
LEMMA OpensTotals ==
  ASSUME TypeOK, NEW s \in Symbol, NEW q, NEW p, NEW lot, Opens(s, q, p, lot),
         NEW F \in [LotType -> Int], NEW t \in Symbol
  PROVE  /\ SumOf(Values(F, lots'[t])) = SumOf(Values(F, lots[t])) + (IF t = s THEN F[lot] ELSE 0)
         /\ SumOf(Values(F, lots[t])) \in Int
<1>1. lots[t] \in Seq(LotType) /\ lots'[t] = IF t = s THEN Append(lots[s], lot) ELSE lots[t]
  BY DEF TypeOK, Opens
<1>2. lot \in LotType
  BY DEF Opens
<1>3. SumOf(Values(F, lots[t])) \in Int
  BY <1>1, ValuesType
<1>4. SumOf(Values(F, Append(lots[t], lot))) = SumOf(Values(F, lots[t])) + F[lot]
  BY <1>1, <1>2, SumOfValuesAppend
<1> QED BY <1>1, <1>3, <1>4

LEMMA OpensCost ==
  ASSUME LedgerConstants, TypeOK, NEW s \in Symbol, NEW q \in Quantity, NEW p \in Price, NEW lot,
         Opens(s, q, p, lot)
  PROVE  BookCost' = BookCost + q * p /\ BookCost \in Int
<1>1. lots \in [Symbol -> Seq(LotType)] /\ lots[s] \in Seq(LotType) /\ lot \in LotType
  BY DEF TypeOK, Opens
<1>2. Append(lots[s], lot) \in Seq(LotType)
  BY <1>1
<1>3. CostOf(Append(lots[s], lot)) = CostOf(lots[s]) + q * p
  <2>1. CostIn \in [LotType -> Int]
    BY LotValues
  <2>2. SumOf(Values(CostIn, Append(lots[s], lot))) = SumOf(Values(CostIn, lots[s])) + CostIn[lot]
    BY <1>1, <2>1, SumOfValuesAppend
  <2>3. CostIn[lot] = q * p
    BY <1>1 DEF CostIn, Opens
  <2>4. /\ CostOf(Append(lots[s], lot)) = SumOf(Values(CostIn, Append(lots[s], lot)))
        /\ CostOf(lots[s]) = SumOf(Values(CostIn, lots[s]))
    BY <1>1, <1>2, TotalsAreValues
  <2> QED BY <2>2, <2>3, <2>4
<1>4. CostOf(lots[s]) \in Int /\ CostOf(Append(lots[s], lot)) \in Int
  BY <1>1, <1>2, CostOfType
<1>5. lots' = [lots EXCEPT ![s] = Append(lots[s], lot)]
  BY DEF Opens
<1>6. /\ CostOfBook(lots') = CostOfBook(lots) - CostOf(lots[s]) + CostOf(Append(lots[s], lot))
      /\ CostOfBook(lots) \in Int
  BY <1>1, <1>2, <1>5, BookCostUpdate
<1>7. q * p \in Int
  BY ParameterTypes
<1> QED BY <1>3, <1>4, <1>6, <1>7, BookCostIs

CostTaken(held, q) == SumOf([i \in DOMAIN held |-> Taken(held, q, i) * held[i].price])

(* A sale lessens the cost of the book by the cost of what it takes.       *)
LEMMA SaleCost ==
  ASSUME LedgerConstants, TypeOK, NEW s \in Symbol, NEW q, NEW p, NEW fee, SaleTypes(s, q, p, fee),
         lots' = [lots EXCEPT ![s] = Remaining(lots[s], q)],
         realised' = realised \o Slices(s, q, p, fee), TypeOK'
  PROVE  /\ BookCost' = BookCost - CostTaken(lots[s], q)
         /\ RealisedPnl' = RealisedPnl + (p * q - CostTaken(lots[s], q) - fee)
         /\ BookCost \in Int /\ RealisedPnl \in Int /\ CostTaken(lots[s], q) \in Int
<1> DEFINE cost == CostTaken(lots[s], q)
<1>1. /\ lots \in [Symbol -> Seq(LotType)] /\ lots[s] \in Seq(LotType)
      /\ q \in Nat \ {0} /\ q <= Total(Deliverable, lots[s])
  BY DEF TypeOK, SaleTypes
<1>2. Remaining(lots[s], q) \in Seq(LotType)
  BY <1>1, RemainingType
<1>3. CostOf(Remaining(lots[s], q)) = CostOf(lots[s]) - cost
  <2>1. SumOf(Values(CostIn, Remaining(lots[s], q))) = SumOf(Values(CostIn, lots[s])) - cost
    BY <1>1, SaleTotals DEF CostTaken
  <2> HIDE DEF cost
  <2> QED BY <1>1, <1>2, <2>1, TotalsAreValues
<1>4. CostOf(lots[s]) \in Int /\ CostOf(Remaining(lots[s], q)) \in Int
  BY <1>1, <1>2, CostOfType
<1>5. cost \in Int
  <2>1. ASSUME NEW i \in DOMAIN lots[s] PROVE Taken(lots[s], q, i) * lots[s][i].price \in Int
    <3>1. Price \subseteq Int
      BY DEF LedgerConstants
    <3>2. Taken(lots[s], q, i) \in 0 .. lots[s][i].quantity
      BY <1>1, SaleTakes
    <3>3. lots[s][i] \in LotType
      BY <1>1
    <3>4. lots[s][i].price \in Price /\ lots[s][i].quantity \in Int
      BY <3>3 DEF LotType
    <3>5. lots[s][i].price \in Int
      BY <3>1, <3>4
    <3> QED BY <3>2, <3>4, <3>5
  <2> DEFINE nums == [i \in DOMAIN lots[s] |-> Taken(lots[s], q, i) * lots[s][i].price]
  <2>2. nums \in Seq(Int)
    BY <1>1, <2>1, SMTT(30)
  <2>3. SumOf(nums) \in Int
    <3> HIDE DEF nums
    <3> QED BY <2>2, SumOfFacts
  <2> QED BY <2>3 DEF CostTaken
<1> HIDE DEF cost
<1>6. /\ CostOfBook(lots') = CostOfBook(lots) - CostOf(lots[s]) + CostOf(Remaining(lots[s], q))
      /\ CostOfBook(lots) \in Int
  BY <1>1, <1>2, BookCostUpdate
<1>7. BookCost' = BookCost - cost /\ BookCost \in Int
  BY <1>3, <1>4, <1>5, <1>6, BookCostIs
<1>8. RealisedPnl' = RealisedPnl + (p * q - cost - fee) /\ RealisedPnl \in Int
  <2>1. PnlOf \in [TradeType -> Int]
    BY TradeValues
  <2>2. realised \in Seq(TradeType) /\ Slices(s, q, p, fee) \in Seq(TradeType)
    BY SlicesType DEF TypeOK
  <2>3. SumOf(Values(PnlOf, realised \o Slices(s, q, p, fee)))
          = SumOf(Values(PnlOf, realised)) + SumOf(Values(PnlOf, Slices(s, q, p, fee)))
    BY <2>1, <2>2, SumOfValuesConcat
  <2>4. SumOf(Values(PnlOf, Slices(s, q, p, fee))) = p * q - cost - fee
    BY SlicesPnl DEF PnlOf, cost, CostTaken
  <2>5. SumOf(Values(PnlOf, realised)) \in Int
    BY <2>1, <2>2, ValuesType
  <2>6. /\ RealisedPnl = SumOf(Values(PnlOf, realised))
        /\ RealisedPnl' = SumOf(Values(PnlOf, realised'))
    BY BookSumsNow, BookSumsNext DEF BookSums
  <2> QED BY <2>3, <2>4, <2>5, <2>6
<1> QED BY <1>5, <1>7, <1>8 DEF cost

----------------------------------------------------------------------------
(* The inductive invariant: the types, the order of the lots and the       *)
(* balance of the book.                                                    *)
LedgerInv == TypeOK /\ IdsRise /\ BooksBalance

LEMMA LedgerInit ==
  ASSUME LedgerConstants, Init
  PROVE  LedgerInv
<1>1. TypeOK
  BY DEF Init, TypeOK, LedgerConstants, Date
<1>2. IdsRise
  BY DEF Init, IdsRise, Rising
<1>3. /\ SumOf(<<>>) = 0 /\ \A F : Values(F, <<>>) = <<>>
  BY SumOfEmpty DEF Values
<1>4. RealisedPnl = 0 /\ \A s \in Symbol : HeldQuantity(s) = 0 /\ SoldQuantity(s) = 0
  BY <1>1, <1>3, BookSumsNow DEF BookSums, Init
<1>5. BookCost = 0
  <2> DEFINE costs == [i \in DOMAIN Symbols |-> CostOf(lots[Symbols[i]])]
  <2>1. PICK N \in Nat : DOMAIN Symbols = 1 .. N /\ \A i \in 1 .. N : Symbols[i] \in Symbol
    BY SymbolsFacts
  <2>2. CostOf(<<>>) = 0
    <3>1. <<>> \in Seq(LotType)
      OBVIOUS
    <3>2. CostOf(<<>>) = SumOf(Values(CostIn, <<>>))
      BY <3>1, TotalsAreValues
    <3> QED BY <1>3, <3>2
  <2>3. \A i \in 1 .. N : CostOf(lots[Symbols[i]]) = 0
    BY <2>1, <2>2 DEF Init
  <2>4. costs \in Seq(Int) /\ \A i \in DOMAIN costs : costs[i] = 0
    BY <2>1, <2>3
  <2>5. SumOf(costs) = 0
    <3> HIDE DEF costs
    <3> QED BY <2>4, SumOfZeros
  <2> QED BY <2>5, BookCostIs DEF CostOfBook
<1>6. BooksBalance
  BY <1>4, <1>5 DEF BooksBalance, Init, LedgerConstants
<1> QED BY <1>1, <1>2, <1>6 DEF LedgerInv

(* A lot joins a list whose identities rise.                               *)
LEMMA OpensRising ==
  ASSUME TypeOK, TypeOK', IdsRise, NEW s \in Symbol, NEW q, NEW p, NEW lot, Opens(s, q, p, lot)
  PROVE  IdsRise'
<1> SUFFICES ASSUME NEW t \in Symbol PROVE Rising(lots'[t], acquired'.lots)
  BY DEF IdsRise, Rising
<1>1. acquired.lots \in Nat /\ acquired'.lots = acquired.lots + 1 /\ lots[t] \in Seq(LotType)
  BY DEF TypeOK, Opens
<1>2. Rising(lots[t], acquired.lots)
  BY DEF IdsRise
<1>3. CASE t = s
  <2>1. lots'[t] = Append(lots[t], lot) /\ lot \in LotType /\ lot.id = acquired.lots + 1
    BY <1>3 DEF TypeOK, Opens
  <2> QED BY <1>1, <1>2, <2>1, RisingAppend
<1>4. CASE t # s
  <2>1. lots'[t] = lots[t]
    BY <1>4 DEF TypeOK, Opens
  <2>2. \A i \in DOMAIN lots[t] : lots[t][i] \in LotType
    BY <1>1
  <2>3. \A i \in DOMAIN lots[t] : lots[t][i].id \in Nat
    BY <2>2 DEF LotType
  <2> QED BY <1>1, <1>2, <2>1, <2>3 DEF Rising
<1> QED BY <1>3, <1>4

(* The shares of a symbol, when a lot joins.                               *)
LEMMA OpensShares ==
  ASSUME LedgerConstants, TypeOK, TypeOK', BooksBalance, NEW s \in Symbol, NEW q \in Quantity,
         NEW p, NEW lot, Opens(s, q, p, lot), NEW t \in Symbol
  PROVE  acquired'.shares[t] = HeldQuantity(t)' + SoldQuantity(t)'
<1>1. /\ HeldQuantity(t) = SumOf(Values(QuantityOf, lots[t]))
      /\ HeldQuantity(t)' = SumOf(Values(QuantityOf, lots'[t]))
  BY BookSumsNow, BookSumsNext DEF BookSums
<1>2. /\ SumOf(Values(QuantityOf, lots'[t]))
           = SumOf(Values(QuantityOf, lots[t])) + (IF t = s THEN QuantityOf[lot] ELSE 0)
      /\ SumOf(Values(QuantityOf, lots[t])) \in Int
  BY LotValues, OpensTotals
<1>3. QuantityOf[lot] = q /\ q \in Int
  BY DEF QuantityOf, Opens, LedgerConstants
<1>4. SoldQuantity(t)' = SoldQuantity(t)
  <2>1. realised' = realised
    BY DEF Opens
  <2> QED BY <2>1, BookSumsNow, BookSumsNext DEF BookSums
<1>5. acquired.shares[t] = HeldQuantity(t) + SoldQuantity(t)
  BY DEF BooksBalance
<1>6. acquired'.shares[t] = acquired.shares[t] + (IF t = s THEN q ELSE 0)
  BY DEF TypeOK, Opens
<1>7. SoldQuantity(t) \in Int
  <2>1. realised \in Seq(TradeType) /\ SoldOf(t) \in [TradeType -> Int]
    BY TradeValues DEF TypeOK
  <2>2. SumOf(Values(SoldOf(t), realised)) \in Int
    BY <2>1, ValuesType
  <2> QED BY <2>2, BookSumsNow DEF BookSums
<1> QED BY <1>1, <1>2, <1>3, <1>4, <1>5, <1>6, <1>7

LEMMA PnlType ==
  ASSUME LedgerConstants, TypeOK
  PROVE  RealisedPnl \in Int
<1>1. realised \in Seq(TradeType) /\ PnlOf \in [TradeType -> Int]
  BY TradeValues DEF TypeOK
<1>2. SumOf(Values(PnlOf, realised)) \in Int
  BY <1>1, ValuesType
<1> QED BY <1>2, BookSumsNow DEF BookSums

LEMMA SeedKeeps ==
  ASSUME LedgerConstants, LedgerInv, UNCHANGED today,
         NEW s \in Symbol, NEW q \in Quantity, NEW p \in Price, AddPreExisting(s, q, p)
  PROVE  LedgerInv'
<1>1. TypeOK /\ IdsRise /\ BooksBalance
  BY DEF LedgerInv
<1>2. /\ TypeOK' /\ cash' = cash /\ acquired'.seedCost = acquired.seedCost + q * p
      /\ acquired'.buyFees = acquired.buyFees
  BY <1>1, SeedDoes
<1>3. PICK lot : Opens(s, q, p, lot)
  BY <1>1, SeedDoes
<1>4. IdsRise'
  BY <1>1, <1>2, <1>3, OpensRising
<1>5. BookCost' = BookCost + q * p /\ BookCost \in Int /\ q * p \in Int
  BY <1>1, <1>3, OpensCost, ParameterTypes
<1>6. RealisedPnl' = RealisedPnl /\ RealisedPnl \in Int
  <2>1. realised' = realised
    BY <1>3 DEF Opens
  <2> QED BY <1>1, <1>2, <2>1, PnlType, BookSumsNow, BookSumsNext DEF BookSums
<1>7. /\ acquired.seedCost \in Int /\ acquired.buyFees \in Int /\ cash \in Int /\ InitialCash \in Int
      /\ cash + BookCost = InitialCash + acquired.seedCost + RealisedPnl - acquired.buyFees
  BY <1>1 DEF TypeOK, BooksBalance, LedgerConstants
<1>8. cash' + BookCost' = InitialCash + acquired'.seedCost + RealisedPnl' - acquired'.buyFees
  BY <1>2, <1>5, <1>6, <1>7
<1>9. BooksBalance'
  BY <1>1, <1>2, <1>3, <1>8, OpensShares DEF BooksBalance
<1> QED BY <1>2, <1>4, <1>9 DEF LedgerInv

LEMMA BuyKeeps ==
  ASSUME LedgerConstants, SettlementAssumption, LedgerInv, UNCHANGED today,
         NEW s \in Symbol, NEW q \in Quantity, NEW p \in Price, Buy(s, q, p)
  PROVE  LedgerInv'
<1>1. TypeOK /\ IdsRise /\ BooksBalance
  BY DEF LedgerInv
<1>2. TypeOK' /\ acquired'.seedCost = acquired.seedCost
  BY <1>1, BuyDoes
<1>3. PICK lot : Opens(s, q, p, lot)
  BY <1>1, BuyDoes
<1>4. PICK fee \in Nat : /\ cash' = cash - (q * p + fee)
                         /\ acquired'.buyFees = acquired.buyFees + fee
  BY <1>1, BuyDoes
<1>5. IdsRise'
  BY <1>1, <1>2, <1>3, OpensRising
<1>6. BookCost' = BookCost + q * p /\ BookCost \in Int /\ q * p \in Int
  BY <1>1, <1>3, OpensCost, ParameterTypes
<1>7. RealisedPnl' = RealisedPnl /\ RealisedPnl \in Int
  <2>1. realised' = realised
    BY <1>3 DEF Opens
  <2> QED BY <1>1, <1>2, <2>1, PnlType, BookSumsNow, BookSumsNext DEF BookSums
<1>8. /\ acquired.seedCost \in Int /\ acquired.buyFees \in Int /\ cash \in Int /\ InitialCash \in Int
      /\ cash + BookCost = InitialCash + acquired.seedCost + RealisedPnl - acquired.buyFees
  BY <1>1 DEF TypeOK, BooksBalance, LedgerConstants
<1>9. cash' + BookCost' = InitialCash + acquired'.seedCost + RealisedPnl' - acquired'.buyFees
  BY <1>2, <1>4, <1>6, <1>7, <1>8
<1>10. BooksBalance'
  BY <1>1, <1>2, <1>3, <1>9, OpensShares DEF BooksBalance
<1> QED BY <1>2, <1>5, <1>10 DEF LedgerInv

LEMMA SellKeeps ==
  ASSUME LedgerConstants, LedgerInv, UNCHANGED today,
         NEW s \in Symbol, NEW q \in Quantity, NEW p \in Price, Sell(s, q, p)
  PROVE  LedgerInv'
<1>1. TypeOK /\ IdsRise /\ BooksBalance
  BY DEF LedgerInv
<1>2. TypeOK' /\ lots' = [lots EXCEPT ![s] = Remaining(lots[s], q)] /\ acquired' = acquired
  BY <1>1, SellDoes
<1>3. PICK fee \in Nat : /\ SaleTypes(s, q, p, fee) /\ cash' = cash + (q * p - fee)
                         /\ realised' = realised \o Slices(s, q, p, fee)
  BY <1>1, SellDoes
<1>4. /\ lots \in [Symbol -> Seq(LotType)] /\ lots[s] \in Seq(LotType)
      /\ q \in Nat \ {0} /\ q <= Total(Deliverable, lots[s])
  BY <1>1, <1>3 DEF TypeOK, SaleTypes
<1>5. IdsRise'
  <2>1. \A t \in Symbol : Rising(lots[t], acquired.lots)
    BY <1>1 DEF IdsRise
  <2>2. Rising(Remaining(lots[s], q), acquired.lots)
    BY <1>4, <2>1, RisingRemaining
  <2>3. \A t \in Symbol : lots'[t] = IF t = s THEN Remaining(lots[s], q) ELSE lots[t]
    BY <1>2, <1>4
  <2>4. \A t \in Symbol : Rising(lots'[t], acquired'.lots)
    BY <1>2, <2>1, <2>2, <2>3
  <2> QED BY <2>4 DEF IdsRise, Rising
<1>6. cash' + BookCost' = InitialCash + acquired'.seedCost + RealisedPnl' - acquired'.buyFees
  <2>1. /\ BookCost' = BookCost - CostTaken(lots[s], q)
        /\ RealisedPnl' = RealisedPnl + (p * q - CostTaken(lots[s], q) - fee)
    BY <1>1, <1>2, <1>3, SaleCost
  <2>2. BookCost \in Int /\ RealisedPnl \in Int /\ CostTaken(lots[s], q) \in Int
    BY <1>1, <1>2, <1>3, SaleCost
  <2>3. q * p \in Int /\ p * q = q * p
    BY ParameterTypes
  <2>4. /\ acquired.seedCost \in Int /\ acquired.buyFees \in Int /\ cash \in Int /\ InitialCash \in Int
        /\ cash + BookCost = InitialCash + acquired.seedCost + RealisedPnl - acquired.buyFees
    BY <1>1 DEF TypeOK, BooksBalance, LedgerConstants
  <2>5. PICK n \in Int : q * p = n /\ p * q = n
    BY <2>3
  <2>6. acquired' = acquired /\ cash' = cash + (n - fee)
    BY <1>2, <1>3, <2>5
  <2>7. RealisedPnl' = RealisedPnl + (n - CostTaken(lots[s], q) - fee)
    BY <2>1, <2>5
  <2> QED BY <2>1, <2>2, <2>4, <2>6, <2>7
<1>7. ASSUME NEW t \in Symbol PROVE acquired'.shares[t] = HeldQuantity(t)' + SoldQuantity(t)'
  <2>1. /\ HeldQuantity(t) = SumOf(Values(QuantityOf, lots[t]))
        /\ HeldQuantity(t)' = SumOf(Values(QuantityOf, lots'[t]))
        /\ SoldQuantity(t) = SumOf(Values(SoldOf(t), realised))
        /\ SoldQuantity(t)' = SumOf(Values(SoldOf(t), realised'))
    BY <1>1, <1>2, BookSumsNow, BookSumsNext DEF BookSums
  <2>2. SumOf(Values(QuantityOf, lots'[t]))
          = SumOf(Values(QuantityOf, lots[t])) - (IF t = s THEN q ELSE 0)
    <3>1. SumOf(Values(QuantityOf, Remaining(lots[s], q))) = SumOf(Values(QuantityOf, lots[s])) - q
      BY <1>4, SaleTotals
    <3>2. lots[t] \in Seq(LotType) /\ QuantityOf \in [LotType -> Int]
      BY <1>4, LotValues
    <3>3. SumOf(Values(QuantityOf, lots[t])) \in Int
      BY <3>2, ValuesType
    <3> QED BY <1>2, <1>4, <3>1, <3>3
  <2>3. /\ SumOf(Values(SoldOf(t), realised'))
             = SumOf(Values(SoldOf(t), realised)) + (IF t = s THEN q ELSE 0)
        /\ SumOf(Values(SoldOf(t), realised)) \in Int
    <3>1. /\ realised \in Seq(TradeType) /\ Slices(s, q, p, fee) \in Seq(TradeType)
          /\ SoldOf(t) \in [TradeType -> Int]
      BY <1>1, <1>3, SlicesType, TradeValues DEF TypeOK
    <3>2. SumOf(Values(SoldOf(t), realised \o Slices(s, q, p, fee)))
            = SumOf(Values(SoldOf(t), realised)) + SumOf(Values(SoldOf(t), Slices(s, q, p, fee)))
      BY <3>1, SumOfValuesConcat
    <3>3. SumOf(Values(SoldOf(t), realised)) \in Int
      BY <3>1, ValuesType
    <3> QED BY <1>3, <3>2, <3>3, SlicesSold
  <2>4. SumOf(Values(QuantityOf, lots[t])) \in Int
    <3>1. lots[t] \in Seq(LotType) /\ QuantityOf \in [LotType -> Int]
      BY <1>4, LotValues
    <3> QED BY <3>1, ValuesType
  <2>5. acquired.shares[t] = HeldQuantity(t) + SoldQuantity(t)
    BY <1>1 DEF BooksBalance
  <2> QED BY <1>2, <1>4, <2>1, <2>2, <2>3, <2>4, <2>5
<1>8. BooksBalance'
  BY <1>6, <1>7 DEF BooksBalance
<1> QED BY <1>2, <1>5, <1>8 DEF LedgerInv

(* A day on which nothing is executed.                                     *)
LEMMA LedgerDayKeeps ==
  ASSUME LedgerConstants, LedgerInv, NextDay
  PROVE  LedgerInv'
<1>1. TypeOK /\ IdsRise /\ BooksBalance
  BY DEF LedgerInv
<1>2. /\ cash' = cash /\ lots' = lots /\ realised' = realised /\ executions' = executions
      /\ acquired' = acquired /\ today' = today + 1 /\ today < LastDay
  BY DEF NextDay, ledgerVars
<1>3. TypeOK'
  BY <1>1, <1>2 DEF TypeOK, Date, LedgerConstants
<1>4. IdsRise'
  BY <1>1, <1>2 DEF IdsRise
<1>5. BooksBalance'
  <2>1. BookCost' = BookCost
    BY <1>2, BookCostIs
  <2>2. RealisedPnl' = RealisedPnl
    BY <1>1, <1>2, <1>3, BookSumsNow, BookSumsNext DEF BookSums
  <2>3. \A s \in Symbol : /\ HeldQuantity(s)' = HeldQuantity(s)
                           /\ SoldQuantity(s)' = SoldQuantity(s)
    BY <1>1, <1>2, <1>3, BookSumsNow, BookSumsNext DEF BookSums
  <2> QED BY <1>1, <1>2, <2>1, <2>2, <2>3 DEF BooksBalance
<1> QED BY <1>3, <1>4, <1>5 DEF LedgerInv

LEMMA LedgerStep ==
  ASSUME LedgerConstants, SettlementAssumption, LedgerInv, [Next]_vars
  PROVE  LedgerInv'
<1>1. CASE Execute
  <2>1. UNCHANGED today
    BY <1>1 DEF Execute
  <2>2. PICK s \in Symbol, q \in Quantity, p \in Price : Buy(s, q, p) \/ Sell(s, q, p)
    BY <1>1 DEF Execute
  <2>3. CASE Buy(s, q, p)
    BY <2>1, <2>3, BuyKeeps
  <2>4. CASE Sell(s, q, p)
    BY <2>1, <2>4, SellKeeps
  <2> QED BY <2>2, <2>3, <2>4
<1>2. CASE Seed
  <2>1. PICK s \in Symbol, q \in Quantity, p \in Price : AddPreExisting(s, q, p) /\ UNCHANGED today
    BY <1>2 DEF Seed
  <2> QED BY <2>1, SeedKeeps
<1>3. CASE NextDay
  BY <1>3, LedgerDayKeeps
<1>4. CASE UNCHANGED vars
  <2>1. /\ today' = today /\ cash' = cash /\ lots' = lots /\ realised' = realised
        /\ executions' = executions /\ acquired' = acquired
    BY <1>4 DEF vars, ledgerVars
  <2>2. TypeOK /\ IdsRise /\ BooksBalance
    BY DEF LedgerInv
  <2>3. TypeOK' /\ IdsRise'
    BY <2>1, <2>2 DEF TypeOK, IdsRise
  <2>4. BooksBalance'
    <3>1. BookCost' = BookCost
      BY <2>1, BookCostIs
    <3>2. /\ RealisedPnl' = RealisedPnl
          /\ \A s \in Symbol : /\ HeldQuantity(s)' = HeldQuantity(s)
                               /\ SoldQuantity(s)' = SoldQuantity(s)
      BY <2>1, <2>2, <2>3, BookSumsNow, BookSumsNext DEF BookSums
    <3> QED BY <2>1, <2>2, <3>1, <3>2 DEF BooksBalance
  <2> QED BY <2>3, <2>4 DEF LedgerInv
<1> QED BY <1>1, <1>2, <1>3, <1>4 DEF Next

(* The ledger's invariant holds of every behaviour, for every number of    *)
(* lots and every calendar.                                                *)
THEOREM LedgerInvariant == Spec => []LedgerInv
<1>1. Init => LedgerInv
  BY LedgerInit, LedgerConstants
<1>2. LedgerInv /\ [Next]_vars => LedgerInv'
  BY LedgerStep, LedgerConstants, SettlementAssumption
<1> QED BY <1>1, <1>2, PTL DEF Spec

(* The types of the ledger, lots with at least a share among them          *)
(* (portfolio/ledger.py drops the emptied ones).                           *)
THEOREM LedgerTypes == Spec => []TypeOK
<1>1. LedgerInv => TypeOK
  BY DEF LedgerInv
<1> QED BY <1>1, LedgerInvariant, PTL

(* Cash, book cost, realised result and shares always balance: no sale,    *)
(* however it cuts the lots, loses or invents a share or a mill.           *)
THEOREM BooksAlwaysBalance == Spec => []BooksBalance
<1>1. LedgerInv => BooksBalance
  BY DEF LedgerInv
<1> QED BY <1>1, LedgerInvariant, PTL

----------------------------------------------------------------------------
FifoStep ==
  \A s \in Symbol : \A old, new \in Lots(s) :
    old.id < new.id /\ Settled(old) /\ ~Untouched(s, new)
      => \A lot \in Lots(s)' : lot.id # old.id

LEMMA OpensFifo ==
  ASSUME TypeOK, NEW s \in Symbol, NEW q, NEW p, NEW lot, Opens(s, q, p, lot)
  PROVE  FifoStep
<1> SUFFICES ASSUME NEW t \in Symbol, NEW new \in Lots(t) PROVE Untouched(t, new)
  BY DEF FifoStep
<1>1. lots[t] \in Seq(LotType) /\ lots'[t] = IF t = s THEN Append(lots[t], lot) ELSE lots[t]
  BY DEF TypeOK, Opens
<1>2. PICK i \in DOMAIN lots[t] : new = lots[t][i]
  BY DEF Lots
<1>3. i \in DOMAIN lots'[t] /\ lots'[t][i] = lots[t][i]
  BY <1>1
<1> QED BY <1>2, <1>3 DEF Untouched, Lots

LEMMA SaleFifo ==
  ASSUME LedgerConstants, LedgerInv, UNCHANGED today,
         NEW s \in Symbol, NEW q \in Quantity, NEW p \in Price, Sell(s, q, p)
  PROVE  FifoStep
<1>1. TypeOK /\ IdsRise
  BY DEF LedgerInv
<1>2. lots' = [lots EXCEPT ![s] = Remaining(lots[s], q)]
  BY <1>1, SellDoes
<1>3. /\ lots \in [Symbol -> Seq(LotType)] /\ lots[s] \in Seq(LotType)
      /\ q \in Nat \ {0} /\ q <= Total(Deliverable, lots[s])
  BY <1>1, SellDoes DEF TypeOK, SaleTypes
<1> SUFFICES ASSUME NEW t \in Symbol, NEW old \in Lots(t), NEW new \in Lots(t),
                    old.id < new.id, Settled(old), ~Untouched(t, new)
             PROVE  \A lot \in Lots(t)' : lot.id # old.id
  BY DEF FifoStep
<1>4. PICK i \in DOMAIN lots[t] : old = lots[t][i]
  BY DEF Lots
<1>5. PICK j \in DOMAIN lots[t] : new = lots[t][j]
  BY DEF Lots
<1>6. lots'[t] = IF t = s THEN Remaining(lots[s], q) ELSE lots[t]
  BY <1>2, <1>3
<1>7. ~(\E k \in DOMAIN lots'[t] : lots'[t][k] = new)
  BY DEF Untouched, Lots
<1>8. t = s
  BY <1>5, <1>6, <1>7
<1>9. ~(\E k \in DOMAIN Remaining(lots[s], q) : Remaining(lots[s], q)[k] = lots[s][j])
  BY <1>5, <1>6, <1>7, <1>8
<1>10. Rising(lots[s], acquired.lots)
  BY <1>1 DEF IdsRise
<1>11. \A k \in DOMAIN Remaining(lots[s], q) : Remaining(lots[s], q)[k].id # lots[s][i].id
  BY <1>3, <1>4, <1>5, <1>8, <1>9, <1>10, SaleIsFifo
<1>12. \A k \in DOMAIN lots'[t] : lots'[t][k].id # old.id
  BY <1>4, <1>6, <1>8, <1>11
<1> QED BY <1>12 DEF Lots

LEMMA NothingSold ==
  ASSUME lots' = lots
  PROVE  FifoStep
BY DEF FifoStep, Untouched, Lots

(* First in, first out: shares leave a lot only when every settled lot     *)
(* opened before it is gone (the loop of Ledger.sell over the lots in      *)
(* list order, which is the order in which they were opened).              *)
THEOREM SalesAreFifo == Spec => OldestSoldFirst
<1>1. ASSUME LedgerInv, [Next]_vars PROVE [FifoStep]_vars
  <2>1. TypeOK
    BY <1>1 DEF LedgerInv
  <2>2. CASE Execute
    <3>1. UNCHANGED today
      BY <2>2 DEF Execute
    <3>2. PICK s \in Symbol, q \in Quantity, p \in Price : Buy(s, q, p) \/ Sell(s, q, p)
      BY <2>2 DEF Execute
    <3>3. CASE Buy(s, q, p)
      <4>1. PICK lot : Opens(s, q, p, lot)
        BY <2>1, <3>1, <3>3, BuyDoes, LedgerConstants, SettlementAssumption
      <4> QED BY <2>1, <4>1, OpensFifo
    <3>4. CASE Sell(s, q, p)
      BY <1>1, <3>1, <3>4, SaleFifo, LedgerConstants
    <3> QED BY <3>2, <3>3, <3>4
  <2>3. CASE Seed
    <3>1. PICK s \in Symbol, q \in Quantity, p \in Price : AddPreExisting(s, q, p) /\ UNCHANGED today
      BY <2>3 DEF Seed
    <3>2. PICK lot : Opens(s, q, p, lot)
      BY <2>1, <3>1, SeedDoes, LedgerConstants
    <3> QED BY <2>1, <3>2, OpensFifo
  <2>4. CASE NextDay
    BY <2>4, NothingSold DEF NextDay, ledgerVars
  <2> QED BY <1>1, <2>2, <2>3, <2>4 DEF Next
<1>2. [][FifoStep]_vars <=> OldestSoldFirst
  BY DEF OldestSoldFirst, FifoStep
<1> QED BY <1>1, <1>2, LedgerInvariant, PTL DEF Spec

----------------------------------------------------------------------------
(* The account of deliveries, as sums over the lots.                       *)
LEMMA DeliveryNow ==
  TypeOK => \A s \in Symbol :
    /\ SellableQuantity(s) = SumOf(Values(Delivered(today), lots[s]))
    /\ \A d \in Date : Arriving(s, d) = SumOf(Values(Coming(today, d), lots[s]))
BY BookSumsNow DEF BookSums

LEMMA DeliveryNext ==
  TypeOK' => \A s \in Symbol :
    /\ SellableQuantity(s)' = SumOf(Values(Delivered(today'), lots'[s]))
    /\ \A d \in Date : Arriving(s, d)' = SumOf(Values(Coming(today', d), lots'[s]))
BY BookSumsNext DEF BookSums

LEMMA DeliveryInit ==
  ASSUME LedgerConstants, Init
  PROVE  Delivery!Init
<1>1. TypeOK
  BY LedgerInit DEF LedgerInv
<1>2. /\ SumOf(<<>>) = 0 /\ \A F : Values(F, <<>>) = <<>>
  BY SumOfEmpty DEF Values
<1>3. \A s \in Symbol : SellableQuantity(s) = 0 /\ \A d \in Date : Arriving(s, d) = 0
  BY <1>1, <1>2, DeliveryNow DEF Init
<1> QED BY <1>3 DEF Delivery!Init, Init

(* A lot that joins the book: received when it is settled, bought when not.*)
LEMMA OpensDelivery ==
  ASSUME LedgerConstants, SettlementAssumption, TypeOK, TypeOK', UNCHANGED today,
         NEW s \in Symbol, NEW q \in Quantity, NEW p, NEW lot, Opens(s, q, p, lot)
  PROVE  /\ lot.preExisting => Delivery!Receive(s, q)
         /\ ~lot.preExisting /\ lot.settles = SettleDate(today) => Delivery!Buy(s, q)
<1>1. lot \in LotType /\ lot.quantity = q /\ today' = today /\ today \in Date /\ q \in Int
  BY DEF Opens, TypeOK, LedgerConstants
<1>2. ASSUME NEW t \in Symbol
      PROVE  /\ SellableQuantity(t)' = SellableQuantity(t) + (IF t = s THEN Delivered(today)[lot] ELSE 0)
             /\ SellableQuantity(t) \in Int
             /\ \A d \in Date :
                  /\ Arriving(t, d)' = Arriving(t, d) + (IF t = s THEN Coming(today, d)[lot] ELSE 0)
                  /\ Arriving(t, d) \in Int
  <2>1. /\ SumOf(Values(Delivered(today), lots'[t]))
             = SumOf(Values(Delivered(today), lots[t])) + (IF t = s THEN Delivered(today)[lot] ELSE 0)
        /\ SumOf(Values(Delivered(today), lots[t])) \in Int
    BY LotValues, OpensTotals
  <2>2. ASSUME NEW d \in Date
        PROVE  /\ SumOf(Values(Coming(today, d), lots'[t]))
                    = SumOf(Values(Coming(today, d), lots[t])) + (IF t = s THEN Coming(today, d)[lot] ELSE 0)
               /\ SumOf(Values(Coming(today, d), lots[t])) \in Int
    BY LotValues, OpensTotals
  <2>3. /\ SellableQuantity(t) = SumOf(Values(Delivered(today), lots[t]))
        /\ SellableQuantity(t)' = SumOf(Values(Delivered(today), lots'[t]))
        /\ \A d \in Date : /\ Arriving(t, d) = SumOf(Values(Coming(today, d), lots[t]))
                           /\ Arriving(t, d)' = SumOf(Values(Coming(today, d), lots'[t]))
    BY <1>1, DeliveryNow, DeliveryNext
  <2> QED BY <2>1, <2>2, <2>3
<1>3. ASSUME lot.preExisting PROVE Delivery!Receive(s, q)
  <2>1. Delivered(today)[lot] = q /\ \A d \in Date : Coming(today, d)[lot] = 0
    BY <1>1, <1>3 DEF Delivered, Coming
  <2>2. \A t \in Symbol : /\ SellableQuantity(t)'
                               = IF t = s THEN SellableQuantity(t) + q ELSE SellableQuantity(t)
                          /\ \A d \in Date : Arriving(t, d)' = Arriving(t, d)
    BY <1>2, <2>1
  <2>3. [t \in Symbol |-> SellableQuantity(t)']
          = [[t \in Symbol |-> SellableQuantity(t)] EXCEPT ![s] = @ + q]
    BY <2>2
  <2>4. [t \in Symbol |-> [d \in Date |-> Arriving(t, d)']]
          = [t \in Symbol |-> [d \in Date |-> Arriving(t, d)]]
    BY <2>2
  <2> QED BY <1>1, <2>3, <2>4 DEF Delivery!Receive
<1>4. ASSUME ~lot.preExisting, lot.settles = SettleDate(today) PROVE Delivery!Buy(s, q)
  <2>1. SettleDate(today) \in Nat /\ SettleDate(today) > today /\ today \in Int
    BY <1>1 DEF SettlementAssumption, Date
  <2>2. /\ Delivered(today)[lot] = 0
        /\ \A d \in Date : Coming(today, d)[lot] = IF d = SettleDate(today) THEN q ELSE 0
    BY <1>1, <1>4, <2>1 DEF Delivered, Coming
  <2>3. \A t \in Symbol :
          /\ SellableQuantity(t)' = SellableQuantity(t)
          /\ \A d \in Date : Arriving(t, d)'
               = IF t = s /\ d = SettleDate(today) THEN Arriving(t, d) + q ELSE Arriving(t, d)
    BY <1>2, <2>2
  <2>4. [t \in Symbol |-> SellableQuantity(t)'] = [t \in Symbol |-> SellableQuantity(t)]
    BY <2>3
  <2>5. [t \in Symbol |-> [d \in Date |-> Arriving(t, d)']]
          = [[t \in Symbol |-> [d \in Date |-> Arriving(t, d)]] EXCEPT ![s] =
               [d \in Date |-> IF d = SettleDate(today) THEN @[d] + q ELSE @[d]]]
    BY <2>3
  <2> QED BY <1>1, <2>4, <2>5 DEF Delivery!Buy
<1> QED BY <1>3, <1>4

LEMMA SaleDelivery ==
  ASSUME LedgerConstants, TypeOK, UNCHANGED today,
         NEW s \in Symbol, NEW q \in Quantity, NEW p \in Price, Sell(s, q, p)
  PROVE  Delivery!Sell(s, q)
<1>1. TypeOK' /\ lots' = [lots EXCEPT ![s] = Remaining(lots[s], q)] /\ today' = today
  BY SellDoes
<1>2. /\ lots \in [Symbol -> Seq(LotType)] /\ lots[s] \in Seq(LotType)
      /\ q \in Nat \ {0} /\ q <= Total(Deliverable, lots[s])
  BY SellDoes DEF TypeOK, SaleTypes
<1>3. /\ SumOf(Values(Delivered(today), Remaining(lots[s], q)))
           = SumOf(Values(Delivered(today), lots[s])) - q
      /\ \A d : SumOf(Values(Coming(today, d), Remaining(lots[s], q)))
                  = SumOf(Values(Coming(today, d), lots[s]))
  BY <1>2, SaleTotals
<1>4. ASSUME NEW t \in Symbol
      PROVE  /\ SellableQuantity(t)' = IF t = s THEN SellableQuantity(t) - q ELSE SellableQuantity(t)
             /\ \A d \in Date : Arriving(t, d)' = Arriving(t, d)
  <2>1. lots'[t] = IF t = s THEN Remaining(lots[s], q) ELSE lots[t]
    BY <1>1, <1>2
  <2>2. /\ SellableQuantity(t) = SumOf(Values(Delivered(today), lots[t]))
        /\ SellableQuantity(t)' = SumOf(Values(Delivered(today), lots'[t]))
        /\ \A d \in Date : /\ Arriving(t, d) = SumOf(Values(Coming(today, d), lots[t]))
                           /\ Arriving(t, d)' = SumOf(Values(Coming(today, d), lots'[t]))
    BY <1>1, DeliveryNow, DeliveryNext
  <2> QED BY <1>3, <2>1, <2>2
<1>5. q <= SellableQuantity(s)
  BY DEF Sell, Sellable
<1>6. [t \in Symbol |-> SellableQuantity(t)']
        = [[t \in Symbol |-> SellableQuantity(t)] EXCEPT ![s] = @ - q]
  BY <1>4
<1>7. [t \in Symbol |-> [d \in Date |-> Arriving(t, d)']]
        = [t \in Symbol |-> [d \in Date |-> Arriving(t, d)]]
  BY <1>4
<1> QED BY <1>1, <1>5, <1>6, <1>7 DEF Delivery!Sell

(* On the next day exactly what was to arrive on it becomes deliverable.   *)
LEMMA DayDelivery ==
  ASSUME LedgerConstants, TypeOK, TypeOK', NextDay
  PROVE  Delivery!NextDay
<1>1. /\ lots' = lots /\ today' = today + 1 /\ today < LastDay
      /\ today \in Nat /\ LastDay \in Nat
  BY DEF NextDay, ledgerVars, TypeOK, Date, LedgerConstants
<1>2. today + 1 \in Date
  BY <1>1 DEF Date
<1>3. ASSUME NEW lot \in LotType
      PROVE  /\ Delivered(today + 1)[lot] = Delivered(today)[lot] + Coming(today, today + 1)[lot]
             /\ \A d \in Date : Coming(today + 1, d)[lot]
                                  = IF d = today + 1 THEN 0 ELSE Coming(today, d)[lot]
  <2>1. lot.settles \in Nat /\ lot.quantity \in Nat
    BY DEF LotType
  <2>2. CASE lot.preExisting
    BY <2>1, <2>2 DEF Delivered, Coming
  <2>3. CASE ~lot.preExisting
    BY <1>1, <2>1, <2>3 DEF Delivered, Coming, Date
  <2> QED BY <2>2, <2>3
<1>4. ASSUME NEW t \in Symbol
      PROVE  /\ SellableQuantity(t)' = SellableQuantity(t) + Arriving(t, today + 1)
             /\ \A d \in Date : Arriving(t, d)' = IF d = today + 1 THEN 0 ELSE Arriving(t, d)
  <2>1. PICK held \in Seq(LotType) : held = lots[t]
    BY DEF TypeOK
  <2>2. PICK N \in Nat : N = Len(held) /\ DOMAIN held = 1 .. N
    BY <2>1
  <2>3. \A i \in 1 .. N : held[i] \in LotType
    BY <2>2
  <2>4. /\ SellableQuantity(t) = SumOf(Values(Delivered(today), held))
        /\ SellableQuantity(t)' = SumOf(Values(Delivered(today + 1), held))
        /\ \A d \in Date : /\ Arriving(t, d) = SumOf(Values(Coming(today, d), held))
                           /\ Arriving(t, d)' = SumOf(Values(Coming(today + 1, d), held))
    BY <1>1, <2>1, DeliveryNow, DeliveryNext
  <2>5. SumOf(Values(Delivered(today + 1), held))
          = SumOf(Values(Delivered(today), held)) + SumOf(Values(Coming(today, today + 1), held))
    <3> DEFINE a == Values(Delivered(today), held)
               b == Values(Coming(today, today + 1), held)
    <3>1. /\ Delivered(today) \in [LotType -> Int] /\ Coming(today, today + 1) \in [LotType -> Int]
      BY LotValues
    <3>2. a \in [1 .. N -> Int] /\ b \in [1 .. N -> Int]
      BY <2>2, <2>3, <3>1 DEF Values
    <3>3. Values(Delivered(today + 1), held) = [i \in 1 .. N |-> a[i] + b[i]]
      BY <1>3, <2>2, <2>3 DEF Values
    <3> HIDE DEF a, b
    <3>4. SumOf([i \in 1 .. N |-> a[i] + b[i]]) = SumOf(a) + SumOf(b)
      BY <3>2, SumOfPlus
    <3> QED BY <3>3, <3>4 DEF a, b
  <2>6. ASSUME NEW d \in Date
        PROVE  SumOf(Values(Coming(today + 1, d), held))
                 = IF d = today + 1 THEN 0 ELSE SumOf(Values(Coming(today, d), held))
    <3>1. CASE d = today + 1
      <4>1. DOMAIN Values(Coming(today + 1, d), held) = 1 .. N
            /\ \A i \in 1 .. N : Values(Coming(today + 1, d), held)[i] = 0
        BY <1>3, <2>2, <2>3, <3>1 DEF Values
      <4>2. Values(Coming(today + 1, d), held) \in Seq(Int)
        <5>1. Coming(today + 1, d) \in [LotType -> Int]
          BY LotValues
        <5> QED BY <5>1, ValuesType
      <4>3. SumOf(Values(Coming(today + 1, d), held)) = 0
        BY <4>1, <4>2, SumOfZeros
      <4> QED BY <3>1, <4>3
    <3>2. CASE d # today + 1
      <4>1. Values(Coming(today + 1, d), held) = Values(Coming(today, d), held)
        BY <1>3, <2>2, <2>3, <3>2 DEF Values
      <4> QED BY <3>2, <4>1
    <3> QED BY <3>1, <3>2
  <2> QED BY <1>2, <2>4, <2>5, <2>6
<1>5. [t \in Symbol |-> SellableQuantity(t)']
        = [t \in Symbol |-> [u \in Symbol |-> SellableQuantity(u)][t]
             + [u \in Symbol |-> [d \in Date |-> Arriving(u, d)]][t][today']]
  BY <1>1, <1>2, <1>4
<1>6. [t \in Symbol |-> [d \in Date |-> Arriving(t, d)']]
        = [t \in Symbol |->
             [[u \in Symbol |-> [d \in Date |-> Arriving(u, d)]][t] EXCEPT ![today'] = 0]]
  BY <1>1, <1>2, <1>4
<1> QED BY <1>1, <1>2, <1>5, <1>6 DEF Delivery!NextDay

(* The ledger of lots implements the account of deliveries: shares bought  *)
(* arrive on their settlement date, and what is sold is taken from the     *)
(* deliverable shares, exactly.                                            *)
THEOREM LedgerImplementsDeliveries == Spec => ImplementsDelivery
<1>1. Init => Delivery!Init
  BY DeliveryInit, LedgerConstants
<1>2. ASSUME LedgerInv, LedgerInv', [Next]_vars PROVE [Delivery!Next]_(Delivery!deliveryVars)
  <2>1. TypeOK /\ TypeOK'
    BY <1>2 DEF LedgerInv
  <2>2. CASE Execute
    <3>1. UNCHANGED today
      BY <2>2 DEF Execute
    <3>2. PICK s \in Symbol, q \in Quantity, p \in Price : Buy(s, q, p) \/ Sell(s, q, p)
      BY <2>2 DEF Execute
    <3>3. CASE Buy(s, q, p)
      <4>1. PICK lot : /\ Opens(s, q, p, lot) /\ ~lot.preExisting
                       /\ lot.settles = SettleDate(today)
        BY <2>1, <3>1, <3>3, BuyDoes, LedgerConstants, SettlementAssumption
      <4>2. Delivery!Buy(s, q)
        BY <2>1, <3>1, <4>1, OpensDelivery, LedgerConstants, SettlementAssumption
      <4> QED BY <4>2 DEF Delivery!Next
    <3>4. CASE Sell(s, q, p)
      <4>1. Delivery!Sell(s, q)
        BY <2>1, <3>1, <3>4, SaleDelivery, LedgerConstants
      <4> QED BY <4>1 DEF Delivery!Next
    <3> QED BY <3>2, <3>3, <3>4
  <2>3. CASE Seed
    <3>1. PICK s \in Symbol, q \in Quantity, p \in Price : AddPreExisting(s, q, p) /\ UNCHANGED today
      BY <2>3 DEF Seed
    <3>2. PICK lot : Opens(s, q, p, lot) /\ lot.preExisting
      BY <2>1, <3>1, SeedDoes, LedgerConstants
    <3>3. Delivery!Receive(s, q)
      BY <2>1, <3>1, <3>2, OpensDelivery, LedgerConstants, SettlementAssumption
    <3> QED BY <3>3 DEF Delivery!Next
  <2>4. CASE NextDay
    <3>1. Delivery!NextDay
      BY <2>1, <2>4, DayDelivery, LedgerConstants
    <3> QED BY <3>1 DEF Delivery!Next
  <2>5. CASE UNCHANGED vars
    <3>1. today' = today /\ lots' = lots
      BY <2>5 DEF vars, ledgerVars
    <3>2. \A s \in Symbol : /\ SellableQuantity(s)' = SellableQuantity(s)
                            /\ \A d \in Date : Arriving(s, d)' = Arriving(s, d)
      BY <2>1, <3>1, DeliveryNow, DeliveryNext
    <3> QED BY <3>1, <3>2 DEF Delivery!deliveryVars
  <2> QED BY <1>2, <2>2, <2>3, <2>4, <2>5 DEF Next
<1> QED BY <1>1, <1>2, LedgerInvariant, PTL DEF Spec, ImplementsDelivery, Delivery!Spec

----------------------------------------------------------------------------
(* The gates.  The proofs follow the counts: an order in flight is one the *)
(* gate counted as if it were alone, so at most MaxInFlight entries pass   *)
(* the last free place of the budget.  What the check of an order saw is   *)
(* still true when it is filled, as long as the order was alone: the       *)
(* second half of this part.                                               *)


(* The part of the type invariant the counts rest on.                      *)
CountTypes ==
  /\ today \in Date
  /\ executions \in [Months -> Nat] /\ entries \in [Months -> Nat] /\ newToday \in Nat
  /\ inflight \in [Slot -> Proposal \cup {NoOrder}]

(* The entries in flight are finitely many, at most one for each slot.     *)
LEMMA InFlightBounded ==
  ASSUME RiskConstants
  PROVE  /\ IsFiniteSet(EntriesInFlight) /\ Cardinality(EntriesInFlight) \in Nat
         /\ Cardinality(EntriesInFlight) <= MaxInFlight
<1>1. /\ IsFiniteSet(Slot) /\ Cardinality(Slot) = MaxInFlight
  <2>1. 1 \in Int /\ MaxInFlight \in Int /\ MaxInFlight >= 1
    BY DEF RiskConstants
  <2>2. IsFiniteSet(1 .. MaxInFlight) /\ Cardinality(1 .. MaxInFlight) = MaxInFlight - 1 + 1
    BY <2>1, FS_Interval
  <2> QED BY <2>1, <2>2 DEF Slot
<1>2. EntriesInFlight \subseteq Slot
  BY DEF EntriesInFlight
<1> QED BY <1>1, <1>2, FS_Subset, FS_CardinalityType

(* Emptying a slot takes the entry it held, if it held one, out of the     *)
(* count.                                                                  *)
LEMMA Emptied ==
  ASSUME RiskConstants, CountTypes, NEW i \in Slot,
         inflight' = [inflight EXCEPT ![i] = NoOrder]
  PROVE  /\ Cardinality(EntriesInFlight)' <= Cardinality(EntriesInFlight)
         /\ IsEntry(inflight[i])
              => Cardinality(EntriesInFlight)' = Cardinality(EntriesInFlight) - 1
         /\ Cardinality(EntriesInFlight)' \in Nat
<1>1. EntriesInFlight' = EntriesInFlight \ {i}
  BY Zenon DEF EntriesInFlight, IsEntry, CountTypes
<1>2. IsEntry(inflight[i]) <=> i \in EntriesInFlight
  BY DEF EntriesInFlight
<1>3. /\ IsFiniteSet(EntriesInFlight \ {i})
      /\ Cardinality(EntriesInFlight \ {i})
           = IF i \in EntriesInFlight THEN Cardinality(EntriesInFlight) - 1
                                      ELSE Cardinality(EntriesInFlight)
  BY InFlightBounded, FS_RemoveElement
<1>4. Cardinality(EntriesInFlight \ {i}) \in Nat
  BY <1>3, FS_CardinalityType
<1>5. Cardinality(EntriesInFlight)' = Cardinality(EntriesInFlight \ {i})
  BY <1>1
<1> QED BY <1>2, <1>3, <1>4, <1>5, InFlightBounded

(* Filling an empty slot adds at most one entry, and the slots bound it.   *)
LEMMA Filled ==
  ASSUME RiskConstants, CountTypes, NEW i \in Slot, NEW o \in Proposal,
         inflight' = [inflight EXCEPT ![i] = o], inflight[i] = NoOrder
  PROVE  /\ Cardinality(EntriesInFlight)' <= MaxInFlight
         /\ ~IsEntry(o) => Cardinality(EntriesInFlight)' = Cardinality(EntriesInFlight)
         /\ Cardinality(EntriesInFlight)' \in Nat
<1>1. EntriesInFlight' \subseteq Slot
  BY DEF EntriesInFlight
<1>2. /\ Cardinality(EntriesInFlight)' \in Nat
      /\ Cardinality(EntriesInFlight)' <= MaxInFlight
  <2>1. 1 \in Int /\ MaxInFlight \in Int /\ MaxInFlight >= 1
    BY DEF RiskConstants
  <2>2. IsFiniteSet(Slot) /\ Cardinality(Slot) = MaxInFlight - 1 + 1
    BY <2>1, FS_Interval DEF Slot
  <2>3. /\ IsFiniteSet(EntriesInFlight')
        /\ Cardinality(EntriesInFlight') <= Cardinality(Slot)
    BY <1>1, <2>2, FS_Subset
  <2>4. Cardinality(EntriesInFlight') \in Nat
    BY <2>3, FS_CardinalityType
  <2> QED BY <2>1, <2>2, <2>3, <2>4
<1>3. ~IsEntry(o) => EntriesInFlight' = EntriesInFlight
  BY Zenon DEF EntriesInFlight, IsEntry, CountTypes
<1> QED BY <1>2, <1>3

(* A month is a month of the calendar, and days come in the order of their *)
(* months.                                                                 *)
LEMMA MonthFacts ==
  ASSUME LedgerConstants, MonthAssumption
  PROVE  /\ Months \subseteq Nat
         /\ \A d \in Date : Month(d) \in Months
         /\ \A d \in Date : d < LastDay => d + 1 \in Date /\ Month(d) <= Month(d + 1)
<1>1. \A d \in Date : Month(d) \in Nat
  BY DEF MonthAssumption
<1>2. \A d \in Date : d < LastDay => d + 1 \in Date /\ d + 1 \in d .. LastDay
  BY DEF Date, LedgerConstants
<1>3. \A d \in Date : d < LastDay => Month(d) <= Month(d + 1)
  BY <1>2 DEF MonthAssumption
<1> QED BY <1>1, <1>2, <1>3 DEF Months

(* What an execution does to the counts, a purchase or a sale.             *)
LEMMA BuyCounts ==
  ASSUME NEW s, NEW q, NEW p, Buy(s, q, p)
  PROVE  executions' = [executions EXCEPT ![Month(today)] = @ + 1]
BY DEF Buy, CountExecution

LEMMA SellCounts ==
  ASSUME NEW s, NEW q, NEW p, Sell(s, q, p)
  PROVE  executions' = [executions EXCEPT ![Month(today)] = @ + 1]
BY DEF Sell, CountExecution

CountInv == CountTypes /\ BudgetInv /\ NewPositionsCapped

(* What the counts need to know of each kind of step.                      *)
StepFilled(i, o) ==
  /\ inflight[i] = NoOrder /\ (IsEntry(o) => ~BudgetBlocks /\ ~NewPositionsBlock)
  /\ inflight' = [inflight EXCEPT ![i] = o]
  /\ UNCHANGED <<today, executions, newToday, entries>>

StepEntered(i) ==
  /\ IsEntry(inflight[i])
  /\ inflight' = [inflight EXCEPT ![i] = NoOrder]
  /\ executions' = [executions EXCEPT ![Month(today)] = @ + 1]
  /\ entries' = [entries EXCEPT ![Month(today)] = @ + 1]
  /\ newToday' = newToday + 1 /\ today' = today

StepEmptied(i) ==
  /\ inflight' = [inflight EXCEPT ![i] = NoOrder]
  /\ \/ executions' = executions
     \/ executions' = [executions EXCEPT ![Month(today)] = @ + 1]
  /\ UNCHANGED <<today, newToday, entries>>

StepDay ==
  /\ today < LastDay /\ today' = today + 1 /\ newToday' = 0
  /\ UNCHANGED <<executions, inflight, entries>>

StepSame == UNCHANGED <<today, executions, newToday, inflight, entries>>

(* Every step of the gates and of the ledger is one of these.              *)
LEMMA StepKinds ==
  ASSUME [RiskNext]_allVars
  PROVE  \/ \E i \in Slot, o \in Proposal : StepFilled(i, o)
         \/ \E i \in Slot : StepEntered(i) \/ StepEmptied(i)
         \/ StepDay \/ StepSame
<1>1. ASSUME NEW i \in Slot, NEW o \in Proposal, Propose(i, o) PROVE StepFilled(i, o)
  BY <1>1 DEF Propose, StepFilled, Allowed, IsEntry, BuyBlocks, vars, ledgerVars
<1>2. ASSUME NEW i \in Slot, NEW p \in Price, FillEntry(i, p) PROVE StepEntered(i)
  BY <1>2, BuyCounts DEF FillEntry, StepEntered
<1>3. ASSUME NEW i \in Slot, NEW p \in Price, FillExit(i, p) PROVE StepEmptied(i)
  BY <1>3, SellCounts DEF FillExit, StepEmptied
<1>4. ASSUME NEW i \in Slot, Drop(i) PROVE StepEmptied(i)
  BY <1>4 DEF Drop, StepEmptied, vars, ledgerVars
<1>5. CASE Quote \/ ToggleKillSwitch
  BY <1>5 DEF Quote, ToggleKillSwitch, StepSame, vars, ledgerVars
<1>6. CASE LoadPositions
  BY <1>6 DEF LoadPositions, Seed, AddPreExisting, riskVars, StepSame
<1>7. CASE RiskNextDay
  BY <1>7 DEF RiskNextDay, NextDay, StepDay, ledgerVars
<1>8. CASE UNCHANGED allVars
  BY <1>8 DEF allVars, vars, ledgerVars, riskVars, StepSame
<1> QED BY <1>1, <1>2, <1>3, <1>4, <1>5, <1>6, <1>7, <1>8 DEF RiskNext, Fill

(* The bounds are numbers, and large enough for the orders in flight.      *)
LEMMA BoundFacts ==
  ASSUME RiskConstants
  PROVE  /\ Budget \in Int /\ MaxInFlight \in Nat /\ MaxNew \in Nat
         /\ MaxInFlight <= Budget - 1 + MaxInFlight /\ MaxInFlight <= MaxNew - 1 + MaxInFlight
         /\ \A n \in Int : n < Budget => n <= Budget - 1
         /\ \A n \in Int : n < MaxNew => n <= MaxNew - 1
BY DEF RiskConstants, Budget

LEMMA CountInit ==
  ASSUME RiskConstants, LedgerConstants, MonthAssumption, RiskInit
  PROVE  CountInv
<1>1. CountTypes
  BY DEF RiskInit, Init, CountTypes, Date, LedgerConstants
<1>2. BudgetInv
  BY <1>1, InFlightBounded, BoundFacts DEF RiskInit, Init, BudgetInv
<1>3. NewPositionsCapped
  BY InFlightBounded, BoundFacts DEF RiskInit, NewPositionsCapped
<1> QED BY <1>1, <1>2, <1>3 DEF CountInv

(* An allowed order finds a place free below the budget and the day's      *)
(* limit, so the slots alone bound what follows.                           *)
LEMMA FilledKeeps ==
  ASSUME RiskConstants, LedgerConstants, MonthAssumption, CountInv,
         NEW i \in Slot, NEW o \in Proposal, StepFilled(i, o)
  PROVE  CountInv'
<1> DEFINE before == Cardinality(EntriesInFlight)
           after  == Cardinality(EntriesInFlight)'
           month  == Month(today)
<1>1. CountTypes'
  BY DEF CountInv, CountTypes, StepFilled
<1>2. after \in Nat /\ after <= MaxInFlight /\ (~IsEntry(o) => after = before)
  BY Filled DEF CountInv, StepFilled
<1>3. month \in Months /\ month \in Nat
  BY MonthFacts DEF CountInv, CountTypes
<1>4. BudgetInv'
  <2>1. \A m \in Months : entries'[m] = entries[m] /\ executions'[m] = executions[m]
    BY DEF StepFilled
  <2>2. entries[month] + after <= Budget - 1 + MaxInFlight
    <3>1. CASE ~IsEntry(o)
      BY <1>2, <1>3, <3>1 DEF CountInv, BudgetInv
    <3>2. CASE IsEntry(o)
      <4>1. executions[month] < Budget
        BY <1>3, <3>2, BoundFacts DEF StepFilled, BudgetBlocks, CountInv, CountTypes
      <4>2. /\ entries[month] \in Nat /\ executions[month] \in Nat
            /\ entries[month] <= executions[month]
        BY <1>3 DEF CountInv, CountTypes, BudgetInv
      <4> QED BY <1>2, <4>1, <4>2, BoundFacts
    <3> QED BY <3>1, <3>2
  <2>3. Month(today') = month
    BY DEF StepFilled
  <2> QED BY <1>3, <2>1, <2>2, <2>3 DEF BudgetInv, CountInv
<1>5. NewPositionsCapped'
  <2>1. CASE ~IsEntry(o)
    BY <1>2, <2>1 DEF NewPositionsCapped, CountInv, StepFilled
  <2>2. CASE IsEntry(o)
    <3>1. newToday \in Nat /\ newToday < MaxNew /\ newToday' = newToday
      BY <2>2, BoundFacts DEF StepFilled, NewPositionsBlock, CountInv, CountTypes
    <3> QED BY <1>2, <3>1, BoundFacts DEF NewPositionsCapped
  <2> QED BY <2>1, <2>2
<1> QED BY <1>1, <1>4, <1>5 DEF CountInv

(* A filled entry moves from the orders in flight to the entries.          *)
LEMMA EnteredKeeps ==
  ASSUME RiskConstants, LedgerConstants, MonthAssumption, CountInv,
         NEW i \in Slot, StepEntered(i)
  PROVE  CountInv'
<1> DEFINE before == Cardinality(EntriesInFlight)
           after  == Cardinality(EntriesInFlight)'
           month  == Month(today)
<1>1. month \in Months /\ month \in Nat /\ Months \subseteq Nat /\ Month(today') = month
  BY MonthFacts DEF CountInv, CountTypes, StepEntered
<1>2. CountTypes'
  BY <1>1 DEF CountInv, CountTypes, StepEntered
<1>3. after = before - 1 /\ after \in Nat /\ before \in Nat
  BY Emptied, InFlightBounded DEF CountInv, StepEntered
<1>4. \A m \in Months :
        /\ entries[m] \in Nat /\ executions[m] \in Nat
        /\ entries'[m] = IF m = month THEN entries[m] + 1 ELSE entries[m]
        /\ executions'[m] = IF m = month THEN executions[m] + 1 ELSE executions[m]
  BY <1>1 DEF StepEntered, CountInv, CountTypes
<1>5. BudgetInv'
  <2> SUFFICES ASSUME NEW m \in Months
      PROVE  /\ entries'[m] <= executions'[m]
             /\ entries'[m] <= Budget - 1 + MaxInFlight
             /\ m = month => entries'[m] + after <= Budget - 1 + MaxInFlight
             /\ m > month => entries'[m] = 0
    BY <1>1 DEF BudgetInv
  <2>1. /\ entries[m] <= executions[m] /\ entries[m] <= Budget - 1 + MaxInFlight
        /\ m = month => entries[m] + before <= Budget - 1 + MaxInFlight
        /\ m > month => entries[m] = 0
    BY DEF CountInv, BudgetInv
  <2>2. CASE m = month
    BY <1>1, <1>3, <1>4, <2>1, <2>2, BoundFacts
  <2>3. CASE m # month
    BY <1>1, <1>4, <2>1, <2>3
  <2> QED BY <2>2, <2>3
<1>6. NewPositionsCapped'
  BY <1>3, BoundFacts DEF NewPositionsCapped, CountInv, CountTypes, StepEntered
<1> QED BY <1>2, <1>5, <1>6 DEF CountInv

(* A filled exit, or a dropped order, only lowers the number in flight.    *)
LEMMA EmptiedKeeps ==
  ASSUME RiskConstants, LedgerConstants, MonthAssumption, CountInv,
         NEW i \in Slot, StepEmptied(i)
  PROVE  CountInv'
<1> DEFINE before == Cardinality(EntriesInFlight)
           after  == Cardinality(EntriesInFlight)'
           month  == Month(today)
<1>1. month \in Months /\ month \in Nat /\ Month(today') = month
  BY MonthFacts DEF CountInv, CountTypes, StepEmptied
<1>2. CountTypes'
  BY <1>1 DEF CountInv, CountTypes, StepEmptied
<1>3. after <= before /\ after \in Nat /\ before \in Nat
  BY Emptied, InFlightBounded DEF CountInv, StepEmptied
<1>4. \A m \in Months :
        /\ entries[m] \in Nat /\ executions[m] \in Nat /\ entries'[m] = entries[m]
        /\ executions'[m] \in Nat /\ executions'[m] >= executions[m]
  BY <1>1 DEF StepEmptied, CountInv, CountTypes
<1>5. BudgetInv'
  <2> SUFFICES ASSUME NEW m \in Months
      PROVE  /\ entries'[m] <= executions'[m]
             /\ entries'[m] <= Budget - 1 + MaxInFlight
             /\ m = month => entries'[m] + after <= Budget - 1 + MaxInFlight
             /\ m > month => entries'[m] = 0
    BY <1>1 DEF BudgetInv
  <2>1. /\ entries[m] <= executions[m] /\ entries[m] <= Budget - 1 + MaxInFlight
        /\ m = month => entries[m] + before <= Budget - 1 + MaxInFlight
        /\ m > month => entries[m] = 0
    BY DEF CountInv, BudgetInv
  <2> QED BY <1>3, <1>4, <2>1, BoundFacts
<1>6. NewPositionsCapped'
  <2>1. newToday \in Nat /\ newToday' = newToday
    BY DEF CountInv, CountTypes, StepEmptied
  <2>2. newToday + before <= MaxNew - 1 + MaxInFlight
    BY DEF CountInv, NewPositionsCapped
  <2>3. newToday' + after <= MaxNew - 1 + MaxInFlight
    BY <1>3, <2>1, <2>2, BoundFacts
  <2> QED BY <2>3 DEF NewPositionsCapped
<1> QED BY <1>2, <1>5, <1>6 DEF CountInv

(* Overnight the day's count starts again, and a new month has no entries: *)
(* only the orders in flight are carried over.                             *)
LEMMA DayKeeps ==
  ASSUME RiskConstants, LedgerConstants, MonthAssumption, CountInv, StepDay
  PROVE  CountInv'
<1>1. today \in Date /\ today' \in Date /\ Month(today) <= Month(today')
  BY MonthFacts DEF StepDay, CountInv, CountTypes
<1>2. CountTypes'
  BY <1>1 DEF CountInv, CountTypes, StepDay
<1>3. Cardinality(EntriesInFlight)' = Cardinality(EntriesInFlight)
  BY DEF StepDay, EntriesInFlight
<1>4. BudgetInv'
  <2> SUFFICES ASSUME NEW m \in Months
      PROVE  /\ entries[m] <= executions[m] /\ entries[m] <= Budget - 1 + MaxInFlight
             /\ m = Month(today')
                  => entries[m] + Cardinality(EntriesInFlight) <= Budget - 1 + MaxInFlight
             /\ m > Month(today') => entries[m] = 0
    BY <1>3 DEF BudgetInv, StepDay
  <2>1. /\ entries[m] <= executions[m] /\ entries[m] <= Budget - 1 + MaxInFlight
        /\ m = Month(today)
             => entries[m] + Cardinality(EntriesInFlight) <= Budget - 1 + MaxInFlight
        /\ m > Month(today) => entries[m] = 0
    BY DEF CountInv, BudgetInv
  <2>2. m \in Nat /\ Month(today) \in Nat /\ Month(today') \in Nat
    BY <1>1, MonthFacts
  <2>3. entries[m] = 0
          => entries[m] + Cardinality(EntriesInFlight) <= Budget - 1 + MaxInFlight
    BY InFlightBounded, BoundFacts
  <2> QED BY <1>1, <2>1, <2>2, <2>3
<1>5. NewPositionsCapped'
  BY <1>3, InFlightBounded, BoundFacts DEF NewPositionsCapped, StepDay
<1> QED BY <1>2, <1>4, <1>5 DEF CountInv

LEMMA SameKeeps == ASSUME CountInv, StepSame PROVE CountInv'
BY DEF CountInv, CountTypes, BudgetInv, NewPositionsCapped, EntriesInFlight, StepSame

(* The counts are an inductive invariant of the gates over the ledger.     *)
THEOREM CountsHold == RiskSpec => []CountInv
<1>1. RiskInit => CountInv
  BY CountInit, RiskConstants, LedgerConstants, MonthAssumption
<1>2. CountInv /\ [RiskNext]_allVars => CountInv'
  <2> SUFFICES ASSUME CountInv, [RiskNext]_allVars PROVE CountInv'
    OBVIOUS
  <2>1. CASE \E i \in Slot, o \in Proposal : StepFilled(i, o)
    BY <2>1, FilledKeeps, RiskConstants, LedgerConstants, MonthAssumption
  <2>2. CASE \E i \in Slot : StepEntered(i) \/ StepEmptied(i)
    BY <2>2, EnteredKeeps, EmptiedKeeps, RiskConstants, LedgerConstants, MonthAssumption
  <2>3. CASE StepDay
    BY <2>3, DayKeeps, RiskConstants, LedgerConstants, MonthAssumption
  <2>4. CASE StepSame
    BY <2>4, SameKeeps
  <2> QED BY <2>1, <2>2, <2>3, <2>4, StepKinds
<1> QED BY <1>1, <1>2, PTL DEF RiskSpec

(* RiskLimits.max_new_positions_per_day holds up to the orders in flight.  *)
THEOREM NewPositionsHold == RiskSpec => []NewPositionsCapped
<1>1. CountInv => NewPositionsCapped
  BY DEF CountInv
<1> QED BY <1>1, CountsHold, PTL

(* The entries of a month stay below the budget, up to those in flight.    *)
THEOREM BudgetHolds == RiskSpec => []BudgetInv
<1>1. CountInv => BudgetInv
  BY DEF CountInv
<1> QED BY <1>1, CountsHold, PTL

(* RiskLimits.exit_reserve: a month that charges commissions has seen the  *)
(* reserve used by exits, up to the orders in flight.                      *)
THEOREM ReserveHolds == RiskSpec => []ReserveIsForExits
<1>1. CountInv => ReserveIsForExits
  <2> SUFFICES ASSUME CountInv, NEW m \in Months, executions[m] >= FreeTrades
      PROVE  executions[m] - entries[m] >= ExitReserve + 1 - MaxInFlight
    BY DEF ReserveIsForExits
  <2>1. executions[m] \in Nat /\ entries[m] \in Nat
    BY DEF CountInv, CountTypes
  <2>2. entries[m] <= RiskFree - ExitReserve - 1 + MaxInFlight
    BY DEF CountInv, BudgetInv, Budget
  <2>3. /\ RiskFree \in Nat /\ ExitReserve \in Nat /\ MaxInFlight \in Nat
        /\ FreeTrades \in Nat /\ RiskFree <= FreeTrades
    BY RiskConstants, LedgerConstants, AllowanceAssumption DEF RiskConstants, LedgerConstants,
       AllowanceAssumption
  <2> QED BY <2>1, <2>2, <2>3
<1> QED BY <1>1, CountsHold, PTL

----------------------------------------------------------------------------
(* The ledger under the gates: they allow only steps of the ledger, so all *)
(* that is proved of the ledger holds of it here.                          *)
LEMMA ProposalTypes ==
  ASSUME RiskConstants, NEW o \in Proposal
  PROVE  /\ o.symbol \in Symbol /\ o.quantity \in Quantity /\ ValidOrder(o)
         /\ o # NoOrder
BY DEF RiskConstants

InFlightTypes == inflight \in [Slot -> Proposal \cup {NoOrder}]

LEMMA InFlightOrder ==
  ASSUME RiskConstants, InFlightTypes, NEW i \in Slot, inflight[i] # NoOrder
  PROVE  /\ inflight[i] \in Proposal /\ inflight[i].symbol \in Symbol
         /\ inflight[i].quantity \in Quantity /\ ValidOrder(inflight[i])
<1>1. inflight[i] \in Proposal
  BY DEF InFlightTypes
<1> QED BY <1>1, ProposalTypes

LEMMA GatesAllowLedgerSteps ==
  ASSUME RiskConstants, InFlightTypes, [RiskNext]_allVars
  PROVE  [Next]_vars
<1>1. ASSUME NEW i \in Slot, NEW o \in Proposal, Propose(i, o) PROVE [Next]_vars
  BY <1>1 DEF Propose
<1>2. ASSUME NEW i \in Slot, NEW p \in Price, FillEntry(i, p), Executed < MaxExecutions
      PROVE  [Next]_vars
  <2>1. inflight[i].symbol \in Symbol /\ inflight[i].quantity \in Quantity
    BY <1>2, InFlightOrder DEF FillEntry, IsEntry
  <2>2. Buy(inflight[i].symbol, inflight[i].quantity, p) /\ UNCHANGED today
    BY <1>2 DEF FillEntry
  <2> QED BY <1>2, <2>1, <2>2 DEF Next, Execute
<1>3. ASSUME NEW i \in Slot, NEW p \in Price, FillExit(i, p), Executed < MaxExecutions
      PROVE  [Next]_vars
  <2>1. inflight[i].symbol \in Symbol /\ inflight[i].quantity \in Quantity
    BY <1>3, InFlightOrder DEF FillExit, IsExit
  <2>2. Sell(inflight[i].symbol, inflight[i].quantity, p) /\ UNCHANGED today
    BY <1>3 DEF FillExit
  <2> QED BY <1>3, <2>1, <2>2 DEF Next, Execute
<1>4. ASSUME NEW i \in Slot, Drop(i) PROVE [Next]_vars
  BY <1>4 DEF Drop
<1>5. CASE Quote \/ ToggleKillSwitch
  BY <1>5 DEF Quote, ToggleKillSwitch
<1>6. CASE LoadPositions
  BY <1>6 DEF LoadPositions, Next
<1>7. CASE RiskNextDay
  BY <1>7 DEF RiskNextDay, Next
<1>8. CASE UNCHANGED allVars
  BY <1>8 DEF allVars
<1> QED BY <1>1, <1>2, <1>3, <1>4, <1>5, <1>6, <1>7, <1>8 DEF RiskNext, Fill

(* Equity is a number whatever the quotes.                                 *)
LEMMA HeldNat ==
  ASSUME TypeOK, NEW s \in Symbol
  PROVE  HeldQuantity(s) \in Nat /\ SellableQuantity(s) \in Nat /\ \A d : Arriving(s, d) \in Nat
<1>1. PICK held \in Seq(LotType) : held = lots[s]
  BY DEF TypeOK
<1>2. PICK N \in Nat : N = Len(held) /\ DOMAIN held = 1 .. N
  BY <1>1
<1>3. \A i \in 1 .. N : held[i] \in LotType
  BY <1>2
<1>4. \A i \in 1 .. N : held[i].quantity \in Nat
  BY <1>3 DEF LotType
<1>5. Values(QuantityOf, held) \in Seq(Nat)
  BY <1>2, <1>3, <1>4 DEF Values, QuantityOf
<1>6. Values(Delivered(today), held) \in Seq(Nat)
  BY <1>2, <1>3, <1>4 DEF Values, Delivered
<1>7. ASSUME NEW d PROVE Values(Coming(today, d), held) \in Seq(Nat)
  BY <1>2, <1>3, <1>4 DEF Values, Coming
<1>8. /\ HeldQuantity(s) = SumOf(Values(QuantityOf, held))
      /\ SellableQuantity(s) = SumOf(Values(Delivered(today), held))
      /\ \A d : Arriving(s, d) = SumOf(Values(Coming(today, d), held))
  BY <1>1, BookSumsNow DEF BookSums
<1> QED BY <1>5, <1>6, <1>7, <1>8, SumOfNat

LEMMA EquityType ==
  ASSUME LedgerConstants, TypeOK, prices \in [Symbol -> Price \cup {NoPrice}]
  PROVE  Equity \in Int
<1> DEFINE worth == [i \in DOMAIN Symbols |-> HeldQuantity(Symbols[i]) * prices[Symbols[i]]]
<1>1. PICK N \in Nat : DOMAIN Symbols = 1 .. N /\ \A i \in 1 .. N : Symbols[i] \in Symbol
  BY SymbolsFacts
<1>2. ASSUME NEW i \in 1 .. N PROVE HeldQuantity(Symbols[i]) * prices[Symbols[i]] \in Int
  <2>1. Symbols[i] \in Symbol
    BY <1>1
  <2>2. HeldQuantity(Symbols[i]) \in Int
    BY <2>1, HeldNat
  <2>3. prices[Symbols[i]] \in Int
    <3>1. Price \cup {NoPrice} \subseteq Int
      BY DEF LedgerConstants, NoPrice
    <3> QED BY <2>1, <3>1
  <2> QED BY <2>2, <2>3
<1>3. worth \in Seq(Int)
  BY <1>1, <1>2
<1>4. SumOf(worth) \in Int
  <2> HIDE DEF worth
  <2> QED BY <1>3, SumOfFacts
<1>5. Equity = cash + SumOf(worth)
  BY DEF Equity, Total
<1> QED BY <1>4, <1>5 DEF TypeOK

----------------------------------------------------------------------------
(* What the types of the gates need of each step.                          *)
GateTypes ==
  /\ prices \in [Symbol -> Price \cup {NoPrice}] /\ dayStart \in Int
  /\ newToday \in Nat /\ killSwitch \in BOOLEAN
  /\ InFlightTypes
  /\ entries \in [Months -> Nat] /\ together \in BOOLEAN

LEMMA GateTypesInit ==
  ASSUME LedgerConstants, RiskInit
  PROVE  GateTypes
BY DEF RiskInit, GateTypes, InFlightTypes, LedgerConstants

LEMMA GateTypesStep ==
  ASSUME RiskConstants, LedgerConstants, TypeOK, GateTypes, [RiskNext]_allVars
  PROVE  GateTypes'
<1>1. ASSUME NEW i \in Slot, NEW o \in Proposal, Propose(i, o) PROVE GateTypes'
  <2>1. inflight' \in [Slot -> Proposal \cup {NoOrder}]
    BY <1>1 DEF Propose, GateTypes, InFlightTypes
  <2>2. together' \in BOOLEAN
    BY <1>1 DEF Propose, GateTypes
  <2> QED BY <1>1, <2>1, <2>2 DEF Propose, GateTypes, InFlightTypes
<1>2. ASSUME NEW i \in Slot, NEW p \in Price, FillEntry(i, p) PROVE GateTypes'
  <2>1. inflight' \in [Slot -> Proposal \cup {NoOrder}]
    BY <1>2 DEF FillEntry, GateTypes, InFlightTypes
  <2>2. entries' \in [Months -> Nat]
    <3>1. Month(today) \in Months /\ entries \in [Months -> Nat]
      BY DEF TypeOK, Months, GateTypes
    <3>2. entries' = [entries EXCEPT ![Month(today)] = @ + 1]
      BY <1>2 DEF FillEntry
    <3> QED BY <3>1, <3>2
  <2>3. newToday' \in Nat
    BY <1>2 DEF FillEntry, GateTypes
  <2> QED BY <1>2, <2>1, <2>2, <2>3 DEF FillEntry, GateTypes, InFlightTypes
<1>3. ASSUME NEW i \in Slot, NEW p \in Price, FillExit(i, p) PROVE GateTypes'
  BY <1>3 DEF FillExit, GateTypes, InFlightTypes
<1>4. ASSUME NEW i \in Slot, Drop(i) PROVE GateTypes'
  BY <1>4 DEF Drop, GateTypes, InFlightTypes
<1>5. CASE Quote
  BY <1>5 DEF Quote, GateTypes, InFlightTypes
<1>6. CASE ToggleKillSwitch
  BY <1>6 DEF ToggleKillSwitch, GateTypes, InFlightTypes
<1>7. CASE LoadPositions
  BY <1>7 DEF LoadPositions, riskVars, GateTypes, InFlightTypes
<1>8. CASE RiskNextDay
  BY <1>8, EquityType DEF RiskNextDay, GateTypes, InFlightTypes
<1>9. CASE UNCHANGED allVars
  BY <1>9 DEF allVars, riskVars, GateTypes, InFlightTypes
<1> QED BY <1>1, <1>2, <1>3, <1>4, <1>5, <1>6, <1>7, <1>8, <1>9 DEF RiskNext, Fill

----------------------------------------------------------------------------
(* While no two orders were ever in flight at once, what the check of an   *)
(* order saw is still true when it is filled: nothing else was executed.   *)
AtMostOne == \A i, j \in Slot : inflight[i] # NoOrder /\ inflight[j] # NoOrder => i = j

EntryAsChecked(i) ==
  /\ executions[Month(today)] < Budget
  /\ inflight[i].limit # NoPrice => inflight[i].limit * inflight[i].quantity <= cash

ExitAsChecked(i) ==
  \A s \in Symbol : s = inflight[i].symbol => inflight[i].quantity <= SellableQuantity(s)

AloneInv ==
  ~together =>
    /\ acquired.buyFees = 0
    /\ AtMostOne
    /\ \A i \in Slot : IsEntry(inflight[i]) => EntryAsChecked(i)
    /\ \A i \in Slot : IsExit(inflight[i]) => ExitAsChecked(i)

(* Nothing is executed ahead of its month.                                 *)
NoneAhead == \A m \in Months : m > Month(today) => executions[m] = 0

GateInv == LedgerInv /\ GateTypes /\ NoneAhead /\ AloneInv

LEMMA NoneAheadStep ==
  ASSUME RiskConstants, LedgerConstants, MonthAssumption, TypeOK, NoneAhead, [RiskNext]_allVars
  PROVE  NoneAhead'
<1>1. today \in Date /\ Month(today) \in Months /\ executions \in [Months -> Nat]
  BY MonthFacts DEF TypeOK
<1>2. ASSUME UNCHANGED today,
             executions' = executions
               \/ executions' = [executions EXCEPT ![Month(today)] = @ + 1]
      PROVE  NoneAhead'
  <2> SUFFICES ASSUME NEW m \in Months, m > Month(today) PROVE executions'[m] = 0
    BY <1>2 DEF NoneAhead
  <2>1. executions[m] = 0 /\ m # Month(today)
    <3>1. m \in Nat /\ Month(today) \in Nat
      BY <1>1, MonthFacts
    <3> QED BY <3>1 DEF NoneAhead
  <2> QED BY <1>1, <1>2, <2>1
<1>3. CASE \E i \in Slot, o \in Proposal : StepFilled(i, o)
  BY <1>2, <1>3 DEF StepFilled
<1>4. CASE \E i \in Slot : StepEntered(i) \/ StepEmptied(i)
  BY <1>2, <1>4 DEF StepEntered, StepEmptied
<1>5. CASE StepDay
  <2> SUFFICES ASSUME NEW m \in Months, m > Month(today') PROVE executions[m] = 0
    BY <1>5 DEF StepDay, NoneAhead
  <2>1. today' \in Date /\ Month(today) <= Month(today')
    BY <1>1, <1>5, MonthFacts DEF StepDay
  <2>2. m \in Nat /\ Month(today) \in Nat /\ Month(today') \in Nat
    BY <1>1, <2>1, MonthFacts
  <2>3. m > Month(today)
    BY <2>1, <2>2
  <2> QED BY <2>3 DEF NoneAhead
<1>6. CASE StepSame
  BY <1>2, <1>6 DEF StepSame
<1> QED BY <1>3, <1>4, <1>5, <1>6, StepKinds

(* A check made when no order is in flight.                                *)
LEMMA ProposedAlone ==
  ASSUME RiskConstants, LedgerConstants, TypeOK, GateTypes, AloneInv,
         NEW i \in Slot, NEW o \in Proposal, Propose(i, o)
  PROVE  AloneInv'
<1> SUFFICES ASSUME ~together' PROVE AloneInv'
  BY DEF AloneInv
<1>1. ~together /\ \A j \in Slot : inflight[j] = NoOrder
  BY DEF Propose, GateTypes
<1>2. /\ inflight' = [inflight EXCEPT ![i] = o] /\ inflight \in [Slot -> Proposal \cup {NoOrder}]
      /\ Allowed(o)
      /\ cash' = cash /\ today' = today /\ executions' = executions /\ acquired' = acquired
      /\ lots' = lots
  BY DEF Propose, vars, ledgerVars, GateTypes, InFlightTypes
<1>3. \A j \in Slot : inflight'[j] = IF j = i THEN o ELSE NoOrder
  BY <1>1, <1>2
<1>4. AtMostOne'
  BY <1>3 DEF AtMostOne
<1>5. acquired'.buyFees = 0
  BY <1>1, <1>2 DEF AloneInv
<1>6. ASSUME IsEntry(o)
      PROVE  executions[Month(today)] < Budget /\ (o.limit # NoPrice => o.limit * o.quantity <= cash)
  <2>1. ~EntryWideBlocks(o) /\ ~BuyBlocks(o)
    BY <1>2, <1>6 DEF Allowed, IsEntry
  <2>2. ~(executions[Month(today)] >= Budget) /\ ~(CheckedNotional(o) > cash)
    BY <2>1 DEF BuyBlocks, BudgetBlocks, CashBlocks
  <2>3. Budget \in Int /\ executions[Month(today)] \in Int /\ cash \in Int
    <3>1. Month(today) \in Months /\ executions \in [Months -> Nat] /\ cash \in Int
      BY DEF TypeOK, Months
    <3> QED BY <3>1, BoundFacts
  <2>4. ASSUME o.limit # NoPrice PROVE o.limit * o.quantity <= cash
    <3>1. CheckedNotional(o) = o.limit * o.quantity
      BY <2>4 DEF CheckedNotional, CheckPrice, OrderPrice
    <3>2. o.limit \in Nat /\ o.quantity \in Nat
      BY ProposalTypes DEF ValidOrder
    <3>3. o.limit * o.quantity \in Int
      BY <3>2
    <3> QED BY <2>2, <2>3, <3>1, <3>3
  <2> QED BY <2>2, <2>3, <2>4
<1>7. ASSUME IsExit(o), NEW s \in Symbol, s = o.symbol PROVE o.quantity <= SellableQuantity(s)'
  <2>1. ~(o.quantity > SellableQuantity(s))
    BY <1>2, <1>7 DEF Allowed, IsExit, SellBlocks
  <2>2. o.quantity \in Nat /\ SellableQuantity(s) \in Nat
    BY ProposalTypes, HeldNat DEF ValidOrder
  <2>3. TypeOK'
    BY <1>2 DEF TypeOK, Propose, vars, ledgerVars
  <2>4. SellableQuantity(s)' = SellableQuantity(s)
    BY <1>2, <2>3, DeliveryNow, DeliveryNext
  <2> QED BY <2>1, <2>2, <2>4
<1>8. ~IsEntry(NoOrder) /\ ~IsExit(NoOrder)
  BY DEF IsEntry, IsExit
<1>9. ASSUME NEW j \in Slot, IsEntry(inflight[j])' PROVE EntryAsChecked(j)'
  <2>1. inflight'[j] = o /\ IsEntry(o)
    BY <1>3, <1>8, <1>9 DEF IsEntry
  <2> QED BY <1>2, <1>6, <2>1 DEF EntryAsChecked
<1>10. ASSUME NEW j \in Slot, IsExit(inflight[j])' PROVE ExitAsChecked(j)'
  <2>1. inflight'[j] = o /\ IsExit(o)
    BY <1>3, <1>8, <1>10 DEF IsExit
  <2> QED BY <1>7, <2>1 DEF ExitAsChecked
<1> QED BY <1>4, <1>5, <1>9, <1>10 DEF AloneInv

(* When the only order in flight leaves its slot, every slot is empty.     *)
LEMMA AllEmpty ==
  ASSUME GateTypes, AtMostOne, NEW i \in Slot, inflight[i] # NoOrder,
         inflight' = [inflight EXCEPT ![i] = NoOrder]
  PROVE  /\ AtMostOne'
         /\ \A j \in Slot : ~IsEntry(inflight[j])' /\ ~IsExit(inflight[j])'
<1>1. \A j \in Slot : inflight'[j] = NoOrder
  BY DEF GateTypes, InFlightTypes, AtMostOne
<1> QED BY <1>1 DEF AtMostOne, IsEntry, IsExit

(* An order filled alone is filled as it was checked: an entry is free and *)
(* covered by the cash.                                                    *)
LEMMA FreeEntry ==
  ASSUME RiskConstants, LedgerConstants, SettlementAssumption, AllowanceAssumption,
         TypeOK, GateTypes, AloneInv, ~together,
         NEW i \in Slot, NEW p \in Price, FillEntry(i, p)
  PROVE  /\ acquired'.buyFees = 0
         /\ inflight[i].limit # NoPrice => cash' >= 0
<1>1. IsEntry(inflight[i]) /\ inflight[i] # NoOrder
  BY DEF FillEntry, IsEntry
<1>2. PICK o \in Proposal : o = inflight[i]
  BY <1>1, InFlightOrder DEF GateTypes
<1>3. /\ o.symbol \in Symbol /\ o.quantity \in Quantity /\ o.quantity \in Nat /\ o.limit \in Nat
      /\ p \in Nat /\ o.side = "buy"
  <2>1. Price \subseteq Nat
    BY DEF LedgerConstants
  <2> QED BY <1>1, <1>2, <2>1, ProposalTypes DEF ValidOrder, IsEntry
<1>4. Buy(o.symbol, o.quantity, p) /\ Fillable(o, p) /\ UNCHANGED today
  BY <1>2 DEF FillEntry
<1>5. PICK fee \in Nat : /\ fee = Commission(o.quantity * p)
                         /\ cash' = cash - (o.quantity * p + fee)
                         /\ acquired'.buyFees = acquired.buyFees + fee
  BY <1>3, <1>4, BuyDoes
<1>6. EntryAsChecked(i) /\ acquired.buyFees = 0
  BY <1>1 DEF AloneInv
<1>7. fee = 0
  <2>1. executions[Month(today)] < Budget
    BY <1>6 DEF EntryAsChecked
  <2>2. executions[Month(today)] \in Nat
    BY DEF TypeOK, Months
  <2>3. Budget \in Int /\ Budget <= FreeTrades /\ FreeTrades \in Nat
    BY DEF RiskConstants, LedgerConstants, AllowanceAssumption, Budget
  <2>4. executions[Month(today)] < FreeTrades
    BY <2>1, <2>2, <2>3
  <2> QED BY <1>5, <2>4 DEF Commission
<1>8. ASSUME o.limit # NoPrice PROVE cash' >= 0
  <2>1. o.limit * o.quantity <= cash
    BY <1>2, <1>6, <1>8 DEF EntryAsChecked
  <2>2. p <= o.limit
    BY <1>3, <1>4, <1>8 DEF Fillable
  <2>3. PICK l \in Nat, q \in Nat, x \in Nat : l = o.limit /\ q = o.quantity /\ x = p
    BY <1>3
  <2>4. q * x <= l * q /\ q * x \in Nat /\ l * q \in Nat
    <3>1. PICK d \in Nat : l = x + d
      <4>1. l - x \in Nat /\ l = x + (l - x)
        BY <2>2, <2>3
      <4> QED BY <4>1
    <3>2. l * q = q * x + d * q /\ d * q \in Nat /\ q * x \in Nat
      BY <2>3, <3>1
    <3>3. l * q \in Nat
      BY <2>3
    <3> QED BY <3>2, <3>3
  <2>5. cash \in Int /\ cash' = cash - q * x
    <3>1. q * x \in Int /\ cash' = cash - (q * x + 0)
      BY <1>5, <1>7, <2>3
    <3> QED BY <3>1 DEF TypeOK
  <2>6. l * q <= cash
    BY <2>1, <2>3
  <2> QED BY <2>4, <2>5, <2>6
<1> QED BY <1>2, <1>5, <1>6, <1>7, <1>8

(* Shares that can be delivered do not become fewer without a sale.        *)
LEMMA SellableKept ==
  ASSUME LedgerConstants, SettlementAssumption, TypeOK, TypeOK', Seed \/ NextDay, NEW s \in Symbol
  PROVE  /\ SellableQuantity(s)' \in Nat /\ SellableQuantity(s) \in Nat
         /\ SellableQuantity(s)' >= SellableQuantity(s)
<1>1. SellableQuantity(s) \in Nat /\ \A d : Arriving(s, d) \in Nat
  BY HeldNat
<1>2. CASE Seed
  <2>1. PICK t \in Symbol, q \in Quantity, p \in Price : AddPreExisting(t, q, p) /\ UNCHANGED today
    BY <1>2 DEF Seed
  <2>2. PICK lot : Opens(t, q, p, lot) /\ lot.preExisting
    BY <2>1, SeedDoes
  <2>3. /\ SumOf(Values(Delivered(today), lots'[s]))
             = SumOf(Values(Delivered(today), lots[s])) + (IF s = t THEN Delivered(today)[lot] ELSE 0)
    BY <2>2, LotValues, OpensTotals
  <2>4. Delivered(today)[lot] = q /\ q \in Nat
    BY <2>2 DEF Delivered, Opens, LedgerConstants
  <2>5. /\ SellableQuantity(s) = SumOf(Values(Delivered(today), lots[s]))
        /\ SellableQuantity(s)' = SumOf(Values(Delivered(today), lots'[s]))
    BY <2>1, DeliveryNow, DeliveryNext
  <2> QED BY <1>1, <2>3, <2>4, <2>5
<1>3. CASE NextDay
  <2>1. Delivery!NextDay
    BY <1>3, DayDelivery
  <2>2. today' = today + 1 /\ today + 1 \in Date
    BY <1>3 DEF NextDay, TypeOK, Date, LedgerConstants
  <2>3. [t \in Symbol |-> SellableQuantity(t)']
          = [t \in Symbol |-> SellableQuantity(t) + Arriving(t, today + 1)]
    BY <2>1, <2>2 DEF Delivery!NextDay
  <2>4. SellableQuantity(s)' = SellableQuantity(s) + Arriving(s, today + 1)
    BY <2>3
  <2> QED BY <1>1, <2>4
<1> QED BY <1>2, <1>3

(* What the check saw survives a day and a seeded lot.                     *)
LEMMA StillAsChecked ==
  ASSUME RiskConstants, LedgerConstants, SettlementAssumption, MonthAssumption,
         TypeOK, TypeOK', GateTypes, NoneAhead, AloneInv, Seed \/ NextDay,
         UNCHANGED <<inflight, together>>
  PROVE  AloneInv'
<1> SUFFICES ASSUME ~together PROVE AloneInv'
  BY DEF AloneInv
<1>1. /\ acquired.buyFees = 0 /\ AtMostOne
      /\ \A i \in Slot : IsEntry(inflight[i]) => EntryAsChecked(i)
      /\ \A i \in Slot : IsExit(inflight[i]) => ExitAsChecked(i)
  BY DEF AloneInv
<1>2. cash' = cash /\ executions' = executions /\ acquired'.buyFees = acquired.buyFees
  <2>1. CASE Seed
    <3>1. PICK s \in Symbol, q \in Quantity, p \in Price : AddPreExisting(s, q, p) /\ UNCHANGED today
      BY <2>1 DEF Seed
    <3>2. cash' = cash /\ acquired'.buyFees = acquired.buyFees
      BY <3>1, SeedDoes
    <3> QED BY <3>1, <3>2 DEF AddPreExisting
  <2>2. CASE NextDay
    BY <2>2 DEF NextDay, ledgerVars
  <2> QED BY <2>1, <2>2
<1>3. \A s \in Symbol : /\ SellableQuantity(s)' >= SellableQuantity(s)
                        /\ SellableQuantity(s) \in Nat /\ SellableQuantity(s)' \in Nat
  BY SellableKept
<1>4. ASSUME executions[Month(today)] < Budget PROVE executions'[Month(today')] < Budget
  <2>1. Month(today) \in Months /\ Month(today') \in Months /\ Month(today) <= Month(today')
    <3>1. \/ today' = today
          \/ today < LastDay /\ today' = today + 1
      BY DEF Seed, NextDay
    <3>2. today \in Date /\ Month(today) \in Nat
      BY MonthFacts DEF TypeOK
    <3> QED BY <3>1, <3>2, MonthFacts
  <2>2. Month(today) \in Nat /\ Month(today') \in Nat
    BY <2>1, MonthFacts
  <2>3. CASE Month(today') = Month(today)
    BY <1>2, <1>4, <2>3
  <2>4. CASE Month(today') > Month(today)
    <3>1. executions[Month(today')] = 0
      BY <2>1, <2>4 DEF NoneAhead
    <3>2. 0 < Budget
      BY DEF RiskConstants, Budget
    <3> QED BY <1>2, <3>1, <3>2
  <2> QED BY <2>1, <2>2, <2>3, <2>4
<1>5. ASSUME NEW i \in Slot, IsEntry(inflight[i])' PROVE EntryAsChecked(i)'
  <2>1. EntryAsChecked(i) /\ inflight' = inflight
    BY <1>1, <1>5 DEF IsEntry
  <2> QED BY <1>2, <1>4, <2>1 DEF EntryAsChecked
<1>6. ASSUME NEW i \in Slot, IsExit(inflight[i])' PROVE ExitAsChecked(i)'
  <2>1. ExitAsChecked(i) /\ inflight' = inflight /\ IsExit(inflight[i])
    BY <1>1, <1>6 DEF IsExit
  <2>2. inflight[i].quantity \in Nat
    BY <2>1, InFlightOrder DEF GateTypes, IsExit, ValidOrder
  <2> QED BY <1>3, <2>1, <2>2 DEF ExitAsChecked
<1>7. AtMostOne'
  BY <1>1 DEF AtMostOne
<1> QED BY <1>1, <1>2, <1>5, <1>6, <1>7 DEF AloneInv

LEMMA GateInvInit ==
  ASSUME RiskConstants, LedgerConstants, RiskInit
  PROVE  GateInv
<1>1. LedgerInv /\ GateTypes
  BY LedgerInit, GateTypesInit DEF RiskInit
<1>2. NoneAhead
  BY DEF RiskInit, Init, NoneAhead
<1>3. AloneInv
  BY DEF RiskInit, Init, AloneInv, AtMostOne, IsEntry, IsExit
<1> QED BY <1>1, <1>2, <1>3 DEF GateInv

LEMMA GateInvStep ==
  ASSUME RiskConstants, LedgerConstants, SettlementAssumption, AllowanceAssumption,
         MonthAssumption, GateInv, [RiskNext]_allVars
  PROVE  GateInv'
<1>1. LedgerInv /\ TypeOK /\ GateTypes /\ NoneAhead /\ AloneInv
  BY DEF GateInv, LedgerInv
<1>2. LedgerInv' /\ TypeOK'
  <2>1. [Next]_vars
    BY <1>1, GatesAllowLedgerSteps DEF GateTypes
  <2> QED BY <1>1, <2>1, LedgerStep DEF LedgerInv
<1>3. GateTypes' /\ NoneAhead'
  BY <1>1, GateTypesStep, NoneAheadStep
<1>4. AloneInv'
  <2>1. ASSUME NEW i \in Slot, NEW o \in Proposal, Propose(i, o) PROVE AloneInv'
    BY <1>1, <2>1, ProposedAlone
  <2>2. ASSUME NEW i \in Slot, NEW p \in Price, FillEntry(i, p) PROVE AloneInv'
    <3> SUFFICES ASSUME ~together' PROVE AloneInv'
      BY DEF AloneInv
    <3>1. ~together /\ inflight[i] # NoOrder /\ inflight' = [inflight EXCEPT ![i] = NoOrder]
      BY <2>2 DEF FillEntry, IsEntry
    <3>2. acquired'.buyFees = 0
      BY <1>1, <2>2, <3>1, FreeEntry
    <3> QED BY <1>1, <3>1, <3>2, AllEmpty DEF AloneInv
  <2>3. ASSUME NEW i \in Slot, NEW p \in Price, FillExit(i, p) PROVE AloneInv'
    <3> SUFFICES ASSUME ~together' PROVE AloneInv'
      BY DEF AloneInv
    <3>1. /\ ~together /\ inflight[i] # NoOrder /\ inflight' = [inflight EXCEPT ![i] = NoOrder]
          /\ acquired' = acquired
      BY <2>3 DEF FillExit, IsExit, Sell
    <3> QED BY <1>1, <3>1, AllEmpty DEF AloneInv
  <2>4. ASSUME NEW i \in Slot, Drop(i) PROVE AloneInv'
    <3> SUFFICES ASSUME ~together' PROVE AloneInv'
      BY DEF AloneInv
    <3>1. /\ ~together /\ inflight[i] # NoOrder /\ inflight' = [inflight EXCEPT ![i] = NoOrder]
          /\ acquired' = acquired
      BY <2>4 DEF Drop, vars, ledgerVars
    <3> QED BY <1>1, <3>1, AllEmpty DEF AloneInv
  <2>5. CASE LoadPositions
    <3>1. Seed /\ UNCHANGED <<inflight, together>>
      BY <2>5 DEF LoadPositions, riskVars
    <3> QED BY <1>1, <1>2, <3>1, StillAsChecked
  <2>6. CASE RiskNextDay
    <3>1. NextDay /\ UNCHANGED <<inflight, together>>
      BY <2>6 DEF RiskNextDay
    <3> QED BY <1>1, <1>2, <3>1, StillAsChecked
  <2>7. ASSUME UNCHANGED <<vars, inflight, together>> PROVE AloneInv'
    <3>1. /\ today' = today /\ cash' = cash /\ lots' = lots /\ executions' = executions
          /\ acquired' = acquired /\ inflight' = inflight /\ together' = together
      BY <2>7 DEF vars, ledgerVars
    <3>2. \A s \in Symbol : SellableQuantity(s)' = SellableQuantity(s)
      BY <1>1, <1>2, <3>1, DeliveryNow, DeliveryNext
    <3>3. AtMostOne' <=> AtMostOne
      BY <3>1 DEF AtMostOne
    <3>4. \A i \in Slot : /\ IsEntry(inflight[i])' <=> IsEntry(inflight[i])
                          /\ IsExit(inflight[i])' <=> IsExit(inflight[i])
      BY <3>1 DEF IsEntry, IsExit
    <3>5. \A i \in Slot : /\ EntryAsChecked(i)' <=> EntryAsChecked(i)
                          /\ ExitAsChecked(i)' <=> ExitAsChecked(i)
      BY <3>1, <3>2 DEF EntryAsChecked, ExitAsChecked
    <3> QED BY <1>1, <3>1, <3>3, <3>4, <3>5 DEF AloneInv
  <2>8. CASE Quote \/ ToggleKillSwitch
    BY <2>7, <2>8 DEF Quote, ToggleKillSwitch
  <2>9. CASE UNCHANGED allVars
    BY <2>7, <2>9 DEF allVars, riskVars
  <2> QED BY <2>1, <2>2, <2>3, <2>4, <2>5, <2>6, <2>8, <2>9 DEF RiskNext, Fill
<1> QED BY <1>1, <1>2, <1>3, <1>4 DEF GateInv

(* What the ledger and the gates keep together, for every number of slots. *)
THEOREM GateInvariant == RiskSpec => []GateInv
<1>1. RiskInit => GateInv
  BY GateInvInit, RiskConstants, LedgerConstants
<1>2. GateInv /\ [RiskNext]_allVars => GateInv'
  BY GateInvStep, RiskConstants, LedgerConstants, SettlementAssumption, AllowanceAssumption,
     MonthAssumption
<1> QED BY <1>1, <1>2, PTL DEF RiskSpec

(* The gates only ever take steps of the ledger: what is proved of the     *)
(* ledger alone holds under them.                                          *)
THEOREM GatesKeepTheLedger == RiskSpec => Spec
<1>1. RiskInit => Init
  BY DEF RiskInit
<1>2. GateInv /\ [RiskNext]_allVars => [Next]_vars
  BY GatesAllowLedgerSteps, RiskConstants DEF GateInv, GateTypes
<1> QED BY <1>1, <1>2, GateInvariant, PTL DEF RiskSpec, Spec

(* The types of the gates and of the ledger under them.                    *)
THEOREM RiskTypesHold == RiskSpec => []RiskTypeOK
<1>1. GateInv => RiskTypeOK
  BY DEF GateInv, LedgerInv, GateTypes, InFlightTypes, RiskTypeOK
<1> QED BY <1>1, GateInvariant, PTL

(* As long as orders were in flight one at a time, no entry is charged a   *)
(* commission, so the cash gate may leave it out (RiskEngine._check_cash   *)
(* compares the bare notional).                                            *)
THEOREM EntriesFreeHolds == RiskSpec => []EntriesAreFree
<1>1. GateInv => EntriesAreFree
  BY DEF GateInv, AloneInv, EntriesAreFree
<1> QED BY <1>1, GateInvariant, PTL

(* As long as orders were in flight one at a time, an allowed exit can be  *)
(* delivered on whatever later day it is filled (Gate.SETTLEMENT).         *)
THEOREM ExitsHold == RiskSpec => []ExitsDeliverable
<1>1. GateInv => ExitsDeliverable
  <2> SUFFICES ASSUME GateInv, ~together, NEW i \in Slot, IsExit(inflight[i])
      PROVE  inflight[i].quantity <= SellableQuantity(inflight[i].symbol)
    BY DEF ExitsDeliverable
  <2>1. ExitAsChecked(i)
    BY DEF GateInv, AloneInv
  <2>2. inflight[i].symbol \in Symbol
    BY InFlightOrder, RiskConstants DEF GateInv, GateTypes, IsExit
  <2> QED BY <2>1, <2>2 DEF ExitAsChecked
<1> QED BY <1>1, GateInvariant, PTL

(* An entry the routing builds is a limit order, whatever the urgency, the *)
(* settlement and the turnover (choose_order_type).                        *)
THEOREM RoutedEntriesAreLimits ==
  ASSUME NEW symbol, NEW urgency, NEW settlement, NEW quantity, NEW last, NEW liquid,
         NEW o \in Route!Routed(symbol, "buy", urgency, settlement, quantity, last, liquid)
  PROVE  o.side = "buy" /\ o.type = "limit"
<1>1. PICK d \in Route!ChooseOrderType("buy", urgency, settlement, last, liquid) :
        o.side = "buy" /\ o.type = d.type
  BY DEF Route!Routed
<1>2. d.type = "limit"
  BY <1>1 DEF Route!ChooseOrderType, Route!AtLimit
<1> QED BY <1>1, <1>2

(* As long as orders were in flight one at a time, no filled entry leaves  *)
(* the cash negative, when entries are limit orders, as routed ones are    *)
(* (Gate.CASH).                                                            *)
THEOREM NoOverdraftHolds ==
  ASSUME \A o \in Proposal : o.side = "buy" => o.type = "limit"
  PROVE  RiskSpec => EntriesNeverOverdraw
<1> DEFINE Covered == ~together /\ entries' # entries => cash' >= 0
<1>1. ASSUME GateInv, [RiskNext]_allVars PROVE [Covered]_allVars
  <2> SUFFICES ASSUME ~together, entries' # entries PROVE cash' >= 0
    OBVIOUS
  <2>1. PICK i \in Slot, p \in Price : FillEntry(i, p)
    BY <1>1 DEF RiskNext, Propose, Fill, FillExit, Drop, Quote, ToggleKillSwitch, LoadPositions,
       riskVars, RiskNextDay, allVars
  <2>2. /\ inflight[i].limit # NoPrice
    <3>1. IsEntry(inflight[i])
      BY <2>1 DEF FillEntry
    <3>2. inflight[i] \in Proposal /\ ValidOrder(inflight[i])
      BY <1>1, <3>1, InFlightOrder, RiskConstants DEF GateInv, GateTypes, IsEntry
    <3> QED BY <3>1, <3>2 DEF ValidOrder, IsEntry
  <2> QED BY <1>1, <2>1, <2>2, FreeEntry, RiskConstants, LedgerConstants, SettlementAssumption,
      AllowanceAssumption DEF GateInv, LedgerInv
<1>2. [][Covered]_allVars <=> EntriesNeverOverdraw
  BY DEF EntriesNeverOverdraw
<1> QED BY <1>1, <1>2, GateInvariant, PTL DEF RiskSpec
=============================================================================
