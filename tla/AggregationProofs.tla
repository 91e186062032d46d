------------------------- MODULE AggregationProofs --------------------------
(***************************************************************************)
(* What aggregate makes of every list of ticks: it sorts them, and has one *)
(* bar for each bucket with a tick of the session, made of all of these.   *)
(***************************************************************************)
EXTENDS Aggregation, SumsProofs

(* A bucket is the BucketSize instants from its start.                     *)
LEMMA BucketFacts ==
  ASSUME NEW t \in Nat
  PROVE  /\ BucketStart(t) \in Nat /\ BucketStart(t) <= t /\ t < BucketStart(t) + BucketSize
         /\ BucketStart(BucketStart(t)) = BucketStart(t)
<1>1. PICK q \in Nat : q = t \div BucketSize
  BY BucketAssumption
<1>2. q * BucketSize <= t /\ t < (q + 1) * BucketSize
  BY <1>1, BucketAssumption
<1>3. BucketStart(t) = q * BucketSize
  BY <1>1 DEF BucketStart
<1>4. q * BucketSize \in Nat /\ (q + 1) * BucketSize = q * BucketSize + BucketSize
  BY BucketAssumption
<1>5. (q * BucketSize) \div BucketSize = q
  BY BucketAssumption
<1> QED BY <1>2, <1>3, <1>4, <1>5, BucketAssumption DEF BucketStart

(* Buckets are in the order of their instants and do not overlap.          *)
LEMMA BucketOrder ==
  ASSUME NEW t \in Nat, NEW u \in Nat
  PROVE  /\ t <= u => BucketStart(t) <= BucketStart(u)
         /\ BucketStart(t) < BucketStart(u) => BucketStart(t) + BucketSize <= BucketStart(u)
         /\ BucketStart(u) <= t <=> BucketStart(u) <= BucketStart(t)
<1>1. PICK B \in Nat \ {0} : B = BucketSize
  BY BucketAssumption
<1>2. PICK p \in Nat, q \in Nat : p = t \div B /\ q = u \div B
  BY <1>1
<1>3. BucketStart(t) = p * B /\ BucketStart(u) = q * B
  BY <1>1, <1>2 DEF BucketStart
<1>4. p * B <= t /\ t < p * B + B /\ q * B <= u /\ u < q * B + B
  BY <1>1, <1>3, BucketFacts
<1>5. p * B \in Nat /\ q * B \in Nat
  BY <1>1
<1>6. ASSUME p < q PROVE p * B + B <= q * B
  <2>1. PICK d \in Nat : q = p + 1 + d
    <3>1. q - p - 1 \in Nat /\ q = p + 1 + (q - p - 1)
      BY <1>6
    <3> QED BY <3>1
  <2>2. q * B = p * B + B + d * B /\ d * B \in Nat
    BY <2>1
  <2> QED BY <1>5, <2>2
<1>7. ASSUME q < p PROVE q * B + B <= p * B
  <2>1. PICK d \in Nat : p = q + 1 + d
    <3>1. p - q - 1 \in Nat /\ p = q + 1 + (p - q - 1)
      BY <1>7
    <3> QED BY <3>1
  <2>2. p * B = q * B + B + d * B /\ d * B \in Nat
    BY <2>1
  <2> QED BY <1>5, <2>2
<1>8. CASE p = q
  BY <1>1, <1>3, <1>4, <1>5, <1>8
<1>9. CASE p < q
  BY <1>1, <1>3, <1>4, <1>5, <1>6, <1>9
<1>10. CASE q < p
  BY <1>1, <1>3, <1>4, <1>5, <1>7, <1>10
<1> QED BY <1>8, <1>9, <1>10

----------------------------------------------------------------------------
(* Ticks are timed.                                                        *)
Timed(T)      == \A t \in T : t.at \in Nat
Sorted(ticks) == \A i, j \in DOMAIN ticks : i < j => ticks[i].at <= ticks[j].at

(* A list in order of time stays as it is.                                 *)
LEMMA OrderedKeeps ==
  ASSUME NEW T, Timed(T), NEW ticks \in Seq(T), Sorted(ticks)
  PROVE  Ordered(ticks) = ticks
<1>1. PICK N \in Nat : N = Len(ticks) /\ DOMAIN ticks = 1 .. N
  OBVIOUS
<1>2. \A i \in 1 .. N : ticks[i].at \in Nat
  BY <1>1 DEF Timed
<1>3. ASSUME NEW i \in 1 .. N PROVE Cardinality(Earlier(ticks, i)) = i - 1
  <2>1. ASSUME NEW j \in 1 .. N
        PROVE  (ticks[j].at < ticks[i].at \/ (ticks[j].at = ticks[i].at /\ j < i)) <=> j < i
    <3>1. /\ j < i => ticks[j].at <= ticks[i].at
          /\ i < j => ticks[i].at <= ticks[j].at
      BY <1>1 DEF Sorted
    <3>2. ticks[i].at \in Nat /\ ticks[j].at \in Nat
      BY <1>2
    <3> QED BY <3>1, <3>2
  <2>2. Earlier(ticks, i) = 1 .. i - 1
    BY <1>1, <2>1 DEF Earlier
  <2>3. Cardinality(1 .. i - 1) = i - 1
    BY FS_Interval
  <2> QED BY <2>2, <2>3
<1>4. ASSUME NEW k \in 1 .. N
      PROVE  (CHOOSE i \in DOMAIN ticks : Cardinality(Earlier(ticks, i)) = k - 1) = k
  BY <1>1, <1>3
<1>5. Ordered(ticks) = [k \in 1 .. N |-> ticks[k]]
  <2>1. Ordered(ticks) = [k \in 1 .. N |->
          ticks[CHOOSE i \in DOMAIN ticks : Cardinality(Earlier(ticks, i)) = k - 1]]
    BY <1>1 DEF Ordered
  <2> QED BY <1>4, <2>1
<1> QED BY <1>1, <1>5

(* sorted: the list in which at p[k] the k-th in time was, the earlier one *)
(* of two simultaneous ones before the later.                              *)
IsOrdering(p, ticks) ==
  /\ p \in [DOMAIN ticks -> DOMAIN ticks]
  /\ \A i \in DOMAIN ticks : \E k \in DOMAIN ticks : p[k] = i
  /\ \A k, l \in DOMAIN ticks : k < l =>
       \/ ticks[p[k]].at < ticks[p[l]].at
       \/ ticks[p[k]].at = ticks[p[l]].at /\ p[k] < p[l]

LEMMA OrderedOrders ==
  ASSUME NEW T, Timed(T), NEW ticks \in Seq(T)
  PROVE  /\ Ordered(ticks) \in Seq(T) /\ Sorted(Ordered(ticks))
         /\ \E p : /\ IsOrdering(p, ticks)
                   /\ Ordered(ticks) = [k \in DOMAIN ticks |-> ticks[p[k]]]
<1>1. PICK N \in Nat : N = Len(ticks) /\ DOMAIN ticks = 1 .. N
  OBVIOUS
<1>2. \A i \in 1 .. N : ticks[i].at \in Nat /\ ticks[i] \in T
  BY <1>1 DEF Timed
<1>3. PICK D : D = 1 .. N
  OBVIOUS
<1>4. IsFiniteSet(D) /\ Cardinality(D) = N
  BY <1>3, FS_Interval
<1> DEFINE rank == [i \in D |-> Cardinality(Earlier(ticks, i)) + 1]
           Comes(j, i) == ticks[j].at < ticks[i].at \/ (ticks[j].at = ticks[i].at /\ j < i)
<1>5. \A i \in D : Earlier(ticks, i) = {j \in D : Comes(j, i)}
  BY <1>1, <1>3 DEF Earlier
<1>6. /\ \A i \in D : ~Comes(i, i)
      /\ \A i, j \in D : i # j => Comes(i, j) \/ Comes(j, i)
      /\ \A i, j, k \in D : Comes(i, j) /\ Comes(j, k) => Comes(i, k)
  BY <1>2, <1>3
<1> HIDE DEF Comes
<1>7. ASSUME NEW i \in D
      PROVE  IsFiniteSet(Earlier(ticks, i)) /\ Cardinality(Earlier(ticks, i)) \in 0 .. N - 1
  <2>1. Earlier(ticks, i) \subseteq D /\ i \notin Earlier(ticks, i)
    BY <1>5, <1>6
  <2>2. IsFiniteSet(Earlier(ticks, i)) /\ Cardinality(Earlier(ticks, i)) <= N
    BY <1>4, <2>1, FS_Subset
  <2>3. Cardinality(Earlier(ticks, i)) \in Nat
    BY <2>2, FS_CardinalityType
  <2>4. Cardinality(Earlier(ticks, i)) # N
    BY <1>4, <2>1, FS_Subset
  <2> QED BY <2>2, <2>3, <2>4
<1>8. ASSUME NEW i \in D, NEW j \in D, Comes(i, j)
      PROVE  Cardinality(Earlier(ticks, i)) < Cardinality(Earlier(ticks, j))
  <2>1. Earlier(ticks, i) \subseteq Earlier(ticks, j)
    BY <1>5, <1>6, <1>8
  <2>2. i \in Earlier(ticks, j) /\ i \notin Earlier(ticks, i)
    BY <1>5, <1>6, <1>8
  <2>3. IsFiniteSet(Earlier(ticks, j))
    BY <1>7
  <2>4. /\ Cardinality(Earlier(ticks, i)) <= Cardinality(Earlier(ticks, j))
        /\ Cardinality(Earlier(ticks, i)) # Cardinality(Earlier(ticks, j))
    BY <2>1, <2>2, <2>3, FS_Subset
  <2> QED BY <1>7, <2>4
<1>9. rank \in Injection(D, D)
  <2>1. \A i \in D : Cardinality(Earlier(ticks, i)) + 1 \in D
    BY <1>3, <1>7
  <2>2. rank \in [D -> D]
    BY <2>1
  <2>3. ASSUME NEW i \in D, NEW j \in D, i # j PROVE rank[i] # rank[j]
    <3>1. Cardinality(Earlier(ticks, i)) \in Int /\ Cardinality(Earlier(ticks, j)) \in Int
      BY <1>7
    <3>2. Cardinality(Earlier(ticks, i)) # Cardinality(Earlier(ticks, j))
      BY <1>6, <1>8, <2>3, <3>1
    <3> QED BY <3>1, <3>2
  <2> HIDE DEF rank
  <2> QED BY <2>2, <2>3 DEF Injection, IsInjective
<1>10. rank \in Surjection(D, D)
  <2> HIDE DEF rank
  <2> QED BY <1>4, <1>9, FS_Injection
<1> DEFINE p == [k \in D |-> CHOOSE i \in D : Cardinality(Earlier(ticks, i)) = k - 1]
<1>11. ASSUME NEW k \in D PROVE p[k] \in D /\ Cardinality(Earlier(ticks, p[k])) = k - 1
  <2>1. PICK i \in D : rank[i] = k
    <3> HIDE DEF rank
    <3> QED BY <1>10 DEF Surjection
  <2>2. rank[i] = Cardinality(Earlier(ticks, i)) + 1 /\ k \in Int
    BY <1>3
  <2>3. Cardinality(Earlier(ticks, i)) = k - 1
    <3>1. Cardinality(Earlier(ticks, i)) \in Int
      BY <1>7
    <3> HIDE DEF rank
    <3> QED BY <2>1, <2>2, <3>1
  <2> QED BY <2>3
<1>12. \A i \in D : \E k \in D : p[k] = i
  <2>1. ASSUME NEW i \in D PROVE p[rank[i]] = i /\ rank[i] \in D
    <3>1. rank[i] \in D /\ rank[i] - 1 = Cardinality(Earlier(ticks, i))
      BY <1>3, <1>7
    <3>2. PICK j \in D : j = p[rank[i]] /\ Cardinality(Earlier(ticks, j)) = rank[i] - 1
      BY <1>11, <3>1
    <3>3. j = i
      BY <1>6, <1>7, <1>8, <3>1, <3>2
    <3> QED BY <3>1, <3>2, <3>3
  <2> HIDE DEF p, rank
  <2> QED BY <2>1
<1>13. ASSUME NEW k \in D, NEW l \in D, k < l PROVE Comes(p[k], p[l])
  <2>1. PICK i \in D : i = p[k] /\ Cardinality(Earlier(ticks, i)) = k - 1
    BY <1>11
  <2>2. PICK j \in D : j = p[l] /\ Cardinality(Earlier(ticks, j)) = l - 1
    BY <1>11
  <2>3. ~Comes(j, i) /\ i # j
    BY <1>3, <1>8, <1>13, <2>1, <2>2
  <2> QED BY <1>6, <2>1, <2>2, <2>3
<1>14. Ordered(ticks) = [k \in D |-> ticks[p[k]]]
  <2>1. Ordered(ticks) = [k \in D |->
          ticks[CHOOSE i \in D : Cardinality(Earlier(ticks, i)) = k - 1]]
    BY <1>1, <1>3 DEF Ordered
  <2> QED BY <2>1
<1>15. p \in [D -> D]
  <2>1. \A k \in D : p[k] \in D
    BY <1>11
  <2> QED BY <2>1
<1> HIDE DEF p, rank
<1>16. IsOrdering(p, ticks)
  BY <1>1, <1>3, <1>12, <1>13, <1>15 DEF IsOrdering, Comes
<1>17. Ordered(ticks) \in Seq(T)
  <2>1. \A k \in 1 .. N : ticks[p[k]] \in T
    BY <1>2, <1>3, <1>15
  <2> QED BY <1>3, <1>14, <2>1
<1>18. Sorted(Ordered(ticks))
  <2>1. DOMAIN Ordered(ticks) = D /\ \A k \in D : Ordered(ticks)[k] = ticks[p[k]]
    BY <1>14
  <2>2. ASSUME NEW k \in D, NEW l \in D, k < l PROVE ticks[p[k]].at <= ticks[p[l]].at
    <3>1. ticks[p[k]].at \in Nat /\ ticks[p[l]].at \in Nat
      BY <1>2, <1>3, <1>15
    <3> QED BY <1>13, <2>2, <3>1 DEF Comes
  <2> QED BY <2>1, <2>2 DEF Sorted
<1> QED BY <1>1, <1>3, <1>14, <1>16, <1>17, <1>18

----------------------------------------------------------------------------
(* The loop.                                                               *)
BarFrom(T)   == {BarOf(q, b) : q \in Seq(T), b \in Nat}
RollState(T) == [bars : Seq(BarFrom(T)), bucket : Seq(T)]
Unrolled     == [bars |-> <<>>, bucket |-> <<>>]

LEMMA ClosedType ==
  ASSUME NEW T, Timed(T), NEW s \in RollState(T)
  PROVE  Closed(s) \in Seq(BarFrom(T))
<1>1. s.bars \in Seq(BarFrom(T)) /\ s.bucket \in Seq(T)
  BY DEF RollState
<1>2. CASE s.bucket = <<>>
  BY <1>1, <1>2 DEF Closed
<1>3. CASE s.bucket # <<>>
  <2>1. s.bucket[1] \in T
    BY <1>1, <1>3
  <2>2. BucketStart(s.bucket[1].at) \in Nat
    BY <2>1, BucketFacts DEF Timed
  <2>3. BarOf(s.bucket, BucketStart(s.bucket[1].at)) \in BarFrom(T)
    BY <1>1, <2>2 DEF BarFrom
  <2>4. Closed(s) = Append(s.bars, BarOf(s.bucket, BucketStart(s.bucket[1].at)))
    BY <1>3 DEF Closed
  <2> QED BY <1>1, <2>3, <2>4
<1> QED BY <1>2, <1>3

LEMMA RolledType ==
  ASSUME NEW T, Timed(T), NEW s \in RollState(T), NEW tick \in T
  PROVE  Rolled(s, tick) \in RollState(T)
<1>1. Closed(s) \in Seq(BarFrom(T))
  BY ClosedType
<1>2. [bars |-> Closed(s), bucket |-> <<tick>>] \in RollState(T)
  BY <1>1 DEF RollState
<1>3. [s EXCEPT !.bucket = Append(@, tick)] \in RollState(T)
  <2>1. s.bars \in Seq(BarFrom(T)) /\ Append(s.bucket, tick) \in Seq(T)
    BY DEF RollState
  <2> QED BY <2>1 DEF RollState
<1> QED BY <1>2, <1>3 DEF Rolled

RollsUp(f, c) ==
  /\ f[0] = Unrolled
  /\ \A n \in 1 .. Len(c) : f[n] = Rolled(f[n - 1], c[n])

LEMMA RollFacts ==
  ASSUME NEW T, Timed(T), NEW c \in Seq(T)
  PROVE  \E f \in [0 .. Len(c) -> RollState(T)] : RollsUp(f, c) /\ Roll(c) = f[Len(c)]
<1> DEFINE N == Len(c)
           F == [x \in RollState(T) \X (1 .. N) |-> Rolled(x[1], c[x[2]])]
           Body(f) == [n \in 0 .. N |->
                         IF n = 0 THEN [bars |-> <<>>, bucket |-> <<>>] ELSE Rolled(f[n - 1], c[n])]
           upto == CHOOSE f : f = Body(f)
<1>1. N \in Nat /\ Unrolled \in RollState(T)
  BY DEF Unrolled, RollState
<1>2. F \in [RollState(T) \X (1 .. N) -> RollState(T)]
  <2>1. ASSUME NEW x \in RollState(T) \X (1 .. N) PROVE Rolled(x[1], c[x[2]]) \in RollState(T)
    <3>1. x[1] \in RollState(T) /\ c[x[2]] \in T
      BY <1>1
    <3> QED BY <3>1, RolledType
  <2> QED BY <2>1
<1>3. \E h : IsLoop(h, N, RollState(T), Unrolled, F)
  <2> HIDE DEF F, N
  <2> QED BY <1>1, <1>2, LoopExists
<1>4. PICK h : IsLoop(h, N, RollState(T), Unrolled, F)
  BY <1>3
<1>5. h \in [0 .. N -> RollState(T)] /\ h[0] = Unrolled
  BY <1>4 DEF IsLoop
<1>6. ASSUME NEW n \in 1 .. N PROVE h[n] = Rolled(h[n - 1], c[n])
  <2>1. h[n - 1] \in RollState(T)
    BY <1>5
  <2>2. h[n] = F[<<h[n - 1], n>>]
    BY <1>4 DEF IsLoop
  <2> QED BY <2>1, <2>2
<1>7. h = Body(h)
  <2>1. ASSUME NEW n \in 0 .. N
        PROVE  h[n] = IF n = 0 THEN [bars |-> <<>>, bucket |-> <<>>] ELSE Rolled(h[n - 1], c[n])
    <3>1. CASE n = 0
      BY <1>5, <3>1 DEF Unrolled
    <3>2. CASE n # 0
      <4>1. n \in 1 .. N
        BY <1>1, <3>2
      <4> QED BY <1>6, <3>2, <4>1
    <3> QED BY <3>1, <3>2
  <2> HIDE DEF N
  <2> QED BY <1>5, <2>1
<1>8. upto = Body(upto)
  <2> HIDE DEF Body
  <2> QED BY <1>7
<1>9. ASSUME NEW n \in 0 .. N
      PROVE  upto[n] = IF n = 0 THEN [bars |-> <<>>, bucket |-> <<>>] ELSE Rolled(upto[n - 1], c[n])
  <2> HIDE DEF upto
  <2> QED BY <1>8
<1>10. Roll(c) = upto[N]
  BY DEF Roll, upto
<1> HIDE DEF upto
<1> DEFINE S == {n \in 0 .. N : upto[n] = h[n]}
<1>11. 0 \in S
  BY <1>1, <1>5, <1>9 DEF Unrolled
<1>12. ASSUME NEW n \in 0 .. N - 1, n \in S PROVE n + 1 \in S
  <2>1. n + 1 \in 1 .. N /\ n + 1 \in 0 .. N /\ n + 1 # 0 /\ (n + 1) - 1 = n
    BY <1>1
  <2>2. h[n + 1] = Rolled(h[n], c[n + 1])
    BY <1>6, <2>1
  <2>3. upto[n + 1] = Rolled(upto[n], c[n + 1])
    BY <1>9, <2>1
  <2> QED BY <1>12, <2>1, <2>2, <2>3
<1>13. \A n \in 0 .. N : n \in S
  <2>1. S \in SUBSET (0 .. N)
    OBVIOUS
  <2> HIDE DEF S, N
  <2> QED BY <1>1, <1>11, <1>12, <2>1, LoopInduction
<1> QED BY <1>1, <1>5, <1>6, <1>10, <1>13 DEF RollsUp

(* One tick more.                                                          *)
LEMMA RollAppend ==
  ASSUME NEW T, Timed(T), NEW c \in Seq(T), NEW x \in T
  PROVE  Roll(Append(c, x)) = Rolled(Roll(c), x)
<1>1. PICK N \in Nat : N = Len(c)
  OBVIOUS
<1>2. PICK d \in Seq(T) : d = Append(c, x)
  <2>1. Append(c, x) \in Seq(T)
    OBVIOUS
  <2> QED BY <2>1
<1>3. Len(d) = N + 1 /\ d[N + 1] = x /\ \A i \in 1 .. N : d[i] = c[i]
  BY <1>1, <1>2
<1>4. PICK f \in [0 .. N + 1 -> RollState(T)] : RollsUp(f, d) /\ Roll(d) = f[N + 1]
  BY <1>3, RollFacts
<1>5. PICK h \in [0 .. N -> RollState(T)] : RollsUp(h, c) /\ Roll(c) = h[N]
  BY <1>1, RollFacts
<1> DEFINE S == {n \in 0 .. N : f[n] = h[n]}
<1>6. 0 \in S
  BY <1>4, <1>5 DEF RollsUp
<1>7. ASSUME NEW n \in 0 .. N - 1, n \in S PROVE n + 1 \in S
  <2>1. n + 1 \in 1 .. N /\ n + 1 \in 1 .. N + 1 /\ n + 1 \in 0 .. N /\ (n + 1) - 1 = n
    OBVIOUS
  <2>2. f[n + 1] = Rolled(f[n], d[n + 1]) /\ h[n + 1] = Rolled(h[n], c[n + 1])
    BY <1>1, <1>3, <1>4, <1>5, <2>1 DEF RollsUp
  <2> QED BY <1>3, <1>7, <2>1, <2>2
<1>8. \A n \in 0 .. N : n \in S
  <2>1. S \in SUBSET (0 .. N)
    OBVIOUS
  <2> HIDE DEF S
  <2> QED BY <1>6, <1>7, <2>1, LoopInduction
<1>9. f[N + 1] = Rolled(f[N], d[N + 1])
  <2>1. N + 1 \in 1 .. N + 1 /\ (N + 1) - 1 = N
    OBVIOUS
  <2> QED BY <1>3, <1>4, <2>1 DEF RollsUp
<1>10. f[N] = h[N]
  BY <1>8
<1> QED BY <1>2, <1>3, <1>4, <1>5, <1>9, <1>10

LEMMA RollEmpty ==
  ASSUME NEW T, Timed(T)
  PROVE  Roll(<<>>) = Unrolled
<1>1. PICK c \in Seq(T) : c = <<>> /\ Len(c) = 0
  <2>1. <<>> \in Seq(T) /\ Len(<<>>) = 0
    OBVIOUS
  <2> QED BY <2>1
<1>2. PICK f \in [0 .. Len(c) -> RollState(T)] : RollsUp(f, c) /\ Roll(c) = f[Len(c)]
  BY RollFacts
<1> QED BY <1>1, <1>2 DEF RollsUp

LEMMA RollType ==
  ASSUME NEW T, Timed(T), NEW c \in Seq(T)
  PROVE  Roll(c) \in RollState(T)
<1>1. PICK f \in [0 .. Len(c) -> RollState(T)] : Roll(c) = f[Len(c)]
  BY RollFacts
<1>2. Len(c) \in 0 .. Len(c)
  OBVIOUS
<1> QED BY <1>1, <1>2

----------------------------------------------------------------------------
(* The bars of a list of ticks in order of time: one for each bucket with  *)
(* a tick, in order, made of all the ticks of its bucket.                  *)
OfBucket(T, b) == {t \in T : BucketStart(t.at) = b}

AreBars(T, c, bars) ==
  /\ \A k, l \in DOMAIN bars : k < l => bars[k].start < bars[l].start
  /\ \A k \in DOMAIN bars : bars[k] = BarOf(Only(c, OfBucket(T, bars[k].start)), bars[k].start)
  /\ \A k \in DOMAIN bars : \E i \in DOMAIN c : BucketStart(c[i].at) = bars[k].start
  /\ \A i \in DOMAIN c : \E k \in DOMAIN bars : bars[k].start = BucketStart(c[i].at)

(* In the loop: the same but for the bucket still open.                    *)
AreBarsBefore(T, c, bars, open) ==
  /\ \A k, l \in DOMAIN bars : k < l => bars[k].start < bars[l].start
  /\ \A k \in DOMAIN bars : bars[k].start < open
  /\ \A k \in DOMAIN bars : bars[k] = BarOf(Only(c, OfBucket(T, bars[k].start)), bars[k].start)
  /\ \A k \in DOMAIN bars : \E i \in DOMAIN c : BucketStart(c[i].at) = bars[k].start
  /\ \A i \in DOMAIN c : \/ BucketStart(c[i].at) = open
                         \/ \E k \in DOMAIN bars : bars[k].start = BucketStart(c[i].at)

(* A sequence with one element more.                                       *)
IsLonger(longer, n, seq, x) ==
  /\ longer = Append(seq, x) /\ DOMAIN seq = 1 .. n /\ DOMAIN longer = 1 .. n + 1
  /\ longer[n + 1] = x /\ \A i \in 1 .. n : longer[i] = seq[i]

LEMMA AppendIs ==
  ASSUME NEW A, NEW seq \in Seq(A), NEW x \in A
  PROVE  \E n \in Nat, longer \in Seq(A) : IsLonger(longer, n, seq, x)
<1>1. PICK n \in Nat : n = Len(seq)
  OBVIOUS
<1>2. PICK longer : longer = Append(seq, x)
  OBVIOUS
<1>3. /\ longer \in Seq(A) /\ DOMAIN seq = 1 .. n /\ DOMAIN longer = 1 .. n + 1
      /\ longer[n + 1] = x /\ \A i \in 1 .. n : longer[i] = seq[i]
  BY <1>1, <1>2
<1> QED BY <1>2, <1>3 DEF IsLonger

LEMMA OpenBarCloses ==
  ASSUME NEW T, Timed(T), NEW c \in Seq(T), NEW bars \in Seq(BarFrom(T)), NEW open \in Nat,
         AreBarsBefore(T, c, bars, open),
         NEW i \in DOMAIN c, BucketStart(c[i].at) = open
  PROVE  AreBars(T, c, Append(bars, BarOf(Only(c, OfBucket(T, open)), open)))
<1>1. PICK last : last = BarOf(Only(c, OfBucket(T, open)), open)
  OBVIOUS
<1>2. last.start = open
  BY <1>1 DEF BarOf
<1>3. last \in BarFrom(T)
  <2>1. Only(c, OfBucket(T, open)) \in Seq(T \cap OfBucket(T, open))
    BY OnlyType
  <2>2. Only(c, OfBucket(T, open)) \in Seq(T)
    BY <2>1
  <2> QED BY <1>1, <2>2 DEF BarFrom
<1>0. PICK n \in Nat, more \in Seq(BarFrom(T)) : IsLonger(more, n, bars, last)
  BY <1>3, AppendIs
<1>4. /\ more = Append(bars, last) /\ DOMAIN bars = 1 .. n /\ DOMAIN more = 1 .. n + 1
      /\ more[n + 1] = last /\ \A k \in 1 .. n : more[k] = bars[k]
  BY <1>0 DEF IsLonger
<1>5. \A k, l \in DOMAIN more : k < l => more[k].start < more[l].start
  BY <1>2, <1>4 DEF AreBarsBefore
<1>6. \A k \in DOMAIN more : more[k] = BarOf(Only(c, OfBucket(T, more[k].start)), more[k].start)
  <2>1. ASSUME NEW k \in DOMAIN more
        PROVE  more[k] = BarOf(Only(c, OfBucket(T, more[k].start)), more[k].start)
    <3>1. CASE k = n + 1
      BY <1>1, <1>2, <1>4, <3>1
    <3>2. CASE k # n + 1
      <4>1. k \in 1 .. n
        BY <1>4, <3>2
      <4> QED BY <1>4, <4>1 DEF AreBarsBefore
    <3> QED BY <3>1, <3>2
  <2> QED BY <2>1
<1>7. \A k \in DOMAIN more : \E j \in DOMAIN c : BucketStart(c[j].at) = more[k].start
  <2>1. ASSUME NEW k \in DOMAIN more PROVE \E j \in DOMAIN c : BucketStart(c[j].at) = more[k].start
    <3>1. CASE k = n + 1
      BY <1>2, <1>4, <3>1
    <3>2. CASE k # n + 1
      <4>1. k \in 1 .. n
        BY <1>4, <3>2
      <4> QED BY <1>4, <4>1 DEF AreBarsBefore
    <3> QED BY <3>1, <3>2
  <2> QED BY <2>1
<1>8. \A j \in DOMAIN c : \E k \in DOMAIN more : more[k].start = BucketStart(c[j].at)
  <2>1. n + 1 \in DOMAIN more /\ more[n + 1].start = open
    BY <1>2, <1>4
  <2>2. \A k \in DOMAIN bars : k \in DOMAIN more /\ more[k] = bars[k]
    BY <1>4
  <2> QED BY <2>1, <2>2 DEF AreBarsBefore
<1>9. AreBars(T, c, more)
  BY <1>5, <1>6, <1>7, <1>8 DEF AreBars
<1> QED BY <1>1, <1>4, <1>9

(* A tick of the open bucket, or of a later one, leaves the bars before it *)
(* as they are.                                                            *)
LEMMA BarsBeforeKeep ==
  ASSUME NEW T, Timed(T), NEW c \in Seq(T), NEW x \in T, NEW bars \in Seq(BarFrom(T)),
         \A k, l \in DOMAIN bars : k < l => bars[k].start < bars[l].start,
         \A k \in DOMAIN bars : bars[k].start < BucketStart(x.at),
         \A k \in DOMAIN bars : bars[k] = BarOf(Only(c, OfBucket(T, bars[k].start)), bars[k].start),
         \A k \in DOMAIN bars : \E i \in DOMAIN c : BucketStart(c[i].at) = bars[k].start,
         \A i \in DOMAIN c : \/ BucketStart(c[i].at) = BucketStart(x.at)
                             \/ \E k \in DOMAIN bars : bars[k].start = BucketStart(c[i].at)
  PROVE  AreBarsBefore(T, Append(c, x), bars, BucketStart(x.at))
<1>0. PICK n \in Nat, d \in Seq(T) : IsLonger(d, n, c, x)
  BY AppendIs
<1>1. /\ d = Append(c, x) /\ DOMAIN c = 1 .. n /\ DOMAIN d = 1 .. n + 1
      /\ d[n + 1] = x /\ \A i \in 1 .. n : d[i] = c[i]
  BY <1>0 DEF IsLonger
<1>2. ASSUME NEW k \in DOMAIN bars
      PROVE  Only(d, OfBucket(T, bars[k].start)) = Only(c, OfBucket(T, bars[k].start))
  <2>1. BucketStart(x.at) \in Nat
    BY BucketFacts DEF Timed
  <2>2. bars[k].start \in Nat
    <3>1. PICK i \in DOMAIN c : BucketStart(c[i].at) = bars[k].start
      OBVIOUS
    <3>2. c[i].at \in Nat
      BY DEF Timed
    <3> QED BY <3>1, <3>2, BucketFacts
  <2>3. x \notin OfBucket(T, bars[k].start)
    BY <2>1, <2>2 DEF OfBucket
  <2> QED BY <1>1, <2>3, OnlyAppend
<1>3. \A k \in DOMAIN bars : bars[k] = BarOf(Only(d, OfBucket(T, bars[k].start)), bars[k].start)
  BY <1>2
<1>4. \A k \in DOMAIN bars : \E i \in DOMAIN d : BucketStart(d[i].at) = bars[k].start
  <2>1. \A i \in DOMAIN c : i \in DOMAIN d /\ d[i] = c[i]
    BY <1>1
  <2> QED BY <2>1
<1>5. ASSUME NEW i \in DOMAIN d
      PROVE  \/ BucketStart(d[i].at) = BucketStart(x.at)
             \/ \E k \in DOMAIN bars : bars[k].start = BucketStart(d[i].at)
  <2>1. CASE i = n + 1
    BY <1>1, <2>1
  <2>2. CASE i # n + 1
    <3>1. i \in DOMAIN c /\ d[i] = c[i]
      BY <1>1, <2>2
    <3> QED BY <3>1
  <2> QED BY <2>1, <2>2
<1> QED BY <1>1, <1>3, <1>4, <1>5 DEF AreBarsBefore

LEMMA NewestOpen ==
  ASSUME NEW T, Timed(T), NEW c \in Seq(T), c # <<>>, Sorted(c)
  PROVE  /\ Len(c) \in DOMAIN c /\ BucketStart(c[Len(c)].at) \in Nat
         /\ \A i \in DOMAIN c : /\ BucketStart(c[i].at) \in Nat
                                /\ BucketStart(c[i].at) <= BucketStart(c[Len(c)].at)
<1>1. PICK n \in Nat : n = Len(c) /\ DOMAIN c = 1 .. n /\ n \in 1 .. n
  <2>1. Len(c) # 0
    OBVIOUS
  <2> QED BY <2>1
<1>2. \A i \in DOMAIN c : c[i] \in T
  OBVIOUS
<1>3. \A i \in DOMAIN c : c[i].at \in Nat
  BY <1>2 DEF Timed
<1>4. ASSUME NEW i \in DOMAIN c PROVE c[i].at <= c[n].at
  <2>1. CASE i = n
    BY <1>3, <2>1
  <2>2. CASE i # n
    BY <1>1, <2>2 DEF Sorted
  <2> QED BY <2>1, <2>2
<1>5. ASSUME NEW i \in DOMAIN c
      PROVE  BucketStart(c[i].at) \in Nat /\ BucketStart(c[i].at) <= BucketStart(c[n].at)
  <2>1. c[i].at \in Nat /\ c[n].at \in Nat
    BY <1>1, <1>3
  <2> QED BY <1>4, <2>1, BucketFacts, BucketOrder
<1> QED BY <1>1, <1>5

(* What the loop has gathered after the ticks c.                           *)
RollGathers(T, c) ==
  IF c = <<>> THEN Roll(c) = Unrolled
  ELSE /\ Roll(c).bucket = Only(c, OfBucket(T, BucketStart(c[Len(c)].at)))
       /\ AreBarsBefore(T, c, Roll(c).bars, BucketStart(c[Len(c)].at))

(* The open bucket has ticks, and is told by the first of them.            *)
LEMMA OpenBucket ==
  ASSUME NEW T, Timed(T), NEW c \in Seq(T), c # <<>>, RollGathers(T, c)
  PROVE  /\ Roll(c).bucket # <<>>
         /\ BucketStart(Roll(c).bucket[1].at) = BucketStart(c[Len(c)].at)
<1>1. PICK open : open = BucketStart(c[Len(c)].at)
  OBVIOUS
<1>2. PICK q \in Seq(T \cap OfBucket(T, open)) : q = Only(c, OfBucket(T, open))
  BY OnlyType
<1>3. Roll(c).bucket = q
  BY <1>1, <1>2 DEF RollGathers
<1>4. Len(c) \in DOMAIN c /\ c[Len(c)] \in T
  <2>1. Len(c) # 0
    OBVIOUS
  <2> QED BY <2>1
<1>5. c[Len(c)] \in OfBucket(T, open)
  BY <1>1, <1>4 DEF OfBucket
<1>6. q # <<>>
  BY <1>2, <1>4, <1>5, OnlyNone
<1>7. q[1] \in OfBucket(T, open)
  BY <1>2, <1>6
<1>8. BucketStart(q[1].at) = open
  BY <1>7 DEF OfBucket
<1> QED BY <1>1, <1>3, <1>6, <1>8

LEMMA ClosedBars ==
  ASSUME NEW T, Timed(T), NEW c \in Seq(T), Sorted(c), RollGathers(T, c)
  PROVE  Closed(Roll(c)) \in Seq(BarFrom(T)) /\ AreBars(T, c, Closed(Roll(c)))
<1>1. Roll(c) \in RollState(T)
  BY RollType
<1>2. Closed(Roll(c)) \in Seq(BarFrom(T)) /\ Roll(c).bars \in Seq(BarFrom(T))
  BY <1>1, ClosedType DEF RollState
<1>3. CASE c = <<>>
  <2>1. Closed(Roll(c)) = <<>>
    BY <1>3 DEF RollGathers, Closed, Unrolled
  <2>2. DOMAIN c = {} /\ DOMAIN <<>> = {}
    BY <1>3
  <2>3. AreBars(T, c, <<>>)
    BY <2>2 DEF AreBars
  <2> QED BY <1>2, <2>1, <2>3
<1>4. CASE c # <<>>
  <2>1. PICK open \in Nat : open = BucketStart(c[Len(c)].at)
    BY <1>4, NewestOpen
  <2>2. Len(c) \in DOMAIN c
    BY <1>4, NewestOpen
  <2>3. /\ Roll(c).bucket = Only(c, OfBucket(T, open))
        /\ AreBarsBefore(T, c, Roll(c).bars, open)
    BY <1>4, <2>1 DEF RollGathers
  <2>4. Closed(Roll(c)) = Append(Roll(c).bars, BarOf(Roll(c).bucket, open))
    BY <1>4, <2>1, OpenBucket DEF Closed
  <2>5. AreBars(T, c, Append(Roll(c).bars, BarOf(Only(c, OfBucket(T, open)), open)))
    BY <1>2, <2>1, <2>2, <2>3, OpenBarCloses
  <2> QED BY <1>2, <2>3, <2>4, <2>5
<1> QED BY <1>3, <1>4

LEMMA RollGathersOne ==
  ASSUME NEW T, Timed(T), NEW c \in Seq(T), NEW x \in T, Sorted(Append(c, x)),
         Sorted(c), RollGathers(T, c)
  PROVE  RollGathers(T, Append(c, x))
<1>1. PICK n \in Nat, d \in Seq(T) : IsLonger(d, n, c, x)
  BY AppendIs
<1>2. /\ d = Append(c, x) /\ DOMAIN c = 1 .. n /\ DOMAIN d = 1 .. n + 1
      /\ d[n + 1] = x /\ \A i \in 1 .. n : d[i] = c[i]
  BY <1>1 DEF IsLonger
<1>3. Len(d) = n + 1 /\ d # <<>> /\ d[Len(d)] = x /\ Len(c) = n
  BY <1>2
<1>4. PICK b \in Nat : b = BucketStart(x.at)
  BY BucketFacts DEF Timed
<1>5. PICK s \in RollState(T) : s = Roll(c)
  BY RollType
<1>6. s.bars \in Seq(BarFrom(T)) /\ s.bucket \in Seq(T)
  BY DEF RollState
<1>7. Roll(d) = Rolled(s, x)
  BY <1>2, <1>5, RollAppend
<1>8. Only(d, OfBucket(T, b)) = Append(Only(c, OfBucket(T, b)), x)
  <2>1. x \in OfBucket(T, b)
    BY <1>4 DEF OfBucket
  <2> QED BY <1>2, <2>1, OnlyAppend
<1>9. SUFFICES Roll(d).bucket = Only(d, OfBucket(T, b)) /\ AreBarsBefore(T, d, Roll(d).bars, b)
  BY <1>2, <1>3, <1>4 DEF RollGathers
<1>10. ASSUME Rolled(s, x) = [s EXCEPT !.bucket = Append(@, x)]
       PROVE  Roll(d).bars = s.bars /\ Roll(d).bucket = Append(s.bucket, x)
  BY <1>7, <1>10 DEF RollState
<1>11. CASE c = <<>>
  <2>1. s.bucket = <<>> /\ s.bars = <<>>
    BY <1>5, <1>11 DEF RollGathers, Unrolled
  <2>2. Rolled(s, x) = [s EXCEPT !.bucket = Append(@, x)]
    BY <2>1 DEF Rolled
  <2>3. Only(c, OfBucket(T, b)) = <<>>
    BY <1>11, OnlyEmpty
  <2>4. DOMAIN c = {} /\ DOMAIN s.bars = {}
    BY <1>11, <2>1
  <2>5. AreBarsBefore(T, Append(c, x), s.bars, BucketStart(x.at))
    BY <1>6, <2>4, BarsBeforeKeep
  <2> QED BY <1>2, <1>4, <1>8, <1>10, <2>1, <2>2, <2>3, <2>5
<1>12. CASE c # <<>>
  <2>1. PICK open \in Nat : open = BucketStart(c[Len(c)].at)
    BY <1>12, NewestOpen
  <2>2. /\ s.bucket = Only(c, OfBucket(T, open)) /\ AreBarsBefore(T, c, s.bars, open)
        /\ s.bucket # <<>> /\ BucketStart(s.bucket[1].at) = open
    BY <1>5, <1>12, <2>1, OpenBucket DEF RollGathers
  <2>3. open <= b
    <3>1. n \in DOMAIN d /\ n + 1 \in DOMAIN d /\ d[n] = c[n]
      BY <1>2, <1>3, <1>12, NewestOpen
    <3>2. c[n].at <= x.at
      BY <1>2, <3>1 DEF Sorted
    <3>3. c[n].at \in Nat /\ x.at \in Nat
      BY <1>2, <3>1 DEF Timed
    <3> QED BY <1>3, <1>4, <2>1, <3>2, <3>3, BucketOrder
  <2>4. CASE open = b
    <3>1. Rolled(s, x) = [s EXCEPT !.bucket = Append(@, x)]
      BY <1>4, <2>2, <2>4 DEF Rolled
    <3>2. AreBarsBefore(T, Append(c, x), s.bars, BucketStart(x.at))
      <4>1. AreBarsBefore(T, c, s.bars, BucketStart(x.at))
        BY <1>4, <2>2, <2>4
      <4>2. PICK bars \in Seq(BarFrom(T)) : bars = s.bars
        BY <1>6
      <4>3. /\ \A k, l \in DOMAIN bars : k < l => bars[k].start < bars[l].start
            /\ \A k \in DOMAIN bars : bars[k].start < BucketStart(x.at)
            /\ \A k \in DOMAIN bars :
                 bars[k] = BarOf(Only(c, OfBucket(T, bars[k].start)), bars[k].start)
            /\ \A k \in DOMAIN bars : \E i \in DOMAIN c : BucketStart(c[i].at) = bars[k].start
            /\ \A i \in DOMAIN c : \/ BucketStart(c[i].at) = BucketStart(x.at)
                                   \/ \E k \in DOMAIN bars : bars[k].start = BucketStart(c[i].at)
        BY <4>1, <4>2 DEF AreBarsBefore
      <4>4. AreBarsBefore(T, Append(c, x), bars, BucketStart(x.at))
        BY <4>3, BarsBeforeKeep
      <4> QED BY <4>2, <4>4
    <3> QED BY <1>2, <1>4, <1>8, <1>10, <2>2, <2>4, <3>1, <3>2
  <2>5. CASE open < b
    <3>1. Rolled(s, x) = [bars |-> Closed(s), bucket |-> <<x>>]
      BY <1>4, <2>2, <2>5 DEF Rolled
    <3>2. Closed(s) \in Seq(BarFrom(T)) /\ AreBars(T, c, Closed(s))
      BY <1>5, ClosedBars
    <3>3. \A i \in DOMAIN c : BucketStart(c[i].at) \in Nat /\ BucketStart(c[i].at) < b
      BY <1>12, <2>1, <2>5, NewestOpen
    <3>4. AreBarsBefore(T, Append(c, x), Closed(s), BucketStart(x.at))
      <4>1. \A k \in DOMAIN Closed(s) : Closed(s)[k].start < BucketStart(x.at)
        BY <1>4, <3>2, <3>3 DEF AreBars
      <4> QED BY <3>2, <4>1, BarsBeforeKeep DEF AreBars
    <3>5. Only(c, OfBucket(T, b)) = <<>>
      <4>1. \A i \in DOMAIN c : c[i] \notin OfBucket(T, b)
        BY <3>3 DEF OfBucket
      <4> QED BY <4>1, OnlyNone
    <3>6. Append(<<>>, x) = <<x>>
      OBVIOUS
    <3> QED BY <1>2, <1>4, <1>7, <1>8, <3>1, <3>4, <3>5, <3>6
  <2> QED BY <2>3, <2>4, <2>5
<1> QED BY <1>11, <1>12

LEMMA RollGathersAll ==
  ASSUME NEW T, Timed(T)
  PROVE  \A c \in Seq(T) : Sorted(c) => RollGathers(T, c)
<1> DEFINE S == {c \in Seq(T) : Sorted(c) => RollGathers(T, c)}
<1>1. S \in SUBSET Seq(T)
  OBVIOUS
<1>2. <<>> \in S
  <2>1. <<>> \in Seq(T)
    OBVIOUS
  <2> QED BY <2>1, RollEmpty DEF RollGathers
<1>3. ASSUME NEW c \in S, NEW x \in T PROVE Append(c, x) \in S
  <2>1. c \in Seq(T) /\ Append(c, x) \in Seq(T) /\ (Sorted(c) => RollGathers(T, c))
    OBVIOUS
  <2>2. ASSUME Sorted(Append(c, x)) PROVE Sorted(c)
    <3>1. PICK n \in Nat, d \in Seq(T) : IsLonger(d, n, c, x)
      BY <2>1, AppendIs
    <3> QED BY <2>2, <3>1 DEF IsLonger, Sorted
  <2>3. Sorted(Append(c, x)) => RollGathers(T, Append(c, x))
    BY <2>1, <2>2, RollGathersOne
  <2> QED BY <2>1, <2>3
<1>4. \A c \in Seq(T) : c \in S
  <2> HIDE DEF S
  <2> QED BY <1>1, <1>2, <1>3, SeqInductionSet
<1> QED BY <1>4

----------------------------------------------------------------------------
(* A list of ticks, and what a bar made of it says.                        *)
TickOf(Names, Prices) ==
  [symbol : Names, at : Nat, price : Prices, volume : Nat \cup {NoVolume}]

BarIs(Names, Prices) ==
  [symbol : Names, start : Nat, open : Prices, high : Prices, low : Prices,
   close : Prices, volume : Nat, count : Nat \ {0}]

LEMMA PositionsFinite ==
  ASSUME NEW A, NEW q \in Seq(A), NEW S \in SUBSET DOMAIN q
  PROVE  IsFiniteSet(S)
<1>1. PICK N \in Nat : DOMAIN q = 1 .. N
  OBVIOUS
<1>2. IsFiniteSet(1 .. N)
  BY FS_Interval
<1> QED BY <1>1, <1>2, FS_Subset

LEMMA VolumeIsNat ==
  ASSUME NEW T, \A t \in T : t.volume = NoVolume \/ t.volume \in Nat, NEW q \in Seq(T)
  PROVE  VolumeFor(q) \in Nat
<1> DEFINE known == {k \in DOMAIN q : q[k].volume # NoVolume}
<1>1. PICK N \in Nat : DOMAIN q = 1 .. N
  OBVIOUS
<1>2. IsFiniteSet(known) /\ known \in SUBSET Int
  BY <1>1, PositionsFinite
<1>3. CASE Cardinality(known) < 2
  BY <1>3 DEF VolumeFor
<1>4. CASE ~(Cardinality(known) < 2)
  <2>1. known # {}
    <3>1. Cardinality({}) < 2
      BY FS_EmptySet
    <3> HIDE DEF known
    <3>2. ASSUME known = {} PROVE FALSE
      <4>1. Cardinality(known) = Cardinality({})
        BY <3>2
      <4> QED BY <1>4, <3>1, <4>1
    <3> QED BY <3>2
  <2>2. Max(known) \in known /\ Min(known) \in known
    <3> HIDE DEF known
    <3> QED BY <1>2, <2>1, FiniteExtremes
  <2>3. \A k \in known : q[k].volume \in Nat
    <3>1. \A k \in DOMAIN q : q[k] \in T
      OBVIOUS
    <3> QED BY <3>1
  <2>4. PICK d \in Int : d = q[Max(known)].volume - q[Min(known)].volume
    <3> HIDE DEF known
    <3> QED BY <2>2, <2>3
  <2>5. VolumeFor(q) = Max({0, d})
    BY <1>4, <2>4 DEF VolumeFor
  <2> QED BY <2>5, MaxOfTwo
<1> QED BY <1>3, <1>4

(* The low and the high of a bar are prices of its ticks, around them all. *)
Spans(bar, q) ==
  /\ \A i \in DOMAIN q : q[i].price \in bar.low .. bar.high
  /\ \E i, j \in DOMAIN q : bar.low = q[i].price /\ bar.high = q[j].price

LEMMA BarHasType ==
  ASSUME NEW Names, NEW Prices \in SUBSET Int, NEW T \in SUBSET TickOf(Names, Prices),
         NEW q \in Seq(T), q # <<>>, NEW b \in Nat
  PROVE  BarOf(q, b) \in BarIs(Names, Prices) /\ Spans(BarOf(q, b), q)
<1> DEFINE prices == {q[k].price : k \in DOMAIN q}
<1>1. PICK N \in Nat : N = Len(q) /\ DOMAIN q = 1 .. N
  OBVIOUS
<1>2. N # 0 /\ 1 \in DOMAIN q /\ N \in DOMAIN q
  BY <1>1
<1>3. \A k \in DOMAIN q : q[k].symbol \in Names /\ q[k].price \in Prices
  <2>1. \A k \in DOMAIN q : q[k] \in T
    OBVIOUS
  <2> QED BY <2>1 DEF TickOf
<1>4. prices \in SUBSET Prices /\ prices # {} /\ prices \in SUBSET Int
  BY <1>2, <1>3
<1>5. IsFiniteSet(prices)
  <2> DEFINE P == [k \in DOMAIN q |-> q[k].price]
  <2>1. P \in [DOMAIN q -> prices]
    OBVIOUS
  <2>2. \A x \in prices : \E k \in DOMAIN q : P[k] = x
    OBVIOUS
  <2>3. P \in Surjection(DOMAIN q, prices)
    <3> HIDE DEF P, prices
    <3> QED BY <2>1, <2>2 DEF Surjection
  <2>4. IsFiniteSet(DOMAIN q)
    BY PositionsFinite
  <2> HIDE DEF prices, P
  <2> QED BY <2>3, <2>4, FS_Surjection
<1>6. /\ Max(prices) \in prices /\ \A y \in prices : y <= Max(prices)
      /\ Min(prices) \in prices /\ \A y \in prices : Min(prices) <= y
  <2> HIDE DEF prices
  <2> QED BY <1>4, <1>5, FiniteExtremes
<1>7. VolumeFor(q) \in Nat
  <2>1. \A t \in T : t.volume = NoVolume \/ t.volume \in Nat
    BY DEF TickOf
  <2> QED BY <2>1, VolumeIsNat
<1>8. Head(q) = q[1] /\ Last(q) = q[N]
  BY <1>1, <1>2 DEF Last
<1>9. BarOf(q, b) = [symbol |-> q[1].symbol, start |-> b, open |-> q[1].price,
                     high |-> Max(prices), low |-> Min(prices), close |-> q[N].price,
                     volume |-> VolumeFor(q), count |-> N]
  BY <1>1, <1>8 DEF BarOf
<1>10. BarOf(q, b) \in BarIs(Names, Prices)
  <2>1. Max(prices) \in Prices /\ Min(prices) \in Prices
    BY <1>4, <1>6
  <2> HIDE DEF prices
  <2> QED BY <1>1, <1>2, <1>3, <1>7, <1>9, <2>1 DEF BarIs
<1>11. \A i \in DOMAIN q : q[i].price \in BarOf(q, b).low .. BarOf(q, b).high
  <2>1. \A i \in DOMAIN q : q[i].price \in prices
    OBVIOUS
  <2>2. BarOf(q, b).low = Min(prices) /\ BarOf(q, b).high = Max(prices)
    BY <1>9
  <2> HIDE DEF prices
  <2>3. Min(prices) \in Int /\ Max(prices) \in Int
    BY <1>4, <1>6
  <2>4. ASSUME NEW i \in DOMAIN q PROVE q[i].price \in Min(prices) .. Max(prices)
    <3>1. q[i].price \in Int
      BY <1>4, <2>1
    <3> QED BY <1>6, <2>1, <2>3, <3>1
  <2> QED BY <2>2, <2>4
<1>12. \E i, j \in DOMAIN q : BarOf(q, b).low = q[i].price /\ BarOf(q, b).high = q[j].price
  <2>1. PICK lo \in prices, hi \in prices : lo = Min(prices) /\ hi = Max(prices)
    <3> HIDE DEF prices
    <3> QED BY <1>6
  <2>2. BarOf(q, b).low = lo /\ BarOf(q, b).high = hi
    BY <1>9, <2>1
  <2> QED BY <2>2
<1> HIDE DEF prices
<1> QED BY <1>10, <1>11, <1>12 DEF Spans

----------------------------------------------------------------------------
(* The ticks of a set, in order of time.                                   *)
LEMMA OnlySorted ==
  ASSUME NEW T, NEW c \in Seq(T), NEW V, Sorted(c)
  PROVE  Sorted(Only(c, V))
<1>1. PICK p : p = Only(c, V)
  OBVIOUS
<1>2. \A j, k \in DOMAIN p : j < k =>
         \E i, l \in DOMAIN c : i < l /\ p[j] = c[i] /\ p[k] = c[l]
  BY <1>1, OnlyMembers
<1>3. Sorted(p)
  BY <1>2 DEF Sorted
<1> QED BY <1>1, <1>3

(* What aggregate looks at: the ticks of the session, in order of time.    *)
InSessionOf(T) == {t \in T : Counted(t)}

LEMMA InHoursIs ==
  ASSUME NEW T, NEW c \in Seq(T)
  PROVE  InHours(c) = Only(c, InSessionOf(T))
<1>1. {i \in DOMAIN c : Counted(c[i])} = {i \in DOMAIN c : c[i] \in InSessionOf(T)}
  <2>1. \A i \in DOMAIN c : c[i] \in T
    OBVIOUS
  <2> QED BY <2>1 DEF InSessionOf
<1> QED BY <1>1 DEF InHours, Only

(* aggregate returns the bars of the ticks of the session, for any list of *)
(* ticks: one bar for each bucket that has one, in order, of all of them.  *)
THEOREM AggregateIs ==
  ASSUME NEW T, Timed(T), NEW ticks \in Seq(T)
  PROVE  /\ Aggregate(ticks) \in Seq(BarFrom(T))
         /\ AreBars(T, Only(Ordered(ticks), InSessionOf(T)), Aggregate(ticks))
<1>1. Ordered(ticks) \in Seq(T) /\ Sorted(Ordered(ticks))
  BY OrderedOrders
<1>2. PICK c : c = Only(Ordered(ticks), InSessionOf(T))
  OBVIOUS
<1>3. InHours(Ordered(ticks)) = c
  BY <1>1, <1>2, InHoursIs
<1>4. c \in Seq(T) /\ Sorted(c)
  <2>1. c \in Seq(T \cap InSessionOf(T))
    BY <1>1, <1>2, OnlyType
  <2> QED BY <1>1, <1>2, <2>1, OnlySorted
<1>5. RollGathers(T, c)
  BY <1>4, RollGathersAll
<1>6. Closed(Roll(c)) \in Seq(BarFrom(T)) /\ AreBars(T, c, Closed(Roll(c)))
  BY <1>4, <1>5, ClosedBars
<1> QED BY <1>2, <1>3, <1>6 DEF Aggregate

----------------------------------------------------------------------------
(* There is one order of time, the first to come deciding between two      *)
(* simultaneous ticks.                                                     *)
ComesFirst(ticks, i, j) ==
  ticks[i].at < ticks[j].at \/ (ticks[i].at = ticks[j].at /\ i < j)

LEMMA OrderingsAgree ==
  ASSUME NEW T, Timed(T), NEW ticks \in Seq(T), NEW p, IsOrdering(p, ticks),
         NEW r, IsOrdering(r, ticks)
  PROVE  \A k \in DOMAIN ticks : p[k] = r[k]
<1>1. PICK N \in Nat : N = Len(ticks) /\ DOMAIN ticks = 1 .. N
  OBVIOUS
<1>2. \A i \in 1 .. N : ticks[i].at \in Nat
  BY <1>1 DEF Timed
<1>3. /\ \A k \in 1 .. N : p[k] \in 1 .. N /\ r[k] \in 1 .. N
      /\ \A i \in 1 .. N : (\E k \in 1 .. N : p[k] = i) /\ (\E k \in 1 .. N : r[k] = i)
      /\ \A k, l \in 1 .. N : k < l =>
           ComesFirst(ticks, p[k], p[l]) /\ ComesFirst(ticks, r[k], r[l])
  BY <1>1 DEF IsOrdering, ComesFirst
<1>4. \A i, j \in 1 .. N : ~(ComesFirst(ticks, i, j) /\ ComesFirst(ticks, j, i))
  BY <1>2 DEF ComesFirst
<1> DEFINE S == {n \in 0 .. N : \A k \in 1 .. n : p[k] = r[k]}
<1>5. 0 \in S
  OBVIOUS
<1>6. ASSUME NEW n \in 0 .. N - 1, n \in S PROVE n + 1 \in S
  <2>1. n + 1 \in 1 .. N /\ \A k \in 1 .. n : p[k] = r[k] /\ k \in 1 .. N
    BY <1>6
  <2>2. ASSUME p[n + 1] # r[n + 1] PROVE FALSE
    <3>1. PICK l \in 1 .. N : r[l] = p[n + 1]
      BY <1>3, <2>1
    <3>2. PICK m \in 1 .. N : p[m] = r[n + 1]
      BY <1>3, <2>1
    <3>3. l > n + 1
      <4>1. ASSUME l \in 1 .. n PROVE FALSE
        <5>1. p[l] = p[n + 1] /\ l < n + 1
          BY <2>1, <3>1, <4>1
        <5>2. ComesFirst(ticks, p[l], p[n + 1])
          BY <1>3, <2>1, <5>1
        <5> QED BY <1>3, <1>4, <2>1, <5>1, <5>2
      <4>2. l # n + 1
        BY <2>2, <3>1
      <4> QED BY <4>1, <4>2
    <3>4. m > n + 1
      <4>1. ASSUME m \in 1 .. n PROVE FALSE
        <5>1. r[m] = r[n + 1] /\ m < n + 1
          BY <2>1, <3>2, <4>1
        <5>2. ComesFirst(ticks, r[m], r[n + 1])
          BY <1>3, <2>1, <5>1
        <5> QED BY <1>3, <1>4, <2>1, <5>1, <5>2
      <4>2. m # n + 1
        BY <2>2, <3>2
      <4> QED BY <4>1, <4>2
    <3>5. ComesFirst(ticks, r[n + 1], r[l]) /\ ComesFirst(ticks, p[n + 1], p[m])
      BY <1>3, <2>1, <3>3, <3>4
    <3> QED BY <1>3, <1>4, <2>1, <3>1, <3>2, <3>5
  <2> QED BY <1>6, <2>1, <2>2
<1>7. \A n \in 0 .. N : n \in S
  <2>1. S \in SUBSET (0 .. N)
    OBVIOUS
  <2> HIDE DEF S
  <2> QED BY <1>5, <1>6, <2>1, LoopInduction
<1>8. N \in S
  <2> HIDE DEF S
  <2> QED BY <1>7
<1> QED BY <1>1, <1>8

(* Two lists, the second of which is later than the first.                 *)
LEMMA OrderedConcat ==
  ASSUME NEW T, Timed(T), NEW a \in Seq(T), NEW b \in Seq(T),
         \A i \in DOMAIN a, j \in DOMAIN b : a[i].at <= b[j].at
  PROVE  Ordered(a \o b) = Ordered(a) \o Ordered(b)
<1>1. PICK M \in Nat, K \in Nat : M = Len(a) /\ K = Len(b) /\ DOMAIN a = 1 .. M /\ DOMAIN b = 1 .. K
  OBVIOUS
<1>2. PICK c \in Seq(T) : c = a \o b
  <2>1. a \o b \in Seq(T)
    OBVIOUS
  <2> QED BY <2>1
<1>3. Len(c) = M + K /\ DOMAIN c = 1 .. M + K /\ \A i \in 1 .. M + K : c[i] = IF i <= M THEN a[i] ELSE b[i - M]
  BY <1>1, <1>2
<1>4. PICK p : IsOrdering(p, a) /\ Ordered(a) = [k \in DOMAIN a |-> a[p[k]]]
  BY OrderedOrders
<1>5. PICK q : IsOrdering(q, b) /\ Ordered(b) = [k \in DOMAIN b |-> b[q[k]]]
  BY OrderedOrders
<1>6. PICK r : IsOrdering(r, c) /\ Ordered(c) = [k \in DOMAIN c |-> c[r[k]]]
  BY OrderedOrders
<1> DEFINE s == [k \in 1 .. M + K |-> IF k <= M THEN p[k] ELSE M + q[k - M]]
<1>7. /\ \A k \in 1 .. M : p[k] \in 1 .. M
      /\ \A i \in 1 .. M : \E k \in 1 .. M : p[k] = i
      /\ \A k, l \in 1 .. M : k < l => ComesFirst(a, p[k], p[l])
  BY <1>1, <1>4 DEF IsOrdering, ComesFirst
<1>8. /\ \A k \in 1 .. K : q[k] \in 1 .. K
      /\ \A i \in 1 .. K : \E k \in 1 .. K : q[k] = i
      /\ \A k, l \in 1 .. K : k < l => ComesFirst(b, q[k], q[l])
  BY <1>1, <1>5 DEF IsOrdering, ComesFirst
<1>9. /\ \A i \in 1 .. M : a[i].at \in Nat /\ c[i] = a[i] /\ i \in 1 .. M + K
      /\ \A i \in 1 .. K : b[i].at \in Nat /\ c[M + i] = b[i] /\ M + i \in 1 .. M + K
  <2>1. \A i \in 1 .. M : a[i].at \in Nat
    BY <1>1 DEF Timed
  <2>2. \A i \in 1 .. K : b[i].at \in Nat
    BY <1>1 DEF Timed
  <2>3. \A i \in 1 .. K : M + i \in 1 .. M + K /\ ~ (M + i <= M) /\ (M + i) - M = i
    OBVIOUS
  <2> QED BY <1>3, <2>1, <2>2, <2>3
<1>10. /\ \A k \in 1 .. M : s[k] = p[k]
       /\ \A k \in 1 .. K : s[M + k] = M + q[k]
       /\ \A k \in 1 .. M + K : k \in 1 .. M \/ \E l \in 1 .. K : k = M + l
  <2>1. \A k \in 1 .. M : k \in 1 .. M + K /\ k <= M
    OBVIOUS
  <2>2. \A k \in 1 .. K : M + k \in 1 .. M + K /\ ~ (M + k <= M) /\ (M + k) - M = k
    OBVIOUS
  <2>3. ASSUME NEW k \in 1 .. M + K PROVE k \in 1 .. M \/ \E l \in 1 .. K : k = M + l
    <3>1. k \notin 1 .. M => k - M \in 1 .. K /\ k = M + (k - M)
      OBVIOUS
    <3> QED BY <3>1
  <2> QED BY <2>1, <2>2, <2>3
<1>11. IsOrdering(s, c)
  <2>1. s \in [1 .. M + K -> 1 .. M + K]
    <3>1. ASSUME NEW k \in 1 .. M + K PROVE s[k] \in 1 .. M + K
      <4> HIDE DEF s
      <4>1. CASE k \in 1 .. M
        BY <1>7, <1>9, <1>10, <4>1
      <4>2. ASSUME NEW l \in 1 .. K, k = M + l PROVE s[k] \in 1 .. M + K
        <5>1. PICK v \in 1 .. K : v = q[l] /\ s[M + l] = M + v
          BY <1>8, <1>10
        <5> QED BY <4>2, <5>1
      <4> QED BY <1>10, <4>1, <4>2
    <3> QED BY <3>1
  <2> HIDE DEF s
  <2>2. ASSUME NEW i \in 1 .. M + K PROVE \E k \in 1 .. M + K : s[k] = i
    <3>1. CASE i \in 1 .. M
      <4>1. PICK k \in 1 .. M : p[k] = i
        BY <1>7, <3>1
      <4> QED BY <1>9, <1>10, <4>1
    <3>2. ASSUME NEW j \in 1 .. K, i = M + j PROVE \E k \in 1 .. M + K : s[k] = i
      <4>1. PICK k \in 1 .. K : q[k] = j
        BY <1>8
      <4>2. s[M + k] = i /\ M + k \in 1 .. M + K
        BY <1>9, <1>10, <3>2, <4>1
      <4> QED BY <4>2
    <3> QED BY <1>10, <3>1, <3>2
  <2>3. ASSUME NEW k \in 1 .. M + K, NEW l \in 1 .. M + K, k < l
        PROVE  ComesFirst(c, s[k], s[l])
    <3>1. CASE k \in 1 .. M /\ l \in 1 .. M
      <4>1. ComesFirst(a, p[k], p[l]) /\ p[k] \in 1 .. M /\ p[l] \in 1 .. M
        BY <1>7, <2>3, <3>1
      <4>2. c[p[k]] = a[p[k]] /\ c[p[l]] = a[p[l]] /\ s[k] = p[k] /\ s[l] = p[l]
        BY <1>9, <1>10, <3>1, <4>1
      <4> QED BY <4>1, <4>2 DEF ComesFirst
    <3>2. ASSUME NEW j \in 1 .. K, l = M + j, k \in 1 .. M PROVE ComesFirst(c, s[k], s[l])
      <4> DEFINE u == p[k]
                 v == q[j]
      <4>1. /\ u \in Nat /\ u \in 1 .. M /\ s[k] = u
            /\ v \in Nat /\ v \in 1 .. K /\ s[l] = M + v
        <5>1. p[k] \in 1 .. M /\ s[k] = p[k]
          BY <1>7, <1>10, <3>2
        <5>2. q[j] \in 1 .. K /\ s[l] = M + q[j]
          BY <1>8, <1>10, <3>2
        <5> QED BY <5>1, <5>2
      <4> HIDE DEF u, v
      <4>2. c[u] = a[u] /\ c[M + v] = b[v] /\ a[u].at \in Nat /\ b[v].at \in Nat /\ a[u].at <= b[v].at
        BY <1>1, <1>9, <4>1
      <4>3. u < M + v
        BY <4>1
      <4>4. ComesFirst(c, u, M + v)
        <5>1. PICK x \in Nat, y \in Nat : x = c[u].at /\ y = c[M + v].at /\ x <= y
          BY <4>2
        <5>2. x < y \/ x = y
          BY <5>1
        <5> QED BY <4>3, <5>1, <5>2 DEF ComesFirst
      <4> QED BY <4>1, <4>4
    <3>3. ASSUME NEW i \in 1 .. K, k = M + i, NEW j \in 1 .. K, l = M + j
          PROVE  ComesFirst(c, s[k], s[l])
      <4>1. i < j
        BY <2>3, <3>3
      <4>2. PICK u \in 1 .. K, v \in 1 .. K :
              u = q[i] /\ v = q[j] /\ s[k] = M + u /\ s[l] = M + v
        <5>1. q[i] \in 1 .. K /\ s[k] = M + q[i]
          BY <1>8, <1>10, <3>3
        <5>2. q[j] \in 1 .. K /\ s[l] = M + q[j]
          BY <1>8, <1>10, <3>3
        <5> QED BY <5>1, <5>2
      <4>3. ComesFirst(b, u, v) /\ c[M + u] = b[u] /\ c[M + v] = b[v]
        BY <1>8, <1>9, <4>1, <4>2
      <4>4. ComesFirst(c, M + u, M + v)
        BY <4>3 DEF ComesFirst
      <4> QED BY <4>2, <4>4
    <3>4. CASE k \notin 1 .. M
      <4>1. l \notin 1 .. M
        BY <2>3, <3>4
      <4> QED BY <1>10, <3>3, <3>4, <4>1
    <3> QED BY <1>10, <3>1, <3>2, <3>4
  <2> QED BY <1>3, <2>1, <2>2, <2>3 DEF IsOrdering, ComesFirst
<1> HIDE DEF s
<1>12. \A k \in 1 .. M + K : r[k] = s[k]
  <2>1. \A k \in DOMAIN c : r[k] = s[k]
    BY <1>6, <1>11, OrderingsAgree
  <2> QED BY <1>3, <2>1
<1>13. Ordered(a) \in Seq(T) /\ Len(Ordered(a)) = M /\ Ordered(b) \in Seq(T) /\ Len(Ordered(b)) = K
  BY <1>1, <1>4, <1>5, OrderedOrders
<1>14. PICK x \in Seq(T), y \in Seq(T) : x = Ordered(a) /\ y = Ordered(b)
  BY <1>13
<1>15. x \o y = [k \in 1 .. M + K |-> IF k <= M THEN x[k] ELSE y[k - M]]
  <2>1. Len(x) = M /\ Len(y) = K
    BY <1>13, <1>14
  <2>2. x \o y = [j \in 1 .. Len(x) + Len(y) |-> IF j <= Len(x) THEN x[j] ELSE y[j - Len(x)]]
    BY ConcatIs
  <2> QED BY <2>1, <2>2
<1>16. ASSUME NEW k \in 1 .. M + K PROVE c[r[k]] = IF k <= M THEN x[k] ELSE y[k - M]
  <2>1. CASE k \in 1 .. M
    <3>1. p[k] \in 1 .. M /\ r[k] = p[k]
      BY <1>7, <1>10, <1>12, <2>1
    <3>2. x[k] = a[p[k]]
      BY <1>1, <1>4, <1>14, <2>1
    <3> QED BY <1>9, <2>1, <3>1, <3>2
  <2>2. ASSUME NEW l \in 1 .. K, k = M + l PROVE c[r[k]] = IF k <= M THEN x[k] ELSE y[k - M]
    <3>1. q[l] \in 1 .. K /\ r[k] = M + q[l]
      BY <1>8, <1>10, <1>12, <2>2
    <3>2. y[l] = b[q[l]] /\ ~ (k <= M) /\ k - M = l
      BY <1>1, <1>5, <1>14, <2>2
    <3>3. c[M + q[l]] = b[q[l]]
      BY <1>9, <3>1
    <3> QED BY <3>1, <3>2, <3>3
  <2> QED BY <1>10, <2>1, <2>2
<1> QED BY <1>2, <1>3, <1>6, <1>14, <1>15, <1>16

(* g says where in the list the ticks of q are from: they are those in V,  *)
(* all of them, in order of time.                                          *)
Gathers(g, q, ticks, V) ==
  /\ g \in [DOMAIN q -> {i \in DOMAIN ticks : ticks[i] \in V}]
  /\ \A i \in DOMAIN ticks : ticks[i] \in V => \E j \in DOMAIN q : g[j] = i
  /\ \A j \in DOMAIN q : q[j] = ticks[g[j]]
  /\ \A j, k \in DOMAIN q : j < k => ComesFirst(ticks, g[j], g[k])

LEMMA OnlyGathers ==
  ASSUME NEW T, Timed(T), NEW ticks \in Seq(T), NEW V
  PROVE  \E g : Gathers(g, Only(Ordered(ticks), V), ticks, V)
<1>1. PICK N \in Nat : DOMAIN ticks = 1 .. N
  OBVIOUS
<1>2. PICK s, p :
        s \in Seq(T) /\ s = Ordered(ticks) /\ IsOrdering(p, ticks) /\ s = [k \in DOMAIN ticks |-> ticks[p[k]]]
  BY OrderedOrders
<1>3. PICK q : q = Only(s, V)
  OBVIOUS
<1> DEFINE S == {i \in DOMAIN s : s[i] \in V}
<1>4. PICK e : InOrder(e, q, s, S)
  <2>1. \E e : InOrder(e, Picked(s, S), s, S)
    <3>1. s \in Seq(T)
      BY <1>2
    <3> HIDE DEF S
    <3> QED BY <3>1, PickedInOrder
  <2> QED BY <1>3, <2>1 DEF Only
<1>5. /\ \A k \in 1 .. N : p[k] \in 1 .. N /\ s[k] = ticks[p[k]]
      /\ \A i \in 1 .. N : \E k \in 1 .. N : p[k] = i
      /\ \A k, l \in 1 .. N : k < l => ComesFirst(ticks, p[k], p[l])
      /\ DOMAIN s = 1 .. N
  BY <1>1, <1>2 DEF IsOrdering, ComesFirst
<1>6. /\ \A j \in DOMAIN q : e[j] \in 1 .. N /\ s[e[j]] \in V /\ q[j] = s[e[j]]
      /\ \A j, k \in DOMAIN q : j < k => e[j] < e[k]
      /\ \A k \in 1 .. N : s[k] \in V => \E j \in DOMAIN q : e[j] = k
  BY <1>4, <1>5 DEF InOrder
<1> DEFINE g == [j \in DOMAIN q |-> p[e[j]]]
<1>7. \A j \in DOMAIN q : g[j] \in DOMAIN ticks /\ ticks[g[j]] \in V /\ q[j] = ticks[g[j]]
  BY <1>1, <1>5, <1>6
<1>8. g \in [DOMAIN q -> {i \in DOMAIN ticks : ticks[i] \in V}]
  BY <1>7
<1>9. ASSUME NEW i \in DOMAIN ticks, ticks[i] \in V PROVE \E j \in DOMAIN q : g[j] = i
  <2>1. PICK k \in 1 .. N : p[k] = i
    BY <1>1, <1>5
  <2>2. PICK j \in DOMAIN q : e[j] = k
    BY <1>5, <1>6, <1>9, <2>1
  <2> QED BY <2>1, <2>2
<1>10. ASSUME NEW j \in DOMAIN q, NEW k \in DOMAIN q, j < k PROVE ComesFirst(ticks, g[j], g[k])
  BY <1>5, <1>6, <1>10
<1> HIDE DEF g
<1>11. Gathers(g, q, ticks, V)
  BY <1>7, <1>8, <1>9, <1>10 DEF Gathers
<1> QED BY <1>2, <1>3, <1>11

(* A bar's volume is 0, or the rise between two readings of its counter.   *)
LEMMA VolumeRises ==
  ASSUME NEW T, \A t \in T : t.volume = NoVolume \/ t.volume \in Nat, NEW q \in Seq(T)
  PROVE  \/ VolumeFor(q) = 0
         \/ /\ VolumeFor(q) > 0
            /\ \E j, k \in DOMAIN q : /\ j <= k
                                      /\ q[j].volume # NoVolume /\ q[k].volume # NoVolume
                                      /\ VolumeFor(q) = q[k].volume - q[j].volume
<1> DEFINE known == {k \in DOMAIN q : q[k].volume # NoVolume}
<1>1. PICK N \in Nat : DOMAIN q = 1 .. N
  OBVIOUS
<1>2. IsFiniteSet(known) /\ known \in SUBSET Int
  BY <1>1, PositionsFinite
<1>3. CASE Cardinality(known) < 2
  BY <1>3 DEF VolumeFor
<1>4. CASE ~(Cardinality(known) < 2)
  <2>1. known # {}
    <3>1. Cardinality({}) < 2
      BY FS_EmptySet
    <3> HIDE DEF known
    <3>2. ASSUME known = {} PROVE FALSE
      <4>1. Cardinality(known) = Cardinality({})
        BY <3>2
      <4> QED BY <1>4, <3>1, <4>1
    <3> QED BY <3>2
  <2>2. PICK hi \in known, lo \in known : hi = Max(known) /\ lo = Min(known) /\ lo <= hi
    <3> HIDE DEF known
    <3> QED BY <1>2, <2>1, FiniteExtremes
  <2>3. \A k \in known : q[k].volume \in Nat
    <3>1. \A k \in DOMAIN q : q[k] \in T
      OBVIOUS
    <3> QED BY <3>1
  <2>4. PICK d \in Int : d = q[hi].volume - q[lo].volume
    <3> HIDE DEF known
    <3> QED BY <2>2, <2>3
  <2>5. VolumeFor(q) = Max({0, d})
    BY <1>4, <2>2, <2>4 DEF VolumeFor
  <2>6. VolumeFor(q) = IF 0 <= d THEN d ELSE 0
    BY <2>5, MaxOfTwo
  <2>7. hi \in DOMAIN q /\ lo \in DOMAIN q /\ q[hi].volume # NoVolume /\ q[lo].volume # NoVolume
    OBVIOUS
  <2> HIDE DEF known
  <2> QED BY <2>2, <2>4, <2>6, <2>7
<1> QED BY <1>3, <1>4
=============================================================================
