----------------------------- MODULE SumsProofs -----------------------------
(***************************************************************************)
(* What the loops of Sums compute, by induction over the position they     *)
(* have reached.  Induction is stated for sets of numbers, and recursion   *)
(* for functions.                                                          *)
(***************************************************************************)
EXTENDS Sums, SequencesExt, WellFoundedInduction, FiniteSetTheorems, SequenceTheorems, TLAPS

(* A set of numbers that has 0, and with each number the next, has all.    *)
LEMMA NatInductionSet ==
  ASSUME NEW S \in SUBSET Nat, 0 \in S, \A n \in S : n + 1 \in S
  PROVE  \A n \in Nat : n \in S
<1> DEFINE T == Nat \ S
<1>1. ASSUME T # {} PROVE FALSE
  <2>1. IsWellFoundedOn(OpToRel(<, Nat), Nat)
    BY NatLessThanWellFounded
  <2> HIDE DEF T
  <2>2. T \subseteq Nat
    BY DEF T
  <2>3. PICK x \in T : \A y \in T : ~ (<<y, x>> \in OpToRel(<, Nat))
    BY <1>1, <2>1, <2>2, WFMin
  <2>4. x \in Nat /\ x # 0 /\ x - 1 \in Nat
    BY <2>2 DEF T
  <2>5. <<x - 1, x>> \in OpToRel(<, Nat)
    BY <2>4 DEF OpToRel
  <2>6. x - 1 \in S
    BY <2>3, <2>4, <2>5 DEF T
  <2>7. x \in S
    BY <2>4, <2>6
  <2> QED BY <2>7 DEF T
<1> QED BY <1>1

(* The same up to a bound: what a loop of N steps carries through.         *)
LEMMA LoopInduction ==
  ASSUME NEW N \in Nat, NEW S \in SUBSET (0 .. N), 0 \in S,
         \A n \in 0 .. N - 1 : n \in S => n + 1 \in S
  PROVE  \A n \in 0 .. N : n \in S
<1> DEFINE T == {n \in Nat : n <= N => n \in S}
<1>1. T \in SUBSET Nat /\ 0 \in T /\ \A n \in T : n + 1 \in T
  OBVIOUS
<1>2. \A n \in Nat : n \in T
  <2> HIDE DEF T
  <2> QED BY <1>1, NatInductionSet
<1> QED BY <1>2

(* A loop of N steps that starts with a and of which F is the body.        *)
IsLoop(g, N, A, a, F) ==
  /\ g \in [0 .. N -> A] /\ g[0] = a
  /\ \A n \in 1 .. N : g[n] = F[<<g[n - 1], n>>]

LEMMA LoopExists ==
  ASSUME NEW N \in Nat, NEW A, NEW a \in A, NEW F \in [A \X (1 .. N) -> A]
  PROVE  \E g : IsLoop(g, N, A, a, F)
<1> DEFINE S == {k \in 0 .. N : \E g : IsLoop(g, k, A, a, F)}
<1>1. 0 \in S
  <2>1. IsLoop([n \in 0 .. 0 |-> a], 0, A, a, F)
    BY DEF IsLoop
  <2> QED BY <2>1
<1>2. ASSUME NEW n \in 0 .. N - 1, n \in S PROVE n + 1 \in S
  <2>1. PICK g : IsLoop(g, n, A, a, F)
    BY <1>2
  <2> DEFINE h == [k \in 0 .. n + 1 |-> IF k <= n THEN g[k] ELSE F[<<g[n], n + 1>>]]
  <2>2. g[n] \in A /\ n + 1 \in 1 .. N
    BY <2>1 DEF IsLoop
  <2>3. h \in [0 .. n + 1 -> A]
    BY <2>1, <2>2 DEF IsLoop
  <2>4. h[0] = a
    BY <2>1 DEF IsLoop
  <2>5. ASSUME NEW k \in 1 .. n + 1 PROVE h[k] = F[<<h[k - 1], k>>]
    <3>1. CASE k <= n
      BY <2>1, <3>1 DEF IsLoop
    <3>2. CASE k = n + 1
      BY <3>2
    <3> QED BY <3>1, <3>2
  <2>6. IsLoop(h, n + 1, A, a, F)
    <3> HIDE DEF h
    <3> QED BY <2>3, <2>4, <2>5 DEF IsLoop
  <2> QED BY <2>6
<1>3. N \in S
  <2> HIDE DEF S
  <2>1. S \in SUBSET (0 .. N)
    BY DEF S
  <2> QED BY <1>1, <1>2, <2>1, LoopInduction
<1> QED BY <1>3

----------------------------------------------------------------------------
(* SumOf is the last value of a function that adds the numbers up one by   *)
(* one, and every such function has it.                                    *)
AddsUp(g, nums) ==
  /\ g \in [0 .. Len(nums) -> Int] /\ g[0] = 0
  /\ \A n \in 1 .. Len(nums) : g[n] = g[n - 1] + nums[n]

LEMMA AddsUpExists ==
  ASSUME NEW nums \in Seq(Int)
  PROVE  \E g : AddsUp(g, nums)
<1> DEFINE N == Len(nums)
           F == [x \in Int \X (1 .. N) |-> x[1] + nums[x[2]]]
<1>1. N \in Nat /\ 0 \in Int /\ F \in [Int \X (1 .. N) -> Int]
  OBVIOUS
<1>2. \E g : IsLoop(g, N, Int, 0, F)
  <2> HIDE DEF F, N
  <2> QED BY <1>1, LoopExists
<1>3. PICK g : IsLoop(g, N, Int, 0, F)
  BY <1>2
<1>4. ASSUME NEW n \in 1 .. N PROVE g[n] = g[n - 1] + nums[n]
  BY <1>3, SMTT(30) DEF IsLoop
<1> QED BY <1>3, <1>4 DEF IsLoop, AddsUp

LEMMA SumOfAddsUp ==
  ASSUME NEW nums \in Seq(Int), NEW g, AddsUp(g, nums)
  PROVE  SumOf(nums) = g[Len(nums)]
<1> DEFINE Body(f) == [n \in 0 .. Len(nums) |-> IF n = 0 THEN 0 ELSE f[n - 1] + nums[n]]
           upto == CHOOSE f : f = Body(f)
<1>1. g = Body(g)
  BY DEF AddsUp
<1>2. upto = Body(upto)
  <2> HIDE DEF Body
  <2> QED BY <1>1
<1>3. ASSUME NEW n \in 0 .. Len(nums) PROVE upto[n] = IF n = 0 THEN 0 ELSE upto[n - 1] + nums[n]
  <2> HIDE DEF upto
  <2> QED BY <1>2
<1> HIDE DEF upto
<1> DEFINE S == {n \in 0 .. Len(nums) : upto[n] = g[n]}
<1>4. 0 \in S
  BY <1>3 DEF AddsUp
<1>5. ASSUME NEW n \in 0 .. Len(nums) - 1, n \in S PROVE n + 1 \in S
  BY <1>3, <1>5 DEF AddsUp
<1>6. Len(nums) \in Nat /\ S \in SUBSET (0 .. Len(nums))
  OBVIOUS
<1>7. \A n \in 0 .. Len(nums) : n \in S
  <2> HIDE DEF S
  <2> QED BY <1>4, <1>5, <1>6, LoopInduction
<1>8. SumOf(nums) = upto[Len(nums)]
  BY DEF SumOf, upto
<1> QED BY <1>7, <1>8

LEMMA SumOfFacts ==
  ASSUME NEW nums \in Seq(Int)
  PROVE  \E g : AddsUp(g, nums) /\ SumOf(nums) = g[Len(nums)] /\ SumOf(nums) \in Int
<1>1. PICK g : AddsUp(g, nums)
  BY AddsUpExists
<1>2. g[Len(nums)] \in Int
  BY <1>1 DEF AddsUp
<1> QED BY <1>1, <1>2, SumOfAddsUp

LEMMA SumOfEmpty == SumOf(<<>>) = 0
<1>1. <<>> \in Seq(Int) /\ Len(<<>>) = 0
  OBVIOUS
<1>2. PICK g : AddsUp(g, <<>>) /\ SumOf(<<>>) = g[Len(<<>>)]
  BY <1>1, SumOfFacts
<1> QED BY <1>1, <1>2 DEF AddsUp

LEMMA SumOfAppend ==
  ASSUME NEW nums \in Seq(Int), NEW x \in Int
  PROVE  SumOf(Append(nums, x)) = SumOf(nums) + x
<1>1. PICK g : AddsUp(g, nums) /\ SumOf(nums) = g[Len(nums)]
  BY SumOfFacts
<1> DEFINE more == Append(nums, x)
           h == [n \in 0 .. Len(more) |-> IF n = Len(more) THEN g[Len(nums)] + x ELSE g[n]]
<1>2. more \in Seq(Int) /\ Len(more) = Len(nums) + 1
  OBVIOUS
<1>3. AddsUp(h, more)
  BY <1>1, <1>2, SMTT(30) DEF AddsUp
<1>4. SumOf(more) = h[Len(more)]
  <2> HIDE DEF h, more
  <2> QED BY <1>2, <1>3, SumOfAddsUp
<1> QED BY <1>1, <1>2, <1>4

(* The sum of the first numbers is what the loop has when it reaches them. *)
LEMMA SumOfPrefix ==
  ASSUME NEW nums \in Seq(Int), NEW g, AddsUp(g, nums), NEW k \in 0 .. Len(nums)
  PROVE  SumOf([i \in 1 .. k |-> nums[i]]) = g[k]
<1> DEFINE first == [i \in 1 .. k |-> nums[i]]
           h == [n \in 0 .. k |-> g[n]]
<1>1. first \in Seq(Int) /\ Len(first) = k
  OBVIOUS
<1>2. AddsUp(h, first)
  <2>1. k \in Nat /\ h \in [0 .. k -> Int] /\ h[0] = 0
    BY DEF AddsUp
  <2>2. ASSUME NEW n \in 1 .. k PROVE h[n] = h[n - 1] + first[n]
    BY DEF AddsUp
  <2> QED BY <1>1, <2>1, <2>2 DEF AddsUp
<1>3. SumOf(first) = h[Len(first)]
  <2> HIDE DEF h, first
  <2> QED BY <1>1, <1>2, SumOfAddsUp
<1> QED BY <1>1, <1>3

(* The sum of two lists term by term.                                      *)
LEMMA SumOfPlus ==
  ASSUME NEW N \in Nat, NEW a \in [1 .. N -> Int], NEW b \in [1 .. N -> Int]
  PROVE  SumOf([i \in 1 .. N |-> a[i] + b[i]]) = SumOf(a) + SumOf(b)
<1>1. a \in Seq(Int) /\ b \in Seq(Int) /\ Len(a) = N /\ Len(b) = N
  OBVIOUS
<1>2. PICK g : AddsUp(g, a) /\ SumOf(a) = g[Len(a)]
  BY <1>1, SumOfFacts
<1>3. PICK h : AddsUp(h, b) /\ SumOf(b) = h[Len(b)]
  BY <1>1, SumOfFacts
<1> DEFINE c == [i \in 1 .. N |-> a[i] + b[i]]
           f == [n \in 0 .. N |-> g[n] + h[n]]
<1>4. c \in Seq(Int) /\ Len(c) = N
  OBVIOUS
<1>5. AddsUp(f, c)
  BY <1>1, <1>2, <1>3, <1>4, SMTT(30) DEF AddsUp
<1>6. SumOf(c) = f[Len(c)]
  <2> HIDE DEF f, c
  <2> QED BY <1>4, <1>5, SumOfAddsUp
<1> QED BY <1>1, <1>2, <1>3, <1>4, <1>6

(* The sum of a multiple.                                                  *)
LEMMA SumOfTimes ==
  ASSUME NEW N \in Nat, NEW a \in [1 .. N -> Int], NEW c \in Int
  PROVE  SumOf([i \in 1 .. N |-> c * a[i]]) = c * SumOf(a)
<1>1. a \in Seq(Int) /\ Len(a) = N
  OBVIOUS
<1>2. PICK g : AddsUp(g, a) /\ SumOf(a) = g[Len(a)]
  BY <1>1, SumOfFacts
<1> DEFINE b == [i \in 1 .. N |-> c * a[i]]
           f == [n \in 0 .. N |-> c * g[n]]
<1>3. b \in Seq(Int) /\ Len(b) = N
  OBVIOUS
<1>4. AddsUp(f, b)
  <2>1. f \in [0 .. N -> Int] /\ f[0] = 0
    BY <1>1, <1>2 DEF AddsUp
  <2>2. ASSUME NEW n \in 1 .. N PROVE f[n] = f[n - 1] + b[n]
    <3>1. g[n] = g[n - 1] + a[n] /\ g[n - 1] \in Int /\ a[n] \in Int
      BY <1>1, <1>2 DEF AddsUp
    <3>2. c * (g[n - 1] + a[n]) = c * g[n - 1] + c * a[n]
      BY <3>1
    <3> QED BY <3>1, <3>2
  <2> QED BY <1>3, <2>1, <2>2 DEF AddsUp
<1>5. SumOf(b) = f[Len(b)]
  <2> HIDE DEF f, b
  <2> QED BY <1>3, <1>4, SumOfAddsUp
<1> QED BY <1>1, <1>2, <1>3, <1>5

LEMMA SumOfMinus ==
  ASSUME NEW N \in Nat, NEW a \in [1 .. N -> Int], NEW b \in [1 .. N -> Int]
  PROVE  SumOf([i \in 1 .. N |-> a[i] - b[i]]) = SumOf(a) - SumOf(b)
<1> DEFINE c == [i \in 1 .. N |-> (-1) * b[i]]
<1>1. c \in [1 .. N -> Int] /\ SumOf(c) = (-1) * SumOf(b)
  <2>1. -1 \in Int
    OBVIOUS
  <2>2. SumOf(c) = (-1) * SumOf(b)
    BY <2>1, SumOfTimes
  <2> QED BY <2>2
<1>2. SumOf([i \in 1 .. N |-> a[i] + c[i]]) = SumOf(a) + SumOf(c)
  <2> HIDE DEF c
  <2> QED BY <1>1, SumOfPlus
<1>3. SumOf(a) \in Int /\ SumOf(b) \in Int
  <2>1. a \in Seq(Int) /\ b \in Seq(Int)
    OBVIOUS
  <2> QED BY <2>1, SumOfFacts
<1>4. [i \in 1 .. N |-> a[i] + c[i]] = [i \in 1 .. N |-> a[i] - b[i]]
  OBVIOUS
<1>5. (-1) * SumOf(b) = 0 - SumOf(b)
  BY <1>3
<1> HIDE DEF c
<1> QED BY <1>1, <1>2, <1>3, <1>4, <1>5

(* One term that changes changes the sum by as much.                       *)
LEMMA SumOfUpdate ==
  ASSUME NEW N \in Nat, NEW a \in [1 .. N -> Int], NEW k \in 1 .. N, NEW x \in Int
  PROVE  SumOf([a EXCEPT ![k] = x]) = SumOf(a) - a[k] + x
<1>1. a \in Seq(Int) /\ Len(a) = N
  OBVIOUS
<1>2. PICK g : AddsUp(g, a) /\ SumOf(a) = g[Len(a)]
  BY <1>1, SumOfFacts
<1> DEFINE b == [a EXCEPT ![k] = x]
           f == [n \in 0 .. N |-> IF n < k THEN g[n] ELSE g[n] - a[k] + x]
<1>3. b \in Seq(Int) /\ Len(b) = N
  OBVIOUS
<1>4. AddsUp(f, b)
  <2>1. g \in [0 .. N -> Int] /\ g[0] = 0 /\ a[k] \in Int
    BY <1>1, <1>2 DEF AddsUp
  <2>2. f \in [0 .. N -> Int] /\ f[0] = 0
    BY <2>1
  <2>3. ASSUME NEW n \in 1 .. N PROVE f[n] = f[n - 1] + b[n]
    <3>1. /\ g[n] = g[n - 1] + a[n] /\ g[n - 1] \in Int /\ a[n] \in Int
          /\ n \in 0 .. N /\ n - 1 \in 0 .. N
      BY <1>1, <1>2 DEF AddsUp
    <3>2. CASE n < k
      BY <3>1, <3>2
    <3>3. CASE n = k
      BY <2>1, <3>1, <3>3
    <3>4. CASE n > k
      BY <2>1, <3>1, <3>4
    <3> QED BY <3>2, <3>3, <3>4
  <2> QED BY <1>3, <2>2, <2>3 DEF AddsUp
<1>5. SumOf(b) = f[Len(b)]
  <2> HIDE DEF f, b
  <2> QED BY <1>3, <1>4, SumOfAddsUp
<1> QED BY <1>1, <1>2, <1>3, <1>5

(* Sums of numbers that are not negative grow on the way.                  *)
LEMMA AddsUpGrows ==
  ASSUME NEW nums \in Seq(Nat), NEW g, AddsUp(g, nums),
         NEW i \in 0 .. Len(nums), NEW j \in i .. Len(nums)
  PROVE  g[i] <= g[j]
<1> DEFINE S == {n \in 0 .. Len(nums) - i : g[i] <= g[i + n]}
           N == Len(nums) - i
<1>0. Len(nums) \in Nat /\ g \in [0 .. Len(nums) -> Int]
  BY DEF AddsUp
<1>1. 0 \in S
  <2>1. g[i] \in Int /\ i + 0 = i
    BY <1>0
  <2> QED BY <1>0, <2>1
<1>2. ASSUME NEW n \in 0 .. N - 1, n \in S PROVE n + 1 \in S
  <2>1. /\ i + (n + 1) \in 1 .. Len(nums) /\ i + n \in 0 .. Len(nums)
        /\ i + (n + 1) - 1 = i + n
    BY <1>0
  <2>2. g[i + (n + 1)] = g[i + n] + nums[i + (n + 1)]
    BY <2>1 DEF AddsUp
  <2>3. g[i] \in Int /\ g[i + n] \in Int /\ nums[i + (n + 1)] \in Nat
    BY <1>0, <2>1, SMTT(30)
  <2> QED BY <1>0, <1>2, <2>2, <2>3
<1>3. N \in Nat /\ S \in SUBSET (0 .. N)
  OBVIOUS
<1>4. \A n \in 0 .. N : n \in S
  <2> HIDE DEF S, N
  <2> QED BY <1>1, <1>2, <1>3, LoopInduction
<1>5. j - i \in 0 .. N /\ i + (j - i) = j
  OBVIOUS
<1> QED BY <1>4, <1>5

LEMMA SumOfNat ==
  ASSUME NEW nums \in Seq(Nat)
  PROVE  SumOf(nums) \in Nat
<1>1. nums \in Seq(Int) /\ 0 \in 0 .. Len(nums) /\ Len(nums) \in 0 .. Len(nums)
  OBVIOUS
<1>2. PICK g : AddsUp(g, nums) /\ SumOf(nums) = g[Len(nums)] /\ SumOf(nums) \in Int
  BY <1>1, SumOfFacts
<1>3. g[0] <= g[Len(nums)]
  BY <1>1, <1>2, AddsUpGrows
<1> QED BY <1>2, <1>3 DEF AddsUp

LEMMA SumOfConcat ==
  ASSUME NEW a \in Seq(Int), NEW b \in Seq(Int)
  PROVE  SumOf(a \o b) = SumOf(a) + SumOf(b)
<1>1. PICK g : AddsUp(g, a) /\ SumOf(a) = g[Len(a)]
  BY SumOfFacts
<1>2. PICK h : AddsUp(h, b) /\ SumOf(b) = h[Len(b)]
  BY SumOfFacts
<1>3. PICK M \in Nat, K \in Nat : M = Len(a) /\ K = Len(b)
  OBVIOUS
<1>4. g \in [0 .. M -> Int] /\ h \in [0 .. K -> Int] /\ g[0] = 0 /\ h[0] = 0 /\ g[M] \in Int
  BY <1>1, <1>2, <1>3 DEF AddsUp
<1>5. PICK c : c = a \o b
  OBVIOUS
<1>6. /\ c \in Seq(Int) /\ Len(c) = M + K
      /\ \A n \in 1 .. M : c[n] = a[n]
      /\ \A n \in M + 1 .. M + K : c[n] = b[n - M]
  BY <1>3, <1>5
<1> DEFINE f == [n \in 0 .. M + K |-> IF n <= M THEN g[n] ELSE g[M] + h[n - M]]
<1>7. AddsUp(f, c)
  <2>1. f \in [0 .. M + K -> Int]
    <3>1. ASSUME NEW n \in 0 .. M + K PROVE f[n] \in Int
      <4>1. CASE n <= M
        BY <1>4, <4>1
      <4>2. CASE n > M
        <5>1. n - M \in 0 .. K
          BY <4>2
        <5> QED BY <1>4, <4>2, <5>1
      <4> QED BY <4>1, <4>2
    <3> QED BY <3>1
  <2>2. f[0] = 0
    BY <1>4
  <2>3. ASSUME NEW n \in 1 .. M + K PROVE f[n] = f[n - 1] + c[n]
    <3>1. CASE n <= M
      <4>1. g[n] = g[n - 1] + a[n] /\ c[n] = a[n]
        BY <1>1, <1>3, <1>6, <3>1 DEF AddsUp
      <4> QED BY <3>1, <4>1
    <3>2. CASE n > M
      <4>1. PICK k \in 1 .. K : n = M + k
        <5>1. n - M \in 1 .. K /\ n = M + (n - M)
          BY <3>2
        <5> QED BY <5>1
      <4>2. h[k] = h[k - 1] + b[k] /\ b[k] \in Int /\ h[k] \in Int /\ h[k - 1] \in Int
        <5>1. h[k] = h[k - 1] + b[k]
          BY <1>2, <1>3 DEF AddsUp
        <5>2. k \in 0 .. K /\ k - 1 \in 0 .. K /\ k \in DOMAIN b
          BY <1>3
        <5> QED BY <1>4, <5>1, <5>2
      <4>3. c[n] = b[k]
        <5>1. n \in M + 1 .. M + K /\ n - M = k
          BY <4>1
        <5>2. \A m \in M + 1 .. M + K : c[m] = b[m - M]
          BY <1>6
        <5> QED BY <5>1, <5>2
      <4>4. f[n] = g[M] + h[k]
        <5>1. n - M = k
          BY <4>1
        <5> QED BY <3>2, <5>1
      <4>5. f[n - 1] = g[M] + h[k - 1]
        <5>1. CASE k = 1
          <6>1. n - 1 = M /\ M \in 0 .. M + K /\ k - 1 = 0
            BY <4>1, <5>1
          <6>2. f[M] = g[M]
            BY <6>1
          <6> QED BY <1>4, <6>1, <6>2
        <5>2. CASE k > 1
          <6>1. n - 1 \in 0 .. M + K /\ n - 1 > M /\ (n - 1) - M = k - 1
            BY <4>1, <5>2
          <6> QED BY <6>1
        <5> QED BY <5>1, <5>2
      <4> HIDE DEF f
      <4> QED BY <1>4, <4>2, <4>3, <4>4, <4>5, SMTT(30)
    <3> QED BY <3>1, <3>2
  <2> QED BY <1>6, <2>1, <2>2, <2>3 DEF AddsUp
<1>8. SumOf(c) = f[Len(c)]
  <2> HIDE DEF f
  <2> QED BY <1>6, <1>7, SumOfAddsUp
<1>9. f[M + K] = g[M] + h[K]
  <2>1. CASE K = 0
    BY <1>4, <2>1
  <2>2. CASE K > 0
    <3>1. M + K \in 0 .. M + K /\ ~(M + K <= M) /\ M + K - M = K
      BY <2>2
    <3> QED BY <3>1
  <2> QED BY <2>1, <2>2
<1> QED BY <1>1, <1>2, <1>3, <1>5, <1>6, <1>8, <1>9

(* Nothing but zeros.                                                      *)
LEMMA SumOfZeros ==
  ASSUME NEW nums \in Seq(Int), \A i \in DOMAIN nums : nums[i] = 0
  PROVE  SumOf(nums) = 0
<1> DEFINE g == [n \in 0 .. Len(nums) |-> 0]
<1>1. Len(nums) \in Nat /\ Len(nums) \in 0 .. Len(nums)
  OBVIOUS
<1>2. AddsUp(g, nums)
  BY <1>1 DEF AddsUp
<1>3. SumOf(nums) = g[Len(nums)]
  <2> HIDE DEF g
  <2> QED BY <1>2, SumOfAddsUp
<1> QED BY <1>1, <1>3

----------------------------------------------------------------------------
(* Picked keeps, in order, the elements at the positions in S.             *)
PicksUp(h, seq, S) ==
  /\ h[0] = <<>>
  /\ \A n \in 1 .. Len(seq) :
       h[n] = IF n \in S THEN Append(h[n - 1], seq[n]) ELSE h[n - 1]

LEMMA PickedFacts ==
  ASSUME NEW A, NEW seq \in Seq(A), NEW S, NEW B, \A i \in DOMAIN seq : i \in S => seq[i] \in B
  PROVE  \E h \in [0 .. Len(seq) -> Seq(B)] : PicksUp(h, seq, S) /\ Picked(seq, S) = h[Len(seq)]
<1> DEFINE N == Len(seq)
           F == [x \in Seq(B) \X (1 .. N) |-> IF x[2] \in S THEN Append(x[1], seq[x[2]]) ELSE x[1]]
           Body(f) == [n \in 0 .. N |-> IF n = 0 THEN <<>> ELSE
                         IF n \in S THEN Append(f[n - 1], seq[n]) ELSE f[n - 1]]
           upto == CHOOSE f : f = Body(f)
<1>1. N \in Nat /\ <<>> \in Seq(B)
  OBVIOUS
<1>2. F \in [Seq(B) \X (1 .. N) -> Seq(B)]
  <2>1. ASSUME NEW x \in Seq(B) \X (1 .. N)
        PROVE  (IF x[2] \in S THEN Append(x[1], seq[x[2]]) ELSE x[1]) \in Seq(B)
    <3>1. x[1] \in Seq(B) /\ x[2] \in DOMAIN seq
      BY <1>1
    <3> QED BY <3>1
  <2> QED BY <2>1
<1>3. \E h : IsLoop(h, N, Seq(B), <<>>, F)
  <2> HIDE DEF F, N
  <2> QED BY <1>1, <1>2, LoopExists
<1>4. PICK h : IsLoop(h, N, Seq(B), <<>>, F)
  BY <1>3
<1>5. h \in [0 .. N -> Seq(B)] /\ h[0] = <<>>
  BY <1>4 DEF IsLoop
<1>6. ASSUME NEW n \in 1 .. N
      PROVE  h[n] = IF n \in S THEN Append(h[n - 1], seq[n]) ELSE h[n - 1]
  <2>1. h[n - 1] \in Seq(B)
    BY <1>5
  <2>2. h[n] = F[<<h[n - 1], n>>]
    BY <1>4 DEF IsLoop
  <2> QED BY <2>1, <2>2
<1>7. h = Body(h)
  <2>1. ASSUME NEW n \in 0 .. N
        PROVE  h[n] = IF n = 0 THEN <<>> ELSE
                        IF n \in S THEN Append(h[n - 1], seq[n]) ELSE h[n - 1]
    <3>1. CASE n = 0
      BY <1>5, <3>1
    <3>2. CASE n # 0
      <4>1. n \in 1 .. N
        BY <1>1, <3>2
      <4> QED BY <1>6, <3>2, <4>1
    <3> QED BY <3>1, <3>2
  <2> HIDE DEF N
  <2> QED BY <1>5, <2>1
<1>8. upto = Body(upto)
  <2> HIDE DEF Body
  <2> QED BY <1>7
<1>9. ASSUME NEW n \in 0 .. N
      PROVE  upto[n] = IF n = 0 THEN <<>> ELSE
                         IF n \in S THEN Append(upto[n - 1], seq[n]) ELSE upto[n - 1]
  <2> HIDE DEF upto
  <2> QED BY <1>8
<1> HIDE DEF upto
<1> DEFINE T == {n \in 0 .. N : upto[n] = h[n]}
<1>10. 0 \in T
  BY <1>1, <1>5, <1>9
<1>11. ASSUME NEW n \in 0 .. N - 1, n \in T PROVE n + 1 \in T
  <2>1. n + 1 \in 1 .. N /\ n + 1 \in 0 .. N /\ n + 1 # 0 /\ (n + 1) - 1 = n
    BY <1>1
  <2>2. h[n + 1] = IF n + 1 \in S THEN Append(h[n], seq[n + 1]) ELSE h[n]
    BY <1>6, <2>1
  <2>3. upto[n + 1] = IF n + 1 \in S THEN Append(upto[n], seq[n + 1]) ELSE upto[n]
    BY <1>9, <2>1
  <2> QED BY <1>11, <2>1, <2>2, <2>3
<1>12. T \in SUBSET (0 .. N)
  OBVIOUS
<1>13. \A n \in 0 .. N : n \in T
  <2> HIDE DEF T, N
  <2> QED BY <1>1, <1>10, <1>11, <1>12, LoopInduction
<1>14. Picked(seq, S) = upto[N]
  BY DEF Picked, upto
<1> QED BY <1>1, <1>5, <1>6, <1>13, <1>14 DEF PicksUp

LEMMA PickedType ==
  ASSUME NEW A, NEW seq \in Seq(A), NEW S, NEW B, \A i \in DOMAIN seq : i \in S => seq[i] \in B
  PROVE  Picked(seq, S) \in Seq(B)
<1>1. PICK h \in [0 .. Len(seq) -> Seq(B)] : Picked(seq, S) = h[Len(seq)]
  BY PickedFacts
<1>2. Len(seq) \in 0 .. Len(seq)
  OBVIOUS
<1> QED BY <1>1, <1>2

(* What is picked comes from positions in S, in their order, and leaves    *)
(* none of them out.                                                       *)
InOrder(e, p, seq, S) ==
  /\ e \in [DOMAIN p -> DOMAIN seq \cap S]
  /\ \A j \in DOMAIN p : p[j] = seq[e[j]]
  /\ \A j, k \in DOMAIN p : j < k => e[j] < e[k]
  /\ \A i \in DOMAIN seq \cap S : \E j \in DOMAIN p : e[j] = i

LEMMA PickedInOrder ==
  ASSUME NEW A, NEW seq \in Seq(A), NEW S
  PROVE  \E e : InOrder(e, Picked(seq, S), seq, S)
<1>1. PICK N \in Nat : N = Len(seq)
  OBVIOUS
<1>2. \E h \in [0 .. N -> Seq(A)] : PicksUp(h, seq, S) /\ Picked(seq, S) = h[N]
  <2>1. \A i \in DOMAIN seq : i \in S => seq[i] \in A
    OBVIOUS
  <2> QED BY <1>1, <2>1, PickedFacts
<1>3. PICK h \in [0 .. N -> Seq(A)] : PicksUp(h, seq, S) /\ Picked(seq, S) = h[N]
  BY <1>2
<1>4. /\ h[0] = <<>> /\ DOMAIN seq = 1 .. N
      /\ \A n \in 1 .. N : h[n] = IF n \in S THEN Append(h[n - 1], seq[n]) ELSE h[n - 1]
  BY <1>1, <1>3 DEF PicksUp
(* e lists, in order, the positions up to n that are picked.               *)
<1> DEFINE Upto(e, n) ==
             /\ e \in [1 .. Len(h[n]) -> (1 .. n) \cap S]
             /\ \A j \in 1 .. Len(h[n]) : h[n][j] = seq[e[j]]
             /\ \A j, k \in 1 .. Len(h[n]) : j < k => e[j] < e[k]
             /\ \A i \in (1 .. n) \cap S : \E j \in 1 .. Len(h[n]) : e[j] = i
           T == {n \in 0 .. N : \E e : Upto(e, n)}
<1>5. 0 \in T
  <2>1. Len(h[0]) = 0 /\ (1 .. 0) = {}
    BY <1>4
  <2>2. \E e : Upto(e, 0)
    <3>1. Upto([j \in {} |-> j], 0)
      BY <2>1
    <3> HIDE DEF Upto
    <3> QED BY <3>1
  <2> HIDE DEF Upto
  <2> QED BY <2>2
<1>6. ASSUME NEW n \in 0 .. N - 1, n \in T PROVE n + 1 \in T
  <2>1. PICK e : Upto(e, n)
    BY <1>6
  <2>2. /\ n \in Nat /\ h[n] \in Seq(A) /\ n + 1 \in 0 .. N /\ n + 1 \in DOMAIN seq
        /\ h[n + 1] = IF n + 1 \in S THEN Append(h[n], seq[n + 1]) ELSE h[n]
    <3>1. n + 1 \in 1 .. N /\ n \in 0 .. N /\ (n + 1) - 1 = n
      OBVIOUS
    <3> QED BY <1>4, <3>1
  <2>3. PICK m \in Nat : m = Len(h[n])
    BY <2>2
  <2>4. CASE n + 1 \notin S
    <3>1. h[n + 1] = h[n] /\ (1 .. n + 1) \cap S = (1 .. n) \cap S
      BY <2>2, <2>4
    <3>2. Upto(e, n + 1)
      BY <2>1, <3>1
    <3> QED BY <2>2, <3>2
  <2>5. CASE n + 1 \in S
    <3> DEFINE f == [j \in 1 .. m + 1 |-> IF j = m + 1 THEN n + 1 ELSE e[j]]
    <3>1. PICK p : p = h[n + 1]
      OBVIOUS
    <3>2. /\ Len(p) = m + 1 /\ p[m + 1] = seq[n + 1]
          /\ \A j \in 1 .. m : p[j] = h[n][j]
      <4>1. p = Append(h[n], seq[n + 1]) /\ seq[n + 1] \in A
        BY <2>2, <2>5, <3>1
      <4> QED BY <2>2, <2>3, <4>1
    <3>3. /\ e \in [1 .. m -> (1 .. n) \cap S]
          /\ \A j \in 1 .. m : h[n][j] = seq[e[j]]
          /\ \A j, k \in 1 .. m : j < k => e[j] < e[k]
          /\ \A i \in (1 .. n) \cap S : \E j \in 1 .. m : e[j] = i
      BY <2>1, <2>3
    <3>4. f \in [1 .. m + 1 -> (1 .. n + 1) \cap S]
      BY <2>2, <2>5, <3>3, SMTT(30)
    <3>5. \A j \in 1 .. m + 1 : p[j] = seq[f[j]]
      BY <3>2, <3>3
    <3>6. \A j, k \in 1 .. m + 1 : j < k => f[j] < f[k]
      BY <2>2, <3>3
    <3>7. \A i \in (1 .. n + 1) \cap S : \E j \in 1 .. m + 1 : f[j] = i
      <4>1. ASSUME NEW i \in (1 .. n + 1) \cap S PROVE \E j \in 1 .. m + 1 : f[j] = i
        <5>1. CASE i = n + 1
          <6>1. m + 1 \in 1 .. m + 1 /\ f[m + 1] = n + 1
            OBVIOUS
          <6> QED BY <5>1, <6>1
        <5>2. CASE i # n + 1
          <6>1. i \in (1 .. n) \cap S
            BY <2>2, <5>2
          <6>2. PICK j \in 1 .. m : e[j] = i
            BY <3>3, <6>1
          <6>3. j \in 1 .. m + 1 /\ f[j] = i
            BY <6>2
          <6> QED BY <6>3
        <5> QED BY <5>1, <5>2
      <4> QED BY <4>1
    <3>8. Upto(f, n + 1)
      <4> HIDE DEF f
      <4> QED BY <3>1, <3>2, <3>4, <3>5, <3>6, <3>7
    <3> HIDE DEF Upto
    <3> QED BY <2>2, <3>8
  <2> QED BY <2>4, <2>5
<1>7. T \in SUBSET (0 .. N)
  OBVIOUS
<1>8. \A n \in 0 .. N : n \in T
  <2> HIDE DEF T
  <2> QED BY <1>5, <1>6, <1>7, LoopInduction
<1>9. PICK e : Upto(e, N)
  <2>1. N \in T
    BY <1>8
  <2> HIDE DEF Upto
  <2> QED BY <2>1
<1>10. DOMAIN Picked(seq, S) = 1 .. Len(h[N])
  BY <1>3
<1>11. InOrder(e, Picked(seq, S), seq, S)
  <2>1. PICK p : p = h[N]
    OBVIOUS
  <2>2. Picked(seq, S) = p /\ DOMAIN p = 1 .. Len(h[N])
    BY <1>3, <1>10, <2>1
  <2>3. InOrder(e, p, seq, S)
    BY <1>4, <1>9, <2>1, <2>2 DEF InOrder
  <2> QED BY <2>2, <2>3
<1> QED BY <1>11

(* The values of the elements; of those at positions in S, and 0 elsewhere. *)
Values(F, seq)        == [i \in DOMAIN seq |-> F[seq[i]]]
ValuesWhere(F, seq, S) == [i \in DOMAIN seq |-> IF i \in S THEN F[seq[i]] ELSE 0]

LEMMA ValuesType ==
  ASSUME NEW A, NEW seq \in Seq(A), NEW F \in [A -> Int]
  PROVE  Values(F, seq) \in Seq(Int) /\ SumOf(Values(F, seq)) \in Int
<1>1. Values(F, seq) \in Seq(Int)
  BY DEF Values
<1> QED BY <1>1, SumOfFacts

LEMMA ValuesAppend ==
  ASSUME NEW A, NEW seq \in Seq(A), NEW x \in A, NEW F \in [A -> Int]
  PROVE  Values(F, Append(seq, x)) = Append(Values(F, seq), F[x])
<1>1. PICK m \in Nat : m = Len(seq)
  OBVIOUS
<1>2. /\ DOMAIN seq = 1 .. m /\ DOMAIN Append(seq, x) = 1 .. m + 1
      /\ \A j \in 1 .. m : Append(seq, x)[j] = seq[j]
      /\ Append(seq, x)[m + 1] = x
  BY <1>1
<1>3. Values(F, seq) \in Seq(Int) /\ Len(Values(F, seq)) = m /\ F[x] \in Int
  BY <1>2 DEF Values
<1>4. /\ Append(Values(F, seq), F[x]) = [j \in 1 .. m + 1 |-> Append(Values(F, seq), F[x])[j]]
      /\ \A j \in 1 .. m : Append(Values(F, seq), F[x])[j] = Values(F, seq)[j]
      /\ Append(Values(F, seq), F[x])[m + 1] = F[x]
  BY <1>3
<1>5. \A j \in 1 .. m + 1 : F[Append(seq, x)[j]] = Append(Values(F, seq), F[x])[j]
  <2>1. \A j \in 1 .. m : Values(F, seq)[j] = F[seq[j]]
    BY <1>2 DEF Values
  <2> QED BY <1>2, <1>4, <2>1
<1>6. Values(F, Append(seq, x)) = [j \in 1 .. m + 1 |-> F[Append(seq, x)[j]]]
  BY <1>2 DEF Values
<1> QED BY <1>4, <1>5, <1>6

LEMMA SumOfValuesAppend ==
  ASSUME NEW A, NEW seq \in Seq(A), NEW x \in A, NEW F \in [A -> Int]
  PROVE  SumOf(Values(F, Append(seq, x))) = SumOf(Values(F, seq)) + F[x]
<1>1. Values(F, seq) \in Seq(Int) /\ F[x] \in Int
  BY ValuesType
<1>2. Values(F, Append(seq, x)) = Append(Values(F, seq), F[x])
  BY ValuesAppend
<1>3. SumOf(Append(Values(F, seq), F[x])) = SumOf(Values(F, seq)) + F[x]
  BY <1>1, SumOfAppend
<1> QED BY <1>2, <1>3

LEMMA ConcatIs ==
  ASSUME NEW A, NEW a \in Seq(A), NEW b \in Seq(A)
  PROVE  a \o b = [j \in 1 .. Len(a) + Len(b) |-> IF j <= Len(a) THEN a[j] ELSE b[j - Len(a)]]
<1>1. PICK M \in Nat, K \in Nat : M = Len(a) /\ K = Len(b)
  OBVIOUS
<1>2. PICK c \in Seq(A) : c = a \o b
  <2>1. a \o b \in Seq(A)
    BY <1>1
  <2> QED BY <2>1
<1>3. Len(c) = M + K /\ \A j \in 1 .. M + K : c[j] = IF j <= M THEN a[j] ELSE b[j - M]
  BY <1>1, <1>2
<1>4. c = [j \in 1 .. M + K |-> c[j]]
  BY <1>3
<1> QED BY <1>1, <1>2, <1>3, <1>4

LEMMA SumOfValuesConcat ==
  ASSUME NEW A, NEW a \in Seq(A), NEW b \in Seq(A), NEW F \in [A -> Int]
  PROVE  SumOf(Values(F, a \o b)) = SumOf(Values(F, a)) + SumOf(Values(F, b))
<1>1. PICK M \in Nat, K \in Nat : M = Len(a) /\ K = Len(b)
  OBVIOUS
<1>2. /\ DOMAIN (a \o b) = 1 .. M + K
      /\ \A j \in 1 .. M + K : (a \o b)[j] = IF j <= M THEN a[j] ELSE b[j - M]
  BY <1>1
<1>3. /\ Values(F, a) \in Seq(Int) /\ Values(F, b) \in Seq(Int)
      /\ Len(Values(F, a)) = M /\ Len(Values(F, b)) = K
      /\ \A j \in 1 .. M : Values(F, a)[j] = F[a[j]]
      /\ \A j \in 1 .. K : Values(F, b)[j] = F[b[j]]
  <2>1. DOMAIN a = 1 .. M /\ DOMAIN b = 1 .. K
    BY <1>1
  <2>2. Values(F, a) = [j \in 1 .. M |-> F[a[j]]] /\ Values(F, b) = [j \in 1 .. K |-> F[b[j]]]
    BY <2>1 DEF Values
  <2>3. Values(F, a) \in Seq(Int) /\ Values(F, b) \in Seq(Int)
    BY ValuesType
  <2>4. Len(Values(F, a)) = M /\ Len(Values(F, b)) = K
    BY <2>2
  <2> QED BY <2>2, <2>3, <2>4
<1>4. Values(F, a) \o Values(F, b)
        = [j \in 1 .. M + K |-> IF j <= M THEN Values(F, a)[j] ELSE Values(F, b)[j - M]]
  <2>1. PICK va \in Seq(Int), vb \in Seq(Int) : va = Values(F, a) /\ vb = Values(F, b)
    BY <1>3
  <2>2. va \o vb = [j \in 1 .. M + K |-> IF j <= M THEN va[j] ELSE vb[j - M]]
    <3>1. Len(va) = M /\ Len(vb) = K
      BY <1>3, <2>1
    <3>2. va \o vb
            = [j \in 1 .. Len(va) + Len(vb) |-> IF j <= Len(va) THEN va[j] ELSE vb[j - Len(va)]]
      BY ConcatIs
    <3> QED BY <3>1, <3>2
  <2> QED BY <2>1, <2>2
<1>5. ASSUME NEW j \in 1 .. M + K
      PROVE  F[(a \o b)[j]] = IF j <= M THEN Values(F, a)[j] ELSE Values(F, b)[j - M]
  <2>1. j <= M => j \in 1 .. M
    OBVIOUS
  <2>2. ~(j <= M) => j - M \in 1 .. K
    OBVIOUS
  <2> QED BY <1>2, <1>3, <2>1, <2>2
<1>6. Values(F, a \o b) = [j \in 1 .. M + K |-> F[(a \o b)[j]]]
  BY <1>2 DEF Values
<1>7. Values(F, a \o b) = Values(F, a) \o Values(F, b)
  BY <1>4, <1>5, <1>6
<1> QED BY <1>3, <1>7, SumOfConcat

(* The sum of what is picked is the sum of all, the others counting 0.     *)
LEMMA SumOfPicked ==
  ASSUME NEW A, NEW seq \in Seq(A), NEW S, NEW B,
         \A i \in DOMAIN seq : i \in S => seq[i] \in B, NEW F \in [B -> Int]
  PROVE  SumOf(Values(F, Picked(seq, S))) = SumOf(ValuesWhere(F, seq, S))
<1>1. PICK N \in Nat : N = Len(seq) /\ DOMAIN seq = 1 .. N
  OBVIOUS
<1>2. PICK h \in [0 .. N -> Seq(B)] : PicksUp(h, seq, S) /\ Picked(seq, S) = h[N]
  BY <1>1, PickedFacts
<1>3. /\ h[0] = <<>>
      /\ \A n \in 1 .. N : h[n] = IF n \in S THEN Append(h[n - 1], seq[n]) ELSE h[n - 1]
  BY <1>1, <1>2 DEF PicksUp
<1> DEFINE all == [i \in DOMAIN seq |-> IF i \in S THEN F[seq[i]] ELSE 0]
           Vals(p) == [j \in DOMAIN p |-> F[p[j]]]
           g == [n \in 0 .. N |-> SumOf(Vals(h[n]))]
<1>4. ASSUME NEW i \in 1 .. N PROVE (IF i \in S THEN F[seq[i]] ELSE 0) \in Int
  BY <1>1
<1>5. all \in Seq(Int) /\ Len(all) = N
  BY <1>1, <1>4
<1>6. ASSUME NEW p \in Seq(B) PROVE Vals(p) \in Seq(Int) /\ SumOf(Vals(p)) \in Int
  <2>1. Vals(p) \in Seq(Int)
    OBVIOUS
  <2> HIDE DEF Vals
  <2> QED BY <2>1, SumOfFacts
<1>7. AddsUp(g, all)
  <2>1. g \in [0 .. N -> Int]
    BY <1>6
  <2>2. g[0] = 0
    <3>1. Vals(<<>>) = <<>>
      OBVIOUS
    <3> QED BY <1>3, <3>1, SumOfEmpty
  <2>3. ASSUME NEW n \in 1 .. N PROVE g[n] = g[n - 1] + all[n]
    <3>1. h[n - 1] \in Seq(B) /\ n \in 0 .. N /\ n - 1 \in 0 .. N
      OBVIOUS
    <3>2. CASE n \in S
      <4>1. h[n] = Append(h[n - 1], seq[n]) /\ seq[n] \in B /\ all[n] = F[seq[n]]
        BY <1>1, <1>3, <3>2
      <4>2. Vals(h[n]) = Append(Vals(h[n - 1]), F[seq[n]])
        <5>1. Values(F, Append(h[n - 1], seq[n])) = Append(Values(F, h[n - 1]), F[seq[n]])
          BY <3>1, <4>1, ValuesAppend, SMTT(30)
        <5> QED BY <4>1, <5>1 DEF Values
      <4>3. Vals(h[n - 1]) \in Seq(Int) /\ F[seq[n]] \in Int
        BY <1>6, <3>1, <4>1
      <4>4. SumOf(Vals(h[n])) = SumOf(Vals(h[n - 1])) + F[seq[n]]
        <5> HIDE DEF Vals
        <5> QED BY <4>2, <4>3, SumOfAppend
      <4> HIDE DEF Vals, all
      <4> QED BY <3>1, <4>1, <4>4
    <3>3. CASE n \notin S
      <4>1. h[n] = h[n - 1] /\ all[n] = 0
        BY <1>1, <1>3, <3>3
      <4>2. SumOf(Vals(h[n - 1])) \in Int
        BY <1>6, <3>1
      <4> HIDE DEF Vals, all
      <4> QED BY <3>1, <4>1, <4>2
    <3> QED BY <3>2, <3>3
  <2> HIDE DEF g, all
  <2> QED BY <1>5, <2>1, <2>2, <2>3 DEF AddsUp
<1>8. SumOf(all) = g[N]
  <2> HIDE DEF g, all
  <2> QED BY <1>5, <1>7, SumOfAddsUp
<1> QED BY <1>2, <1>8 DEF Values, ValuesWhere

----------------------------------------------------------------------------
(* A set put into a sequence: every element once.                          *)
LEMMA SetToSeqFacts ==
  ASSUME NEW S, IsFiniteSet(S)
  PROVE  /\ Cardinality(S) \in Nat /\ SetToSeq(S) \in [1 .. Cardinality(S) -> S]
         /\ \A x \in S : \E i \in 1 .. Cardinality(S) : SetToSeq(S)[i] = x
         /\ \A i, j \in 1 .. Cardinality(S) : SetToSeq(S)[i] = SetToSeq(S)[j] => i = j
<1> DEFINE N == Cardinality(S)
           l == SetToSeq(S)
<1>1. N \in Nat /\ ExistsBijection(1 .. N, S)
  BY FS_CardinalityType
<1>2. \E f \in [1 .. N -> S] : IsInjective(f)
  BY <1>1 DEF ExistsBijection, Bijection, Injection
<1>3. l \in [1 .. N -> S] /\ IsInjective(l)
  BY <1>2, Zenon DEF SetToSeq
<1>4. IsFiniteSet(1 .. N) /\ Cardinality(1 .. N) = N
  BY <1>1, FS_Interval
<1> HIDE DEF l, N
<1>5. l \in Injection(1 .. N, S)
  BY <1>3 DEF Injection
<1>6. l \in Surjection(1 .. N, S)
  BY <1>4, <1>5, FS_Injection DEF N
<1> QED BY <1>1, <1>3, <1>6 DEF Surjection, IsInjective, l, N

----------------------------------------------------------------------------
(* A set of sequences that has the empty one, and with each sequence every *)
(* longer one, has all.                                                    *)
LEMMA SeqInductionSet ==
  ASSUME NEW A, NEW S \in SUBSET Seq(A), <<>> \in S,
         \A seq \in S : \A x \in A : Append(seq, x) \in S
  PROVE  \A seq \in Seq(A) : seq \in S
<1> DEFINE T == {n \in Nat : \A seq \in Seq(A) : Len(seq) = n => seq \in S}
<1>1. T \in SUBSET Nat
  OBVIOUS
<1>2. 0 \in T
  OBVIOUS
<1>3. ASSUME NEW n \in T PROVE n + 1 \in T
  <2>1. ASSUME NEW seq \in Seq(A), Len(seq) = n + 1 PROVE seq \in S
    <3> DEFINE front == [i \in 1 .. n |-> seq[i]]
    <3>1. n \in Nat
      OBVIOUS
    <3>2. front \in Seq(A) /\ Len(front) = n /\ seq[n + 1] \in A
      BY <2>1, <3>1
    <3>3. seq = Append(front, seq[n + 1])
      <4>1. \A i \in 1 .. n : front[i] = seq[i]
        OBVIOUS
      <4> HIDE DEF front
      <4>2. PICK w \in Seq(A) : w = Append(front, seq[n + 1])
        BY <3>2
      <4>3. Len(w) = n + 1
        BY <3>1, <3>2, <4>2
      <4>4. w[Len(front) + 1] = seq[n + 1] /\ \A i \in 1 .. Len(front) : w[i] = front[i]
        <5>1. PICK x \in A, short \in Seq(A) : x = seq[n + 1] /\ short = front
          BY <3>2
        <5>2. /\ Append(short, x)[Len(short) + 1] = x
              /\ \A i \in 1 .. Len(short) : Append(short, x)[i] = short[i]
          BY AppendProperties
        <5> QED BY <4>2, <5>1, <5>2
      <4>5. ASSUME NEW i \in 1 .. n + 1 PROVE w[i] = seq[i]
        <5>1. CASE i = n + 1
          BY <3>2, <4>4, <5>1
        <5>2. CASE i # n + 1
          <6>1. i \in 1 .. n /\ i \in 1 .. Len(front)
            BY <3>1, <3>2, <5>2
          <6> QED BY <4>1, <4>4, <6>1
        <5> QED BY <5>1, <5>2
      <4>6. w = seq
        BY <2>1, <4>3, <4>5, SeqEqual
      <4> QED BY <4>2, <4>6
    <3>4. front \in S
      BY <3>2
    <3> QED BY <3>2, <3>3, <3>4
  <2> QED BY <2>1
<1>4. \A n \in Nat : n \in T
  <2> HIDE DEF T
  <2> QED BY <1>1, <1>2, <1>3, NatInductionSet
<1>5. ASSUME NEW seq \in Seq(A) PROVE seq \in S
  <2>1. Len(seq) \in Nat
    OBVIOUS
  <2> QED BY <1>4, <2>1
<1> QED BY <1>5

(* Whatever follows the loop of Picked step by step ends where it ends.    *)
LEMMA PickedIs ==
  ASSUME NEW A, NEW seq \in Seq(A), NEW S, NEW f, PicksUp(f, seq, S)
  PROVE  Picked(seq, S) = f[Len(seq)]
<1>1. PICK N \in Nat : N = Len(seq)
  OBVIOUS
<1>2. PICK h \in [0 .. N -> Seq(A)] : PicksUp(h, seq, S) /\ Picked(seq, S) = h[N]
  <2>1. \A i \in DOMAIN seq : i \in S => seq[i] \in A
    OBVIOUS
  <2> QED BY <1>1, <2>1, PickedFacts
<1> DEFINE T == {n \in 0 .. N : f[n] = h[n]}
<1>3. 0 \in T
  BY <1>2 DEF PicksUp
<1>4. ASSUME NEW n \in 0 .. N - 1, n \in T PROVE n + 1 \in T
  <2>1. n + 1 \in 1 .. N /\ n + 1 \in 0 .. N /\ (n + 1) - 1 = n
    OBVIOUS
  <2>2. /\ h[n + 1] = IF n + 1 \in S THEN Append(h[n], seq[n + 1]) ELSE h[n]
        /\ f[n + 1] = IF n + 1 \in S THEN Append(f[n], seq[n + 1]) ELSE f[n]
    BY <1>1, <1>2, <2>1 DEF PicksUp
  <2> QED BY <1>4, <2>1, <2>2
<1>5. \A n \in 0 .. N : n \in T
  <2>1. T \in SUBSET (0 .. N)
    OBVIOUS
  <2> HIDE DEF T
  <2> QED BY <1>3, <1>4, <2>1, LoopInduction
<1> QED BY <1>1, <1>2, <1>5

(* The elements that are in V, in their order.                             *)
Only(seq, V) == Picked(seq, {i \in DOMAIN seq : seq[i] \in V})

LEMMA OnlyEmpty == ASSUME NEW V PROVE Only(<<>>, V) = <<>>
<1>1. <<>> \in Seq({}) /\ Len(<<>>) = 0
  OBVIOUS
<1>2. PicksUp([n \in 0 .. 0 |-> <<>>], <<>>, {i \in DOMAIN <<>> : <<>>[i] \in V})
  BY DEF PicksUp
<1> QED BY <1>1, <1>2, PickedIs DEF Only

LEMMA OnlyAppend ==
  ASSUME NEW A, NEW seq \in Seq(A), NEW x \in A, NEW V
  PROVE  Only(Append(seq, x), V) = IF x \in V THEN Append(Only(seq, V), x) ELSE Only(seq, V)
<1> DEFINE longer == Append(seq, x)
           S == {i \in DOMAIN seq : seq[i] \in V}
           L == {i \in DOMAIN longer : longer[i] \in V}
<1>1. PICK N \in Nat : N = Len(seq)
  OBVIOUS
<1>2. /\ longer \in Seq(A) /\ Len(longer) = N + 1 /\ longer[N + 1] = x
      /\ DOMAIN seq = 1 .. N /\ DOMAIN longer = 1 .. N + 1
      /\ \A i \in 1 .. N : longer[i] = seq[i]
  BY <1>1
<1>3. PICK h \in [0 .. N + 1 -> Seq(A)] : PicksUp(h, longer, L) /\ Picked(longer, L) = h[N + 1]
  <2>1. \A i \in DOMAIN longer : i \in L => longer[i] \in A
    BY <1>2
  <2> HIDE DEF longer, L
  <2> QED BY <1>2, <2>1, PickedFacts
<1>4. PicksUp(h, seq, S)
  <2>1. ASSUME NEW n \in 1 .. N
        PROVE  h[n] = IF n \in S THEN Append(h[n - 1], seq[n]) ELSE h[n - 1]
    <3>1. h[n] = IF n \in L THEN Append(h[n - 1], longer[n]) ELSE h[n - 1]
      BY <1>2, <1>3 DEF PicksUp
    <3>2. longer[n] = seq[n] /\ (n \in L <=> n \in S)
      BY <1>2
    <3> QED BY <3>1, <3>2
  <2> HIDE DEF longer, L, S
  <2> QED BY <1>1, <1>3, <2>1 DEF PicksUp
<1>5. Only(seq, V) = h[N]
  <2>1. Picked(seq, S) = h[N]
    <3> HIDE DEF S
    <3> QED BY <1>1, <1>4, PickedIs
  <2> QED BY <2>1 DEF Only
<1>6. h[N + 1] = IF N + 1 \in L THEN Append(h[N], longer[N + 1]) ELSE h[N]
  <2>1. N + 1 \in 1 .. N + 1 /\ (N + 1) - 1 = N
    OBVIOUS
  <2> HIDE DEF longer, L
  <2> QED BY <1>2, <1>3, <2>1 DEF PicksUp
<1>7. N + 1 \in L <=> x \in V
  BY <1>2
<1>8. Only(longer, V) = h[N + 1]
  BY <1>3 DEF Only
<1> QED BY <1>2, <1>5, <1>6, <1>7, <1>8

LEMMA OnlyType ==
  ASSUME NEW A, NEW seq \in Seq(A), NEW V
  PROVE  Only(seq, V) \in Seq(A \cap V)
<1> DEFINE S == {i \in DOMAIN seq : seq[i] \in V}
<1>1. \A i \in DOMAIN seq : i \in S => seq[i] \in A \cap V
  OBVIOUS
<1>2. Picked(seq, S) \in Seq(A \cap V)
  <2> HIDE DEF S
  <2> QED BY <1>1, PickedType
<1> QED BY <1>2 DEF Only

(* Where V and W have the same of the elements.                            *)
LEMMA OnlySame ==
  ASSUME NEW seq, NEW V, NEW W, \A i \in DOMAIN seq : seq[i] \in V <=> seq[i] \in W
  PROVE  Only(seq, V) = Only(seq, W)
<1>1. {i \in DOMAIN seq : seq[i] \in V} = {i \in DOMAIN seq : seq[i] \in W}
  OBVIOUS
<1> QED BY <1>1 DEF Only

LEMMA OnlyOnly ==
  ASSUME NEW A, NEW V, NEW W
  PROVE  \A seq \in Seq(A) : Only(Only(seq, V), W) = Only(seq, V \cap W)
<1> DEFINE S == {seq \in Seq(A) : Only(Only(seq, V), W) = Only(seq, V \cap W)}
<1>1. S \in SUBSET Seq(A)
  OBVIOUS
<1>2. <<>> \in S
  <2>1. <<>> \in Seq(A)
    OBVIOUS
  <2> QED BY <2>1, OnlyEmpty
<1>3. ASSUME NEW seq \in S, NEW x \in A PROVE Append(seq, x) \in S
  <2>1. seq \in Seq(A) /\ Append(seq, x) \in Seq(A)
    OBVIOUS
  <2>2. Only(Append(seq, x), V) = IF x \in V THEN Append(Only(seq, V), x) ELSE Only(seq, V)
    BY <2>1, OnlyAppend
  <2>3. Only(Append(seq, x), V \cap W)
          = IF x \in V \cap W THEN Append(Only(seq, V \cap W), x) ELSE Only(seq, V \cap W)
    BY <2>1, OnlyAppend
  <2>4. Only(seq, V) \in Seq(A)
    <3>1. Only(seq, V) \in Seq(A \cap V)
      BY <2>1, OnlyType
    <3> QED BY <3>1
  <2>5. Only(Append(Only(seq, V), x), W)
          = IF x \in W THEN Append(Only(Only(seq, V), W), x) ELSE Only(Only(seq, V), W)
    BY <2>4, OnlyAppend
  <2>6. Only(Only(seq, V), W) = Only(seq, V \cap W)
    BY <1>3
  <2>7. CASE x \in V
    <3>1. Only(Append(seq, x), V) = Append(Only(seq, V), x) /\ (x \in V \cap W <=> x \in W)
      BY <2>2, <2>7
    <3>2. Only(Only(Append(seq, x), V), W) = Only(Append(seq, x), V \cap W)
      BY <2>3, <2>5, <2>6, <3>1, Zenon
    <3> QED BY <2>1, <3>2
  <2>8. CASE x \notin V
    <3>1. Only(Append(seq, x), V) = Only(seq, V) /\ x \notin V \cap W
      BY <2>2, <2>8
    <3> QED BY <2>1, <2>3, <2>6, <3>1
  <2> QED BY <2>7, <2>8
<1>4. \A seq \in Seq(A) : seq \in S
  <2> HIDE DEF S
  <2> QED BY <1>1, <1>2, <1>3, SeqInductionSet
<1> QED BY <1>4

LEMMA OnlyConcat ==
  ASSUME NEW A, NEW a \in Seq(A), NEW V
  PROVE  \A b \in Seq(A) : Only(a \o b, V) = Only(a, V) \o Only(b, V)
<1> DEFINE S == {b \in Seq(A) : Only(a \o b, V) = Only(a, V) \o Only(b, V)}
<1>1. S \in SUBSET Seq(A)
  OBVIOUS
<1>2. ASSUME NEW b \in Seq(A) PROVE Only(b, V) \in Seq(A)
  <2>1. Only(b, V) \in Seq(A \cap V)
    BY OnlyType
  <2> QED BY <2>1
<1>3. <<>> \in S
  <2>1. <<>> \in Seq(A) /\ a \o <<>> = a /\ Only(a, V) \o <<>> = Only(a, V)
    BY <1>2
  <2> QED BY <2>1, OnlyEmpty
<1>4. ASSUME NEW b \in S, NEW x \in A PROVE Append(b, x) \in S
  <2>1. b \in Seq(A) /\ Append(b, x) \in Seq(A) /\ a \o b \in Seq(A)
    OBVIOUS
  <2>2. a \o Append(b, x) = Append(a \o b, x)
    BY <2>1
  <2>3. Only(Append(a \o b, x), V)
          = IF x \in V THEN Append(Only(a \o b, V), x) ELSE Only(a \o b, V)
    <3>1. PICK c \in Seq(A) : c = a \o b
      BY <2>1
    <3>2. Only(Append(c, x), V) = IF x \in V THEN Append(Only(c, V), x) ELSE Only(c, V)
      BY OnlyAppend
    <3> QED BY <3>1, <3>2
  <2>4. Only(Append(b, x), V) = IF x \in V THEN Append(Only(b, V), x) ELSE Only(b, V)
    BY <2>1, OnlyAppend
  <2>5. Only(a, V) \o Append(Only(b, V), x) = Append(Only(a, V) \o Only(b, V), x)
    <3>1. Only(a, V) \in Seq(A) /\ Only(b, V) \in Seq(A)
      BY <1>2, <2>1
    <3> QED BY <3>1
  <2>6. Only(a \o b, V) = Only(a, V) \o Only(b, V)
    BY <1>4
  <2> QED BY <2>1, <2>2, <2>3, <2>4, <2>5, <2>6
<1>5. \A b \in Seq(A) : b \in S
  <2> HIDE DEF S
  <2> QED BY <1>1, <1>3, <1>4, SeqInductionSet
<1> QED BY <1>5

LEMMA OnlyAll ==
  ASSUME NEW A, NEW V, A \subseteq V
  PROVE  \A seq \in Seq(A) : Only(seq, V) = seq
<1> DEFINE S == {seq \in Seq(A) : Only(seq, V) = seq}
<1>1. S \in SUBSET Seq(A)
  OBVIOUS
<1>2. <<>> \in S
  <2>1. <<>> \in Seq(A)
    OBVIOUS
  <2> QED BY <2>1, OnlyEmpty
<1>3. ASSUME NEW seq \in S, NEW x \in A PROVE Append(seq, x) \in S
  <2>1. seq \in Seq(A) /\ Append(seq, x) \in Seq(A) /\ x \in V /\ Only(seq, V) = seq
    OBVIOUS
  <2>2. Only(Append(seq, x), V) = IF x \in V THEN Append(Only(seq, V), x) ELSE Only(seq, V)
    BY <2>1, OnlyAppend
  <2> QED BY <2>1, <2>2
<1>4. \A seq \in Seq(A) : seq \in S
  <2> HIDE DEF S
  <2> QED BY <1>1, <1>2, <1>3, SeqInductionSet
<1> QED BY <1>4

(* What is kept comes from somewhere in the list, in the order of the      *)
(* list, and nothing in V is lost.                                         *)
LEMMA OnlyMembers ==
  ASSUME NEW A, NEW seq \in Seq(A), NEW V
  PROVE  /\ \A i \in DOMAIN seq : seq[i] \in V => \E j \in DOMAIN Only(seq, V) : Only(seq, V)[j] = seq[i]
         /\ \A j \in DOMAIN Only(seq, V) : \E i \in DOMAIN seq : Only(seq, V)[j] = seq[i] /\ seq[i] \in V
         /\ \A j, k \in DOMAIN Only(seq, V) : j < k =>
              \E i, l \in DOMAIN seq : i < l /\ Only(seq, V)[j] = seq[i] /\ Only(seq, V)[k] = seq[l]
<1> DEFINE S == {i \in DOMAIN seq : seq[i] \in V}
<1>1. PICK p : p = Only(seq, V)
  OBVIOUS
<1>2. p = Picked(seq, S)
  BY <1>1 DEF Only
<1>3. PICK e : InOrder(e, p, seq, S)
  <2> HIDE DEF S
  <2> QED BY <1>2, PickedInOrder
<1>4. /\ e \in [DOMAIN p -> DOMAIN seq \cap S]
      /\ \A j \in DOMAIN p : p[j] = seq[e[j]]
      /\ \A j, k \in DOMAIN p : j < k => e[j] < e[k]
      /\ \A i \in DOMAIN seq \cap S : \E j \in DOMAIN p : e[j] = i
  BY <1>3 DEF InOrder
<1>5. \A j \in DOMAIN p : e[j] \in DOMAIN seq /\ seq[e[j]] \in V
  BY <1>4
<1>6. \A i \in DOMAIN seq : seq[i] \in V => \E j \in DOMAIN p : p[j] = seq[i]
  BY <1>4
<1>7. \A j \in DOMAIN p : \E i \in DOMAIN seq : p[j] = seq[i] /\ seq[i] \in V
  BY <1>4, <1>5
<1>8. \A j, k \in DOMAIN p : j < k =>
         \E i, l \in DOMAIN seq : i < l /\ p[j] = seq[i] /\ p[k] = seq[l]
  BY <1>4, <1>5
<1> QED BY <1>1, <1>6, <1>7, <1>8

LEMMA OnlyNone ==
  ASSUME NEW A, NEW seq \in Seq(A), NEW V
  PROVE  Only(seq, V) = <<>> <=> \A i \in DOMAIN seq : seq[i] \notin V
<1>1. PICK p \in Seq(A \cap V) : p = Only(seq, V)
  BY OnlyType
<1>2. /\ \A i \in DOMAIN seq : seq[i] \in V => \E j \in DOMAIN p : p[j] = seq[i]
      /\ \A j \in DOMAIN p : \E i \in DOMAIN seq : p[j] = seq[i] /\ seq[i] \in V
  BY <1>1, OnlyMembers
<1>3. p = <<>> <=> DOMAIN p = {}
  <2>1. ASSUME DOMAIN p = {} PROVE p = <<>>
    <3>1. DOMAIN p = 1 .. Len(p) /\ Len(p) \in Nat
      OBVIOUS
    <3>2. Len(p) = 0
      BY <2>1, <3>1
    <3> QED BY <3>2
  <2> QED BY <2>1
<1> QED BY <1>1, <1>2, <1>3

----------------------------------------------------------------------------
(* The least and the greatest number of a finite set.                      *)
LEMMA MinOfTwo ==
  ASSUME NEW a \in Int, NEW b \in Int
  PROVE  Min({a, b}) = IF a <= b THEN a ELSE b
BY DEF Min

LEMMA MaxOfTwo ==
  ASSUME NEW a \in Int, NEW b \in Int
  PROVE  Max({a, b}) = IF a <= b THEN b ELSE a
BY DEF Max

LEMMA FiniteExtremes ==
  ASSUME NEW S \in SUBSET Int, IsFiniteSet(S), S # {}
  PROVE  /\ Max(S) \in S /\ \A y \in S : y <= Max(S)
         /\ Min(S) \in S /\ \A y \in S : Min(S) <= y
<1> DEFINE N == Cardinality(S)
           l == SetToSeq(S)
<1>1. /\ N \in Nat /\ l \in [1 .. N -> S]
      /\ \A x \in S : \E i \in 1 .. N : l[i] = x
  BY SetToSeqFacts
<1> HIDE DEF N, l
<1>2. N # 0
  <2>1. PICK x : x \in S
    OBVIOUS
  <2> QED BY <1>1, <2>1
<1> DEFINE Tops == {n \in 0 .. N - 1 : /\ \E i \in 1 .. n + 1 : \A j \in 1 .. n + 1 : l[j] <= l[i]
                                       /\ \E i \in 1 .. n + 1 : \A j \in 1 .. n + 1 : l[i] <= l[j]}
<1>3. \A i \in 1 .. N : l[i] \in Int
  BY <1>1
<1>4. 0 \in Tops
  <2>1. 1 \in 1 .. N
    BY <1>1, <1>2
  <2>2. l[1] <= l[1]
    BY <1>3, <2>1
  <2> QED BY <1>1, <1>2, <2>2
<1>5. ASSUME NEW n \in 0 .. N - 1 - 1, n \in Tops PROVE n + 1 \in Tops
  <2>1. PICK i \in 1 .. n + 1 : \A j \in 1 .. n + 1 : l[j] <= l[i]
    BY <1>5
  <2>2. PICK h \in 1 .. n + 1 : \A j \in 1 .. n + 1 : l[h] <= l[j]
    BY <1>5
  <2>3. /\ n \in Nat /\ n + 2 \in 1 .. N /\ i \in 1 .. N /\ h \in 1 .. N
        /\ n + 1 \in 0 .. N - 1 /\ (n + 1) + 1 = n + 2
        /\ i \in 1 .. n + 2 /\ h \in 1 .. n + 2 /\ n + 2 \in 1 .. n + 2
        /\ \A j \in 1 .. n + 2 : j = n + 2 \/ j \in 1 .. n + 1
    BY <1>1
  <2>4. l[i] \in Int /\ l[h] \in Int /\ l[n + 2] \in Int
    BY <1>3, <2>3
  <2>5. \E k \in 1 .. n + 2 : \A j \in 1 .. n + 2 : l[j] <= l[k]
    <3>1. CASE l[n + 2] <= l[i]
      <4>1. \A j \in 1 .. n + 2 : l[j] <= l[i]
        BY <2>1, <2>3, <3>1
      <4> QED BY <2>3, <4>1
    <3>2. CASE l[i] <= l[n + 2]
      <4>1. ASSUME NEW j \in 1 .. n + 2 PROVE l[j] <= l[n + 2]
        <5>1. CASE j = n + 2
          BY <2>4, <5>1
        <5>2. CASE j \in 1 .. n + 1
          <6>1. j \in 1 .. N
            BY <1>1, <2>3, <5>2
          <6> QED BY <1>3, <2>1, <2>4, <3>2, <5>2, <6>1
        <5> QED BY <2>3, <5>1, <5>2
      <4> QED BY <2>3, <4>1
    <3> QED BY <2>4, <3>1, <3>2
  <2>6. \E k \in 1 .. n + 2 : \A j \in 1 .. n + 2 : l[k] <= l[j]
    <3>1. CASE l[h] <= l[n + 2]
      <4>1. \A j \in 1 .. n + 2 : l[h] <= l[j]
        BY <2>2, <2>3, <3>1
      <4> QED BY <2>3, <4>1
    <3>2. CASE l[n + 2] <= l[h]
      <4>1. ASSUME NEW j \in 1 .. n + 2 PROVE l[n + 2] <= l[j]
        <5>1. CASE j = n + 2
          BY <2>4, <5>1
        <5>2. CASE j \in 1 .. n + 1
          <6>1. j \in 1 .. N
            BY <1>1, <2>3, <5>2
          <6> QED BY <1>3, <2>2, <2>4, <3>2, <5>2, <6>1
        <5> QED BY <2>3, <5>1, <5>2
      <4> QED BY <2>3, <4>1
    <3> QED BY <2>4, <3>1, <3>2
  <2> QED BY <2>3, <2>5, <2>6
<1>6. \A n \in 0 .. N - 1 : n \in Tops
  <2>1. Tops \in SUBSET (0 .. N - 1) /\ N - 1 \in Nat
    BY <1>1, <1>2
  <2> HIDE DEF Tops
  <2> QED BY <1>4, <1>5, <2>1, LoopInduction
<1>7. N - 1 \in 0 .. N - 1 /\ (N - 1) + 1 = N
  BY <1>1, <1>2
<1>8. PICK i \in 1 .. N : \A j \in 1 .. N : l[j] <= l[i]
  BY <1>6, <1>7
<1>9. PICK h \in 1 .. N : \A j \in 1 .. N : l[h] <= l[j]
  BY <1>6, <1>7
<1>10. l[i] \in S /\ \A y \in S : l[i] >= y
  BY <1>1, <1>3, <1>8
<1>11. l[h] \in S /\ \A y \in S : l[h] =< y
  BY <1>1, <1>3, <1>9
<1>12. Max(S) \in S /\ \A y \in S : Max(S) >= y
  BY <1>10, Zenon DEF Max
<1>13. Min(S) \in S /\ \A y \in S : Min(S) =< y
  BY <1>11, Zenon DEF Min
<1>14. \A y \in S : y <= Max(S)
  BY <1>12
<1> QED BY <1>12, <1>13, <1>14
=============================================================================
