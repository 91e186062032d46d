------------------------ MODULE PureFunctionsProofs -------------------------
(***************************************************************************)
(* The session arithmetic for every set of holidays, day and count, if a   *)
(* session always comes within the longest closure; the merge of providers *)
(* for every list of them, by what its loop keeps true after each          *)
(* provider; and, on the same calendars, what the market record promises   *)
(* of settlement dates and of the data gates (MarketRecord), by the prices *)
(* its rows came from.                                                     *)
(***************************************************************************)
EXTENDS MCPureFunctions, MarketRecord, AggregationProofs

LEMMA IsOpenDay ==
  \A H, d : Calendar(H)!IsTradingDay(d) <=> Weekday(d) \in TradingWeekdays /\ d \notin H
BY DEF Calendar!IsTradingDay, Calendar!Weekday, Calendar!TradingWeekdays, Weekday, TradingWeekdays

(* What LongestClosure says: a session starts within so many days of any.  *)
SessionsFollow(H) == \A d \in Int : \E s \in d + 1 .. d + LongestClosure : Calendar(H)!IsTradingDay(s)

(* The next session is the first trading day after a day.                  *)
IsNext(H, s, d) ==
  /\ s \in Int /\ d < s /\ Calendar(H)!IsTradingDay(s)
  /\ \A e \in Int : d < e /\ e < s => ~ Calendar(H)!IsTradingDay(e)

LEMMA NextSessionIs ==
  ASSUME NEW H, LongestClosure \in Nat, SessionsFollow(H), NEW d \in Int
  PROVE  IsNext(H, Calendar(H)!NextSession(d), d)
<1> DEFINE S == {s \in d + 1 .. d + LongestClosure : Calendar(H)!IsTradingDay(s)}
           First(s) == Calendar(H)!IsTradingDay(s) /\ \A e \in d + 1 .. s - 1 : ~ Calendar(H)!IsTradingDay(e)
<1>1. IsFiniteSet(S) /\ S # {} /\ S \in SUBSET Int
  <2>1. IsFiniteSet(d + 1 .. d + LongestClosure)
    BY FS_Interval
  <2>2. S \in SUBSET (d + 1 .. d + LongestClosure) /\ S \in SUBSET Int
    OBVIOUS
  <2>3. S # {}
    BY DEF SessionsFollow
  <2> HIDE DEF S
  <2> QED BY <2>1, <2>2, <2>3, FS_Subset
<1>2. PICK m \in S : \A y \in S : m <= y
  <2> HIDE DEF S
  <2> QED BY <1>1, FiniteExtremes
<1>3. m \in d + 1 .. d + LongestClosure /\ First(m)
  <2>1. ASSUME NEW e \in d + 1 .. m - 1, Calendar(H)!IsTradingDay(e) PROVE FALSE
    <3>1. e \in S
      BY <1>2, <2>1
    <3> QED BY <1>2, <3>1
  <2> QED BY <1>2, <2>1
<1>4. PICK s \in d + 1 .. d + LongestClosure : s = Calendar(H)!NextSession(d) /\ First(s)
  BY <1>3 DEF Calendar!NextSession
<1>5. IsNext(H, s, d)
  BY <1>4 DEF IsNext
<1> QED BY <1>4, <1>5

(* The session before the next one is the session one was at.              *)
LEMMA PreviousOfNext ==
  ASSUME NEW H, LongestClosure \in Nat, SessionsFollow(H), NEW d \in Int, Calendar(H)!IsTradingDay(d)
  PROVE  Calendar(H)!PreviousSession(Calendar(H)!NextSession(d)) = d
<1>1. PICK s \in Int : s = Calendar(H)!NextSession(d) /\ IsNext(H, s, d)
  BY NextSessionIs DEF IsNext
<1> DEFINE Latest(p) == Calendar(H)!IsTradingDay(p) /\ \A e \in p + 1 .. s - 1 : ~ Calendar(H)!IsTradingDay(e)
<1>2. d \in s - LongestClosure .. s - 1
  <2>1. PICK t \in d + 1 .. d + LongestClosure : Calendar(H)!IsTradingDay(t)
    BY DEF SessionsFollow
  <2>2. s <= t
    BY <1>1, <2>1 DEF IsNext
  <2> QED BY <1>1, <2>1, <2>2 DEF IsNext
<1>3. Latest(d)
  BY <1>1 DEF IsNext
<1>4. PICK p \in s - LongestClosure .. s - 1 : p = Calendar(H)!PreviousSession(s) /\ Latest(p)
  BY <1>2, <1>3 DEF Calendar!PreviousSession
<1>5. p = d
  BY <1>2, <1>3, <1>4
<1> QED BY <1>1, <1>4, <1>5

----------------------------------------------------------------------------
(* The loop of add_sessions, from the day the count begins at.             *)
Begin(H, d) == IF Calendar(H)!IsTradingDay(d) THEN d ELSE Calendar(H)!NextSession(d)

Advances(H, f, d, n) ==
  f \in [0 .. n -> Int] /\ f[0] = Begin(H, d) /\ \A k \in 1 .. n : f[k] = Calendar(H)!NextSession(f[k - 1])

LEMMA AddSessionsAdvances ==
  ASSUME NEW H, LongestClosure \in Nat, SessionsFollow(H), NEW d \in Int, NEW n \in Nat
  PROVE  \E f : Advances(H, f, d, n) /\ \A k \in 0 .. n : Calendar(H)!AddSessions(d, k) = f[k]
<1> DEFINE F == [x \in Int \X (1 .. n) |-> Calendar(H)!NextSession(x[1])]
<1>1. \A x \in Int : Calendar(H)!NextSession(x) \in Int
  BY NextSessionIs DEF IsNext
<1>2. Begin(H, d) \in Int /\ F \in [Int \X (1 .. n) -> Int]
  BY <1>1 DEF Begin
<1>3. PICK h : IsLoop(h, n, Int, Begin(H, d), F)
  <2> HIDE DEF F
  <2> QED BY <1>2, LoopExists
<1>4. Advances(H, h, d, n)
  <2>1. ASSUME NEW k \in 1 .. n PROVE h[k] = Calendar(H)!NextSession(h[k - 1])
    <3>1. h[k - 1] \in Int /\ h[k] = F[<<h[k - 1], k>>]
      <4>1. k - 1 \in 0 .. n
        OBVIOUS
      <4> HIDE DEF F
      <4> QED BY <1>3, <4>1 DEF IsLoop
    <3> QED BY <3>1
  <2> QED BY <1>3, <2>1 DEF IsLoop, Advances
<1>5. ASSUME NEW m \in 0 .. n PROVE Calendar(H)!AddSessions(d, m) = h[m]
  <2> DEFINE Body(f) == [k \in 0 .. m |-> IF k = 0 THEN Begin(H, d) ELSE Calendar(H)!NextSession(f[k - 1])]
             after == CHOOSE f : f = Body(f)
             g == [k \in 0 .. m |-> h[k]]
  <2>1. g = Body(g)
    <3>1. ASSUME NEW k \in 0 .. m
          PROVE  g[k] = IF k = 0 THEN Begin(H, d) ELSE Calendar(H)!NextSession(g[k - 1])
      <4>1. CASE k = 0
        BY <1>4, <4>1 DEF Advances
      <4>2. CASE k # 0
        <5>1. k \in 1 .. n /\ k - 1 \in 0 .. m
          BY <4>2
        <5>2. h[k] = Calendar(H)!NextSession(h[k - 1])
          BY <1>4, <5>1 DEF Advances
        <5> QED BY <4>2, <5>1, <5>2
      <4> QED BY <4>1, <4>2
    <3> QED BY <3>1
  <2>2. after = Body(after)
    <3> HIDE DEF Body, g
    <3> QED BY <2>1
  <2>3. ASSUME NEW k \in 0 .. m
        PROVE  after[k] = IF k = 0 THEN Begin(H, d) ELSE Calendar(H)!NextSession(after[k - 1])
    <3> HIDE DEF after
    <3> QED BY <2>2
  <2>4. Calendar(H)!AddSessions(d, m) = after[m]
    BY DEF Calendar!AddSessions, after, Begin
  <2> HIDE DEF after
  <2> DEFINE S == {k \in 0 .. m : after[k] = h[k]}
  <2>5. 0 \in S
    BY <1>4, <2>3 DEF Advances
  <2>6. ASSUME NEW k \in 0 .. m - 1, k \in S PROVE k + 1 \in S
    <3>1. k + 1 \in 0 .. m /\ k + 1 \in 1 .. n /\ k + 1 # 0 /\ (k + 1) - 1 = k
      OBVIOUS
    <3>2. after[k + 1] = Calendar(H)!NextSession(after[k])
      BY <2>3, <3>1
    <3>3. h[k + 1] = Calendar(H)!NextSession(h[k])
      BY <1>4, <3>1 DEF Advances
    <3> QED BY <2>6, <3>1, <3>2, <3>3
  <2>7. m \in S
    <3>1. S \in SUBSET (0 .. m)
      OBVIOUS
    <3> HIDE DEF S
    <3> QED BY <2>5, <2>6, <3>1, LoopInduction
  <2> QED BY <2>4, <2>7
<1> QED BY <1>4, <1>5

(* T+k: a trading day, with k of them before it from the first day on.     *)
IsAfter(H, s, d, k) ==
  /\ s \in Int /\ d <= s /\ Calendar(H)!IsTradingDay(s)
  /\ IsFiniteSet(Calendar(H)!TradingDaysIn(d, s - 1)) /\ Cardinality(Calendar(H)!TradingDaysIn(d, s - 1)) = k

LEMMA AddSessionsIs ==
  ASSUME NEW H, LongestClosure \in Nat, SessionsFollow(H), NEW d \in Int, NEW n \in Nat
  PROVE  /\ IsAfter(H, Calendar(H)!AddSessions(d, n), d, n)
         /\ n > 0 => Calendar(H)!AddSessions(d, n) = Calendar(H)!NextSession(Calendar(H)!AddSessions(d, n - 1))
                     /\ Calendar(H)!AddSessions(d, n - 1) \in Int /\ Calendar(H)!IsTradingDay(Calendar(H)!AddSessions(d, n - 1))
<1>1. PICK f : Advances(H, f, d, n) /\ \A k \in 0 .. n : Calendar(H)!AddSessions(d, k) = f[k]
  BY AddSessionsAdvances
<1> DEFINE S == {k \in 0 .. n : IsAfter(H, f[k], d, k)}
<1>2. 0 \in S
  <2>1. f[0] = Begin(H, d)
    BY <1>1 DEF Advances
  <2>2. Begin(H, d) \in Int /\ d <= Begin(H, d) /\ Calendar(H)!IsTradingDay(Begin(H, d))
    BY NextSessionIs DEF Begin, IsNext
  <2>3. Calendar(H)!TradingDaysIn(d, Begin(H, d) - 1) = {}
    <3>1. CASE Calendar(H)!IsTradingDay(d)
      BY <3>1 DEF Begin, Calendar!TradingDaysIn
    <3>2. CASE ~ Calendar(H)!IsTradingDay(d)
      <4>1. PICK s \in Int : s = Begin(H, d) /\ IsNext(H, s, d)
        BY <3>2, NextSessionIs DEF Begin, IsNext
      <4>2. ASSUME NEW e \in d .. s - 1 PROVE ~ Calendar(H)!IsTradingDay(e)
        <5>1. e = d \/ (d < e /\ e < s)
          BY <4>1
        <5> QED BY <3>2, <4>1, <5>1 DEF IsNext
      <4> QED BY <4>1, <4>2 DEF Calendar!TradingDaysIn
    <3> QED BY <3>1, <3>2
  <2> QED BY <2>1, <2>2, <2>3, FS_EmptySet DEF IsAfter
<1>3. ASSUME NEW k \in 0 .. n - 1, k \in S PROVE k + 1 \in S
  <2>1. k + 1 \in 1 .. n /\ (k + 1) - 1 = k /\ k + 1 \in 0 .. n
    OBVIOUS
  <2>2. PICK s \in Int : s = f[k] /\ IsAfter(H, s, d, k)
    BY <1>3 DEF IsAfter
  <2>3. f[k + 1] = Calendar(H)!NextSession(s)
    BY <1>1, <2>1, <2>2 DEF Advances
  <2>4. PICK t \in Int : t = f[k + 1] /\ IsNext(H, t, s)
    BY <2>3, NextSessionIs DEF IsNext
  <2>5. Calendar(H)!TradingDaysIn(d, t - 1) = Calendar(H)!TradingDaysIn(d, s - 1) \cup {s}
    <3>1. ASSUME NEW e \in d .. t - 1, Calendar(H)!IsTradingDay(e) PROVE e \in d .. s - 1 \/ e = s
      BY <2>2, <2>4, <3>1 DEF IsNext
    <3>2. s \in d .. t - 1 /\ Calendar(H)!IsTradingDay(s) /\ \A e \in d .. s - 1 : e \in d .. t - 1
      BY <2>2, <2>4 DEF IsNext, IsAfter
    <3> QED BY <3>1, <3>2 DEF Calendar!TradingDaysIn
  <2>6. s \notin Calendar(H)!TradingDaysIn(d, s - 1)
    BY <2>2 DEF Calendar!TradingDaysIn
  <2>7. /\ IsFiniteSet(Calendar(H)!TradingDaysIn(d, t - 1))
        /\ Cardinality(Calendar(H)!TradingDaysIn(d, t - 1)) = k + 1
    BY <2>2, <2>5, <2>6, FS_AddElement DEF IsAfter
  <2>8. d <= t /\ Calendar(H)!IsTradingDay(t)
    BY <2>2, <2>4 DEF IsNext, IsAfter
  <2>9. IsAfter(H, t, d, k + 1)
    BY <2>7, <2>8 DEF IsAfter
  <2> QED BY <2>1, <2>4, <2>9
<1>4. \A k \in 0 .. n : k \in S
  <2>1. S \in SUBSET (0 .. n)
    OBVIOUS
  <2> HIDE DEF S
  <2> QED BY <1>2, <1>3, <2>1, LoopInduction
<1>5. IsAfter(H, Calendar(H)!AddSessions(d, n), d, n)
  BY <1>1, <1>4
<1>6. ASSUME n > 0
      PROVE  /\ Calendar(H)!AddSessions(d, n) = Calendar(H)!NextSession(Calendar(H)!AddSessions(d, n - 1))
             /\ Calendar(H)!AddSessions(d, n - 1) \in Int /\ Calendar(H)!IsTradingDay(Calendar(H)!AddSessions(d, n - 1))
  <2>1. n \in 1 .. n /\ n - 1 \in 0 .. n /\ n \in 0 .. n
    BY <1>6
  <2>2. f[n] = Calendar(H)!NextSession(f[n - 1])
    BY <1>1, <2>1 DEF Advances
  <2>3. f[n - 1] \in Int /\ Calendar(H)!IsTradingDay(f[n - 1])
    BY <1>4, <2>1 DEF IsAfter
  <2> QED BY <1>1, <2>1, <2>2, <2>3
<1> QED BY <1>5, <1>6

----------------------------------------------------------------------------
(* The inputs of the session arithmetic.                                   *)
CalendarTypes ==
  holidays \in SUBSET Candidates /\ day \in FirstDay .. LastDay /\ count \in 0 .. MaxCount

LEMMA CalendarTypesHold == Spec => []CalendarTypes
<1>1. Init => CalendarTypes
  BY CountAssumption DEF Init, CalendarTypes
<1>2. CalendarTypes /\ [Next]_vars => CalendarTypes'
  <2> SUFFICES ASSUME CalendarTypes, [Next]_vars PROVE CalendarTypes'
    OBVIOUS
  <2>1. CASE Count
    BY <2>1, CountAssumption DEF Count, CalendarTypes
  <2>2. CASE Arrive
    BY <2>2 DEF Arrive, CalendarTypes
  <2>3. CASE Configure
    BY <2>3 DEF Configure, CalendarTypes
  <2>4. CASE UNCHANGED vars
    BY <2>4 DEF vars, CalendarTypes
  <2> QED BY <2>1, <2>2, <2>3, <2>4 DEF Next
<1> QED BY <1>1, <1>2, PTL DEF Spec

(* Where no holiday is near a weekend is no longer than three days.        *)
LEMMA SessionsComeBack ==
  ASSUME NEW H \in SUBSET Candidates
  PROVE  SessionsFollow(H)
<1> SUFFICES ASSUME NEW d \in Int PROVE \E s \in d + 1 .. d + LongestClosure : Calendar(H)!IsTradingDay(s)
  BY DEF SessionsFollow
<1>1. LongestClosure \in Nat /\ LongestClosure >= 3 /\ Candidates \subseteq Int
  BY ClosureAssumption
<1>2. CASE \E c \in Candidates : c \in d + 1 .. d + LongestClosure
  <2>1. PICK c \in Candidates : c \in d + 1 .. d + LongestClosure
    BY <1>2
  <2>2. d \in c - LongestClosure .. c - 1
    BY <1>1, <2>1
  <2>3. PICK s \in d + 1 .. d + LongestClosure : Calendar(Candidates)!IsTradingDay(s)
    BY <2>1, <2>2, ClosureAssumption
  <2> QED BY <1>1, <2>3, IsOpenDay
<1>3. CASE \A c \in Candidates : c \notin d + 1 .. d + LongestClosure
  <2>1. PICK s \in d + 1 .. d + 3 : Weekday(s) \in TradingWeekdays
    BY DEF Weekday, TradingWeekdays
  <2>2. s \in d + 1 .. d + LongestClosure
    BY <1>1, <2>1
  <2>3. Calendar(H)!IsTradingDay(s)
    BY <1>1, <1>3, <2>1, <2>2, IsOpenDay
  <2> QED BY <2>2, <2>3
<1> QED BY <1>2, <1>3

LEMMA WeekendIs ==
  ASSUME NEW d \in Int
  PROVE  Weekday(d) \in TradingWeekdays <=> Weekday(d) \notin {4, 5}
BY DEF Weekday, TradingWeekdays

(* The calendar of the run is one of them.                                 *)
LEMMA OwnCalendar ==
  /\ \A d : IsTradingDay(d) <=> Calendar(holidays)!IsTradingDay(d)
  /\ \A d, n : AddSessions(d, n) = Calendar(holidays)!AddSessions(d, n)
  /\ \A d : PreviousSession(d) = Calendar(holidays)!PreviousSession(d)
  /\ \A d, e : SessionsBetween(d, e) = Cardinality(Calendar(holidays)!TradingDaysIn(d, e - 1))
BY DEF IsTradingDay, Weekday, TradingWeekdays, NextSession, AddSessions, PreviousSession,
       SessionsBetween, TradingDaysIn,
       Calendar!IsTradingDay, Calendar!Weekday, Calendar!TradingWeekdays, Calendar!NextSession, Calendar!AddSessions,
       Calendar!PreviousSession, Calendar!TradingDaysIn

(* add_sessions(d, n) is the trading day with n trading days between it    *)
(* and the first on or after d, whatever the holidays.                     *)
THEOREM SettlesAfterNSessionsHolds == Spec => []SettlesAfterNSessions
<1>1. ASSUME CalendarTypes PROVE SettlesAfterNSessions
  <2>1. /\ day \in Int /\ count \in Nat /\ LongestClosure \in Nat /\ SessionsFollow(holidays)
        /\ holidays \in SUBSET Candidates
    BY <1>1, ClosureAssumption, SessionsComeBack DEF CalendarTypes
  <2>2. PICK s \in Int : s = AddSessions(day, count) /\ IsAfter(holidays, s, day, count)
    BY <2>1, AddSessionsIs, OwnCalendar DEF IsAfter
  <2>3. s >= day /\ Weekday(s) \notin {4, 5} /\ s \notin holidays
    BY <2>1, <2>2, WeekendIs, IsOpenDay DEF IsAfter
  <2>4. Calendar(holidays)!TradingDaysIn(day, s - 1)
          = {d \in day .. s - 1 : Weekday(d) \notin {4, 5} /\ d \notin holidays}
    <3>1. \A d \in day .. s - 1 :
            Calendar(holidays)!IsTradingDay(d) <=> (Weekday(d) \notin {4, 5} /\ d \notin holidays)
      BY <2>1, WeekendIs, IsOpenDay
    <3> QED BY <3>1 DEF Calendar!TradingDaysIn
  <2>5. Cardinality(Calendar(holidays)!TradingDaysIn(day, s - 1)) = count
    BY <2>2 DEF IsAfter
  <2> QED BY <2>2, <2>3, <2>4, <2>5 DEF SettlesAfterNSessions
<1> QED BY <1>1, CalendarTypesHold, PTL

(* sessions_between, add_sessions and previous_session agree.              *)
THEOREM CountUndoesAddHolds == Spec => []CountUndoesAdd
<1>1. ASSUME CalendarTypes PROVE CountUndoesAdd
  <2>1. day \in Int /\ count \in Nat /\ LongestClosure \in Nat /\ SessionsFollow(holidays)
    BY <1>1, ClosureAssumption, SessionsComeBack DEF CalendarTypes
  <2>2. SessionsBetween(day, AddSessions(day, count)) = count
    BY <2>1, AddSessionsIs, OwnCalendar DEF IsAfter
  <2>3. ASSUME count > 0
        PROVE  PreviousSession(AddSessions(day, count)) = AddSessions(day, count - 1)
    <3>1. PICK s \in Int : s = AddSessions(day, count - 1) /\ Calendar(holidays)!IsTradingDay(s)
      BY <2>1, <2>3, AddSessionsIs, OwnCalendar
    <3>2. AddSessions(day, count) = Calendar(holidays)!NextSession(s)
      BY <2>1, <2>3, <3>1, AddSessionsIs, OwnCalendar
    <3>3. Calendar(holidays)!PreviousSession(Calendar(holidays)!NextSession(s)) = s
      BY <2>1, <3>1, PreviousOfNext
    <3> QED BY <3>1, <3>2, <3>3, OwnCalendar
  <2> QED BY <2>2, <2>3 DEF CountUndoesAdd
<1> QED BY <1>1, CalendarTypesHold, PTL

----------------------------------------------------------------------------
(* The merge of the providers, for every list of them, whatever they       *)
(* answer.  merge_providers is a loop over the list.                       *)
IsMergeLoop(m, l) ==
  m[0] = Daily!NothingYet /\ \A n \in 1 .. Len(l) : m[n] = Daily!Merged(m[n - 1], l[n])

LEMMA MergeLoopExists ==
  ASSUME NEW l, NEW N \in Nat
  PROVE  \E m : m[0] = Daily!NothingYet /\ \A n \in 1 .. N : m[n] = Daily!Merged(m[n - 1], l[n])
<1> DEFINE Up(m, k) == m[0] = Daily!NothingYet /\ \A n \in 1 .. k : m[n] = Daily!Merged(m[n - 1], l[n])
           S == {k \in 0 .. N : \E m : Up(m, k)}
<1>1. 0 \in S
  <2>1. Up([n \in 0 .. 0 |-> Daily!NothingYet], 0)
    OBVIOUS
  <2>2. \E m : Up(m, 0)
    <3> HIDE DEF Up
    <3> QED BY <2>1
  <2> QED BY <2>2
<1>2. ASSUME NEW k \in 0 .. N - 1, k \in S PROVE k + 1 \in S
  <2>1. PICK m : Up(m, k)
    BY <1>2
  <2>2. PICK next : next = Daily!Merged(m[k], l[k + 1])
    OBVIOUS
  <2> DEFINE h == [n \in 0 .. k + 1 |-> IF n <= k THEN m[n] ELSE next]
  <2>3. h[0] = Daily!NothingYet
    BY <2>1
  <2>4. ASSUME NEW n \in 1 .. k + 1 PROVE h[n] = Daily!Merged(h[n - 1], l[n])
    <3>1. CASE n <= k
      <4>1. n \in 1 .. k /\ n - 1 \in 0 .. k
        BY <3>1
      <4>2. h[n] = m[n] /\ h[n - 1] = m[n - 1]
        BY <4>1
      <4> QED BY <2>1, <4>1, <4>2
    <3>2. CASE n = k + 1
      <4>1. h[k + 1] = next /\ h[k] = m[k] /\ (k + 1) - 1 = k
        OBVIOUS
      <4> QED BY <2>2, <3>2, <4>1
    <3> QED BY <3>1, <3>2
  <2>5. Up(h, k + 1) /\ k + 1 \in 0 .. N
    BY <2>3, <2>4
  <2> HIDE DEF Up, h
  <2> QED BY <2>5
<1>3. N \in S
  <2>1. S \in SUBSET (0 .. N)
    OBVIOUS
  <2> HIDE DEF S
  <2> QED BY <1>1, <1>2, <2>1, LoopInduction
<1> QED BY <1>3

LEMMA MergeIsLoop ==
  ASSUME NEW l, Len(l) \in Nat
  PROVE  \E m : IsMergeLoop(m, l) /\ Daily!Merge(l) = Daily!Ended(m[Len(l)])
<1> DEFINE Body(f) == [n \in 0 .. Len(l) |-> IF n = 0 THEN Daily!NothingYet
                                              ELSE Daily!Merged(f[n - 1], l[n])]
           upto == CHOOSE f : f = Body(f)
<1>1. PICK m : m[0] = Daily!NothingYet /\ \A n \in 1 .. Len(l) : m[n] = Daily!Merged(m[n - 1], l[n])
  BY MergeLoopExists
<1> DEFINE h == [n \in 0 .. Len(l) |-> m[n]]
<1>2. h = Body(h)
  <2>1. ASSUME NEW n \in 0 .. Len(l) PROVE h[n] = Body(h)[n]
    <3>1. n # 0 => n \in 1 .. Len(l) /\ n - 1 \in 0 .. Len(l)
      OBVIOUS
    <3> QED BY <1>1, <3>1
  <2> QED BY <2>1
<1>3. upto = Body(upto)
  <2> HIDE DEF Body, h
  <2> QED BY <1>2
<1>4. ASSUME NEW n \in 0 .. Len(l)
      PROVE  upto[n] = IF n = 0 THEN Daily!NothingYet ELSE Daily!Merged(upto[n - 1], l[n])
  <2> HIDE DEF upto
  <2> QED BY <1>3
<1> HIDE DEF upto
<1>5. IsMergeLoop(upto, l)
  BY <1>4 DEF IsMergeLoop
<1>6. Daily!Merge(l) = Daily!Ended(upto[Len(l)])
  BY DEF upto, Daily!Merge
<1> QED BY <1>5, <1>6

(* What the loop carries.                                                  *)
MergedOf(is, chosen, sources, contributions, failures) ==
  [is |-> is, chosen |-> chosen, sources |-> sources,
   contributions |-> contributions, failures |-> failures]

IsMerged(m) ==
  /\ m = MergedOf(m.is, m.chosen, m.sources, m.contributions, m.failures)
  /\ m.is \in {"merged", "broken"}

LEMMA AnswerIs ==
  ASSUME NEW p, p.name \in Names, p.busy \in Nat
  PROVE  /\ Daily!FetchDaily(p).is \in {"bars", "unavailable", "broken"}
         /\ Daily!FetchDaily(p).is # "bars" => Daily!DatesOf(Daily!FetchDaily(p)) = {}
         /\ SaysNothing(p) => Daily!FetchDaily(p).is = "unavailable"
<1>1. ASSUME NEW candles
      PROVE  /\ Daily!Feed!Bars(candles).is = "bars"
             /\ Daily!Feed!Unavailable.is = "unavailable" /\ Daily!Feed!Unavailable.candles = <<>>
             /\ Daily!Feed!Broken.is = "broken" /\ Daily!Feed!Broken.candles = <<>>
  BY DEF Daily!Feed!Bars, Daily!Feed!Unavailable, Daily!Feed!Broken
<1>2. ASSUME NEW chart
      PROVE  \/ \E candles : Daily!Parsed(p.name, chart) = Daily!Feed!Bars(candles)
             \/ Daily!Parsed(p.name, chart) = Daily!Feed!Unavailable
             \/ Daily!Parsed(p.name, chart) = Daily!Feed!Broken
  <2>1. CASE p.name = "yahoo"
    BY <2>1 DEF Daily!Parsed, Daily!Feed!FetchDaily
  <2>2. CASE p.name = "eodhd"
    BY <2>2 DEF Daily!Parsed, Daily!EodhdDaily
  <2>3. CASE p.name = "tradingview_csv"
    BY <2>3 DEF Daily!Parsed, Daily!CsvDaily
  <2> QED BY <2>1, <2>2, <2>3 DEF Names
<1>3. PICK f : f = Daily!FetchDaily(p)
  OBVIOUS
<1>4. \/ \E candles : f = Daily!Feed!Bars(candles)
      \/ f = Daily!Feed!Unavailable \/ f = Daily!Feed!Broken
  <2>1. PICK reply : reply = Daily!Get(p)
    OBVIOUS
  <2>2. CASE ~p.configured \/ reply.is = "refused"
    BY <1>3, <2>1, <2>2 DEF Daily!FetchDaily
  <2>3. CASE p.configured /\ reply.is = "garbled"
    BY <1>3, <2>1, <2>3 DEF Daily!FetchDaily
  <2>4. CASE ~(~p.configured \/ reply.is = "refused") /\ ~(p.configured /\ reply.is = "garbled")
    <3>1. f = Daily!Parsed(p.name, reply.rows)
      BY <1>3, <2>1, <2>4 DEF Daily!FetchDaily
    <3> QED BY <1>2, <3>1
  <2> QED BY <2>2, <2>3, <2>4
<1>5. f.is # "bars" => Daily!DatesOf(f) = {}
  <2>1. f.is # "bars" => f.candles = <<>>
    BY <1>1, <1>4
  <2>2. f.candles = <<>> => Daily!DatesOf(f) = {}
    BY DEF Daily!DatesOf, Daily!ToSet
  <2> QED BY <2>1, <2>2
<1>6. SaysNothing(p) => f.is = "unavailable"
  <2>1. p.busy > 3 => Daily!Get(p).is = "refused"
    BY DEF Daily!Get, Daily!Attempts, Daily!Refused
  <2>2. p.reply = Daily!Refused => Daily!Get(p).is = "refused"
    BY DEF Daily!Get, Daily!Refused
  <2>3. ~p.configured \/ Daily!Get(p).is = "refused" => f = Daily!Feed!Unavailable
    BY <1>3 DEF Daily!FetchDaily
  <2> QED BY <1>1, <2>1, <2>2, <2>3 DEF SaysNothing
<1>7. f.is \in {"bars", "unavailable", "broken"}
  BY <1>1, <1>4
<1> QED BY <1>3, <1>5, <1>6, <1>7

(* The three dictionaries with what a fetch adds to them.                  *)
New(chosen, f) == Daily!DatesOf(f) \ DOMAIN chosen

BarsOf(dates, f) == [d \in dates |-> CHOOSE c \in Daily!ToSet(f.candles) : c.date = d]
NameOf(dates, name)  == [d \in dates |-> name]
CountOf(dates, name) == [n \in IF dates = {} THEN {} ELSE {name} |-> Daily!Cardinality(dates)]

MergedIs(next, m, p, f) ==
  /\ IsMerged(next)
  /\ m.is = "broken" => next = m
  /\ m.is = "merged" /\ f.is = "broken" => next = MergedOf("broken", <<>>, <<>>, <<>>, {})
  /\ m.is = "merged" /\ f.is = "unavailable" =>
       next = MergedOf("merged", m.chosen, m.sources, m.contributions, m.failures \cup {p.name})
  /\ m.is = "merged" /\ f.is = "bars" =>
       next = MergedOf("merged", Daily!Updated(m.chosen, BarsOf(New(m.chosen, f), f)),
                       Daily!Updated(m.sources, NameOf(New(m.chosen, f), p.name)),
                       Daily!Updated(m.contributions, CountOf(New(m.chosen, f), p.name)),
                       m.failures)

LEMMA MergedOfIs ==
  ASSUME NEW is \in {"merged", "broken"}, NEW chosen, NEW sources, NEW contributions, NEW failures
  PROVE  IsMerged(MergedOf(is, chosen, sources, contributions, failures))
BY DEF IsMerged, MergedOf

LEMMA MergeStep ==
  ASSUME NEW m, IsMerged(m), NEW p, p.name \in Names, p.busy \in Nat
  PROVE  MergedIs(Daily!Merged(m, p), m, p, Daily!FetchDaily(p))
<1>1. PICK f : f = Daily!FetchDaily(p) /\ f.is \in {"bars", "unavailable", "broken"}
  BY AnswerIs
<1>2. PICK next : next = Daily!Merged(m, p)
  OBVIOUS
<1>3. PICK chosen, sources, contributions, failures :
        m = MergedOf(m.is, chosen, sources, contributions, failures) /\ m.is \in {"merged", "broken"}
        /\ chosen = m.chosen /\ sources = m.sources
        /\ contributions = m.contributions /\ failures = m.failures
  BY DEF IsMerged
<1>4. CASE m.is = "broken"
  <2>1. next = m
    BY <1>2, <1>4 DEF Daily!Merged
  <2> QED BY <1>1, <1>2, <1>4, <2>1 DEF MergedIs
<1>5. CASE m.is = "merged" /\ f.is = "broken"
  <2>1. next = [Daily!NothingYet EXCEPT !.is = "broken"]
    BY <1>1, <1>2, <1>5 DEF Daily!Merged
  <2>2. next = MergedOf("broken", <<>>, <<>>, <<>>, {})
    BY <2>1 DEF Daily!NothingYet, MergedOf
  <2>3. IsMerged(next)
    BY <2>2, MergedOfIs
  <2> QED BY <1>1, <1>2, <1>5, <2>2, <2>3 DEF MergedIs
<1>6. CASE m.is = "merged" /\ f.is = "unavailable"
  <2>1. next = Daily!Failed(m, p.name)
    BY <1>1, <1>2, <1>6 DEF Daily!Merged
  <2>2. next = MergedOf("merged", chosen, sources, contributions, failures \cup {p.name})
    BY <1>3, <1>6, <2>1 DEF Daily!Failed, MergedOf
  <2>3. IsMerged(next)
    BY <2>2, MergedOfIs
  <2> QED BY <1>1, <1>2, <1>3, <1>6, <2>2, <2>3 DEF MergedIs
<1>7. CASE m.is = "merged" /\ f.is = "bars"
  <2>1. next = Daily!Taken(m, p.name, f)
    BY <1>1, <1>2, <1>7 DEF Daily!Merged
  <2>2. New(chosen, f) = Daily!Added(m, f)
    BY <1>3 DEF Daily!Added, New
  <2>3. PICK c, s, k : /\ c = Daily!Updated(chosen, BarsOf(New(chosen, f), f))
                       /\ s = Daily!Updated(sources, NameOf(New(chosen, f), p.name))
                       /\ k = Daily!Updated(contributions, CountOf(New(chosen, f), p.name))
    OBVIOUS
  <2>4. next = [m EXCEPT !.chosen = c, !.sources = s, !.contributions = k]
    BY <1>3, <2>1, <2>2, <2>3, Zenon DEF Daily!Taken, BarsOf, NameOf, CountOf
  <2>5. next = MergedOf("merged", c, s, k, failures)
    BY <1>3, <1>7, <2>4 DEF MergedOf
  <2>6. IsMerged(next)
    BY <2>5, MergedOfIs
  <2> QED BY <1>1, <1>2, <1>3, <1>7, <2>3, <2>5, <2>6 DEF MergedIs
<1> QED BY <1>1, <1>3, <1>4, <1>5, <1>6, <1>7

LEMMA SameCardinality == ASSUME NEW S PROVE Daily!Cardinality(S) = Cardinality(S)
BY DEF Daily!Cardinality, Cardinality

LEMMA SameToSet == ASSUME NEW s PROVE Daily!ToSet(s) = ToSet(s)
BY DEF Daily!ToSet, ToSet

(* A list that configures no name twice, whatever its providers reply.     *)
Listed(l) ==
  /\ l \in Seq({l[i] : i \in DOMAIN l})
  /\ \A i \in DOMAIN l : l[i].name \in Names /\ l[i].busy \in Nat
  /\ \A i, j \in DOMAIN l : l[i].name = l[j].name => i = j

Dates(l, i)   == Daily!DatesOf(Daily!FetchDaily(l[i]))
Offered(l, n) == UNION {Dates(l, i) : i \in 1 .. n}
NewOf(l, i)   == Dates(l, i) \ Offered(l, i - 1)

(* d is of the provider at i, and of none before it.                       *)
OfferedFirst(l, i, d) == d \in Dates(l, i) /\ \A j \in 1 .. i - 1 : d \notin Dates(l, j)

(* What the loop has after the n first providers.                          *)
ByPriority(m, l, n) ==
  /\ DOMAIN m.chosen = Offered(l, n) /\ DOMAIN m.sources = Offered(l, n)
  /\ \A d \in Offered(l, n) : \E i \in 1 .. n :
       /\ OfferedFirst(l, i, d)
       /\ m.chosen[d] \in Daily!ToSet(Daily!FetchDaily(l[i]).candles) /\ m.sources[d] = l[i].name

Counts(m, l, n) ==
  /\ DOMAIN m.contributions = {l[i].name : i \in {j \in 1 .. n : NewOf(l, j) # {}}}
  /\ \A i \in 1 .. n : NewOf(l, i) # {} =>
       m.contributions[l[i].name] = Daily!Cardinality(NewOf(l, i))

NamesFailures(m, l, n) ==
  \A i \in 1 .. n : Daily!FetchDaily(l[i]).is = "unavailable" => l[i].name \in m.failures

Follows(m, l, n) ==
  /\ IsMerged(m)
  /\ m.is = "broken" <=> \E i \in 1 .. n : Daily!FetchDaily(l[i]).is = "broken"
  /\ m.is = "merged" => ByPriority(m, l, n) /\ Counts(m, l, n) /\ NamesFailures(m, l, n)

LEMMA ListedIs ==
  ASSUME NEW l, Listed(l), NEW i \in DOMAIN l
  PROVE  l[i].name \in Names /\ l[i].busy \in Nat
BY DEF Listed

LEMMA OfferedMore ==
  ASSUME NEW l, NEW n \in Nat
  PROVE  /\ Offered(l, n + 1) = Offered(l, n) \cup Dates(l, n + 1)
         /\ NewOf(l, n + 1) = Dates(l, n + 1) \ Offered(l, n)
         /\ Offered(l, 0) = {}
<1>1. 1 .. n + 1 = (1 .. n) \cup {n + 1} /\ (n + 1) - 1 = n /\ 1 .. 0 = {}
  OBVIOUS
<1>2. Offered(l, n + 1) = Offered(l, n) \cup Dates(l, n + 1)
  BY <1>1 DEF Offered
<1>3. NewOf(l, n + 1) = Dates(l, n + 1) \ Offered(l, n)
  BY <1>1 DEF NewOf
<1>4. Offered(l, 0) = {}
  BY <1>1 DEF Offered
<1> QED BY <1>2, <1>3, <1>4

LEMMA NothingFollows ==
  ASSUME NEW l
  PROVE  Follows(Daily!NothingYet, l, 0)
<1>1. Daily!NothingYet = MergedOf("merged", <<>>, <<>>, <<>>, {})
  BY DEF Daily!NothingYet, MergedOf
<1>2. PICK m : m = Daily!NothingYet
  OBVIOUS
<1>3. /\ m.is = "merged" /\ m.chosen = <<>> /\ m.sources = <<>> /\ m.contributions = <<>>
      /\ IsMerged(m)
  <2>1. IsMerged(m)
    BY <1>1, <1>2, MergedOfIs
  <2> QED BY <1>1, <1>2, <2>1 DEF MergedOf
<1>4. Offered(l, 0) = {} /\ 1 .. 0 = {} /\ DOMAIN <<>> = {}
  BY OfferedMore
<1>5. ByPriority(m, l, 0)
  BY <1>3, <1>4 DEF ByPriority
<1>6. Counts(m, l, 0)
  <2>1. {l[i].name : i \in {j \in 1 .. 0 : NewOf(l, j) # {}}} = {}
    BY <1>4
  <2> QED BY <1>3, <1>4, <2>1 DEF Counts
<1>7. NamesFailures(m, l, 0)
  BY <1>4 DEF NamesFailures
<1>8. "merged" # "broken"
  OBVIOUS
<1> QED BY <1>2, <1>3, <1>4, <1>5, <1>6, <1>7, <1>8 DEF Follows

(* A fetch without bars only adds its provider to the failures.            *)
LEMMA FailureFollows ==
  ASSUME NEW l, NEW n \in Nat, NEW m, ByPriority(m, l, n), Counts(m, l, n), NamesFailures(m, l, n),
         Dates(l, n + 1) = {},
         NEW next, next.chosen = m.chosen, next.sources = m.sources,
         next.contributions = m.contributions, next.failures = m.failures \cup {l[n + 1].name}
  PROVE  ByPriority(next, l, n + 1) /\ Counts(next, l, n + 1) /\ NamesFailures(next, l, n + 1)
<1>1. Offered(l, n + 1) = Offered(l, n) /\ NewOf(l, n + 1) = {}
  <2>1. /\ Offered(l, n + 1) = Offered(l, n) \cup Dates(l, n + 1)
        /\ NewOf(l, n + 1) = Dates(l, n + 1) \ Offered(l, n)
    BY OfferedMore, Zenon
  <2> QED BY <2>1
<1>2. /\ 1 .. n + 1 = (1 .. n) \cup {n + 1}
      /\ \A i \in 1 .. n + 1 : NewOf(l, i) # {} => i \in 1 .. n
  BY <1>1
<1>3. ByPriority(next, l, n + 1)
  BY <1>1, <1>2 DEF ByPriority
<1>4. {j \in 1 .. n + 1 : NewOf(l, j) # {}} = {j \in 1 .. n : NewOf(l, j) # {}}
  BY <1>2
<1>5. Counts(next, l, n + 1)
  BY <1>2, <1>4, Zenon DEF Counts
<1>6. NamesFailures(next, l, n + 1)
  BY <1>2 DEF NamesFailures
<1> QED BY <1>3, <1>5, <1>6

IsUpdated(updated, dict, more) ==
  /\ DOMAIN updated = DOMAIN dict \cup DOMAIN more
  /\ \A k \in DOMAIN more : updated[k] = more[k]
  /\ \A k \in DOMAIN dict \ DOMAIN more : updated[k] = dict[k]

LEMMA UpdatedIs ==
  ASSUME NEW dict, NEW more
  PROVE  IsUpdated(Daily!Updated(dict, more), dict, more)
BY DEF Daily!Updated, IsUpdated

(* Bars fill the dates nobody had, and are counted.                        *)
LEMMA BarsFollow ==
  ASSUME NEW l, Listed(l), NEW n \in 0 .. Len(l) - 1,
         NEW m, ByPriority(m, l, n), Counts(m, l, n), NamesFailures(m, l, n),
         Daily!FetchDaily(l[n + 1]).is = "bars",
         NEW next, next.chosen = Daily!Updated(m.chosen,
                                   BarsOf(New(m.chosen, Daily!FetchDaily(l[n + 1])),
                                          Daily!FetchDaily(l[n + 1]))),
         next.sources = Daily!Updated(m.sources,
                          NameOf(New(m.chosen, Daily!FetchDaily(l[n + 1])), l[n + 1].name)),
         next.contributions = Daily!Updated(m.contributions,
                                CountOf(New(m.chosen, Daily!FetchDaily(l[n + 1])), l[n + 1].name)),
         next.failures = m.failures
  PROVE  ByPriority(next, l, n + 1) /\ Counts(next, l, n + 1) /\ NamesFailures(next, l, n + 1)
<1>0. n \in Nat /\ 1 .. n + 1 = (1 .. n) \cup {n + 1} /\ n + 1 \in DOMAIN l /\ (n + 1) - 1 = n
      /\ 1 .. n + 1 \subseteq DOMAIN l /\ n + 1 \notin 1 .. n
  BY DEF Listed
<1>1. PICK f, name : f = Daily!FetchDaily(l[n + 1]) /\ name = l[n + 1].name
  OBVIOUS
<1>2. PICK new : new = New(m.chosen, f)
  OBVIOUS
<1>3. new = NewOf(l, n + 1) /\ Offered(l, n + 1) = Offered(l, n) \cup new /\ new \subseteq Dates(l, n + 1)
  <2>1. /\ Offered(l, n + 1) = Offered(l, n) \cup Dates(l, n + 1)
        /\ NewOf(l, n + 1) = Dates(l, n + 1) \ Offered(l, n)
    BY <1>0, OfferedMore, Zenon
  <2>2. DOMAIN m.chosen = Offered(l, n)
    BY DEF ByPriority
  <2>3. new = Dates(l, n + 1) \ Offered(l, n)
    BY <1>1, <1>2, <2>2 DEF New, Dates
  <2> QED BY <2>1, <2>3
<1>4. \A d \in new : OfferedFirst(l, n + 1, d)
  <2>1. ASSUME NEW d \in new, NEW j \in 1 .. n, d \in Dates(l, j) PROVE FALSE
    BY <1>0, <1>3, <2>1 DEF NewOf, Offered
  <2> QED BY <1>0, <1>3, <2>1 DEF OfferedFirst
<1>5. /\ DOMAIN next.chosen = Offered(l, n + 1) /\ DOMAIN next.sources = Offered(l, n + 1)
      /\ \A d \in new : /\ next.chosen[d] = CHOOSE c \in Daily!ToSet(f.candles) : c.date = d
                        /\ next.sources[d] = name
      /\ \A d \in Offered(l, n) \ new : next.chosen[d] = m.chosen[d] /\ next.sources[d] = m.sources[d]
  <2>1. PICK bars, names : bars = BarsOf(new, f) /\ names = NameOf(new, name)
    OBVIOUS
  <2>2. /\ DOMAIN bars = new /\ \A d \in new : bars[d] = CHOOSE c \in Daily!ToSet(f.candles) : c.date = d
        /\ DOMAIN names = new /\ \A d \in new : names[d] = name
    BY <2>1 DEF BarsOf, NameOf
  <2>3. next.chosen = Daily!Updated(m.chosen, bars) /\ next.sources = Daily!Updated(m.sources, names)
    BY <1>1, <1>2, <2>1
  <2>4. DOMAIN m.chosen = Offered(l, n) /\ DOMAIN m.sources = Offered(l, n)
    BY DEF ByPriority
  <2>5. IsUpdated(next.chosen, m.chosen, bars) /\ IsUpdated(next.sources, m.sources, names)
    BY <2>3, UpdatedIs
  <2> QED BY <1>3, <2>2, <2>4, <2>5 DEF IsUpdated
<1>6. ByPriority(next, l, n + 1)
  <2>1. ASSUME NEW d \in Offered(l, n + 1)
        PROVE  \E i \in 1 .. n + 1 :
                 /\ OfferedFirst(l, i, d)
                 /\ next.chosen[d] \in Daily!ToSet(Daily!FetchDaily(l[i]).candles)
                 /\ next.sources[d] = l[i].name
    <3>1. CASE d \in new
      <4>1. \E c \in Daily!ToSet(f.candles) : c.date = d
        BY <1>1, <1>3, <3>1 DEF Dates, Daily!DatesOf
      <4>2. next.chosen[d] \in Daily!ToSet(f.candles) /\ next.sources[d] = name
        BY <1>5, <3>1, <4>1
      <4>3. n + 1 \in 1 .. n + 1
        BY <1>0
      <4> QED BY <1>1, <1>4, <3>1, <4>2, <4>3
    <3>2. CASE d \notin new
      <4>1. d \in Offered(l, n) \ new
        BY <1>3, <3>2
      <4>2. PICK i \in 1 .. n : /\ OfferedFirst(l, i, d)
                                /\ m.chosen[d] \in Daily!ToSet(Daily!FetchDaily(l[i]).candles)
                                /\ m.sources[d] = l[i].name
        BY <4>1 DEF ByPriority
      <4>3. i \in 1 .. n + 1
        BY <1>0
      <4> QED BY <1>5, <4>1, <4>2, <4>3
    <3> QED BY <3>1, <3>2
  <2> QED BY <1>5, <2>1 DEF ByPriority
<1>7. Counts(next, l, n + 1)
  <2>1. PICK counts : counts = CountOf(new, name)
    OBVIOUS
  <2>2. IsUpdated(next.contributions, m.contributions, counts)
    <3>1. next.contributions = Daily!Updated(m.contributions, counts)
      BY <1>1, <1>2, <2>1
    <3> QED BY <3>1, UpdatedIs
  <2>3. CASE new = {}
    <3>1. DOMAIN counts = {}
      BY <2>1, <2>3 DEF CountOf
    <3>2. /\ DOMAIN next.contributions = DOMAIN m.contributions
          /\ \A k \in DOMAIN m.contributions : next.contributions[k] = m.contributions[k]
      BY <2>2, <3>1 DEF IsUpdated
    <3>3. {j \in 1 .. n + 1 : NewOf(l, j) # {}} = {j \in 1 .. n : NewOf(l, j) # {}}
      BY <1>0, <1>3, <2>3
    <3>4. ASSUME NEW i \in 1 .. n + 1, NewOf(l, i) # {}
          PROVE  next.contributions[l[i].name] = Daily!Cardinality(NewOf(l, i))
      <4>1. i \in 1 .. n
        BY <1>0, <1>3, <2>3, <3>4
      <4>2. l[i].name \in DOMAIN m.contributions
        BY <3>4, <4>1 DEF Counts
      <4> QED BY <3>2, <3>4, <4>1, <4>2 DEF Counts
    <3> QED BY <3>2, <3>3, <3>4, Zenon DEF Counts
  <2>4. CASE new # {}
    <3>1. DOMAIN counts = {name} /\ counts[name] = Daily!Cardinality(new)
      BY <2>1, <2>4 DEF CountOf
    <3>2. /\ DOMAIN next.contributions = DOMAIN m.contributions \cup {name}
          /\ next.contributions[name] = Daily!Cardinality(new)
          /\ \A k \in DOMAIN m.contributions \ {name} : next.contributions[k] = m.contributions[k]
      BY <2>2, <3>1 DEF IsUpdated
    <3>3. {j \in 1 .. n + 1 : NewOf(l, j) # {}} = {j \in 1 .. n : NewOf(l, j) # {}} \cup {n + 1}
      BY <1>0, <1>3, <2>4
    <3>4. DOMAIN next.contributions = {l[i].name : i \in {j \in 1 .. n + 1 : NewOf(l, j) # {}}}
      BY <1>1, <3>2, <3>3 DEF Counts
    <3>5. ASSUME NEW i \in 1 .. n + 1, NewOf(l, i) # {}
          PROVE  next.contributions[l[i].name] = Daily!Cardinality(NewOf(l, i))
      <4>1. CASE i = n + 1
        BY <1>1, <1>3, <3>2, <4>1
      <4>2. CASE i \in 1 .. n
        <5>1. i \in DOMAIN l /\ i # n + 1
          BY <1>0, <4>2
        <5>2. l[i].name # name
          BY <1>0, <1>1, <5>1 DEF Listed
        <5>3. l[i].name \in DOMAIN m.contributions
          BY <3>5, <4>2 DEF Counts
        <5>4. m.contributions[l[i].name] = Daily!Cardinality(NewOf(l, i))
          BY <3>5, <4>2 DEF Counts
        <5> QED BY <3>2, <5>2, <5>3, <5>4
      <4> QED BY <1>0, <4>1, <4>2
    <3> QED BY <3>4, <3>5 DEF Counts
  <2> QED BY <2>3, <2>4
<1>8. NamesFailures(next, l, n + 1)
  <2>1. Daily!FetchDaily(l[n + 1]).is # "unavailable"
    OBVIOUS
  <2> QED BY <1>0, <2>1 DEF NamesFailures
<1> QED BY <1>6, <1>7, <1>8

LEMMA FollowsStep ==
  ASSUME NEW l, Listed(l), NEW n \in 0 .. Len(l) - 1, NEW m, Follows(m, l, n)
  PROVE  Follows(Daily!Merged(m, l[n + 1]), l, n + 1)
<1>0. n \in Nat /\ n + 1 \in DOMAIN l /\ 1 .. n + 1 = (1 .. n) \cup {n + 1}
  BY DEF Listed
<1>1. PICK p, f, next : p = l[n + 1] /\ f = Daily!FetchDaily(p) /\ next = Daily!Merged(m, p)
  OBVIOUS
<1>2. p.name \in Names /\ p.busy \in Nat
  BY <1>0, <1>1, ListedIs
<1>3. /\ f.is \in {"bars", "unavailable", "broken"}
      /\ f.is # "bars" => Dates(l, n + 1) = {}
  BY <1>1, <1>2, AnswerIs DEF Dates
<1>4. IsMerged(m) /\ m.is \in {"merged", "broken"}
  BY DEF Follows, IsMerged
<1>5. MergedIs(next, m, p, f)
  BY <1>1, <1>2, <1>4, MergeStep
<1>6. IsMerged(next)
  BY <1>5 DEF MergedIs
<1>7. (\E i \in 1 .. n + 1 : Daily!FetchDaily(l[i]).is = "broken")
        <=> (m.is = "broken" \/ f.is = "broken")
  BY <1>0, <1>1 DEF Follows
<1>8. CASE m.is = "broken"
  BY <1>1, <1>5, <1>6, <1>7, <1>8 DEF Follows, MergedIs
<1>9. CASE m.is = "merged" /\ f.is = "broken"
  <2>1. next.is = "broken"
    BY <1>5, <1>9 DEF MergedIs, MergedOf
  <2> QED BY <1>1, <1>6, <1>7, <1>9, <2>1 DEF Follows
<1>10. CASE m.is = "merged" /\ f.is = "unavailable"
  <2>1. next = MergedOf("merged", m.chosen, m.sources, m.contributions, m.failures \cup {p.name})
    BY <1>5, <1>10 DEF MergedIs
  <2>2. /\ next.is = "merged" /\ next.chosen = m.chosen /\ next.sources = m.sources
        /\ next.contributions = m.contributions /\ next.failures = m.failures \cup {p.name}
    BY <2>1 DEF MergedOf
  <2>3. ByPriority(m, l, n) /\ Counts(m, l, n) /\ NamesFailures(m, l, n)
    BY <1>10 DEF Follows
  <2>4. ByPriority(next, l, n + 1) /\ Counts(next, l, n + 1) /\ NamesFailures(next, l, n + 1)
    BY <1>0, <1>1, <1>3, <1>10, <2>2, <2>3, FailureFollows
  <2> QED BY <1>1, <1>6, <1>7, <1>10, <2>2, <2>4 DEF Follows
<1>11. CASE m.is = "merged" /\ f.is = "bars"
  <2>1. next = MergedOf("merged", Daily!Updated(m.chosen, BarsOf(New(m.chosen, f), f)),
                        Daily!Updated(m.sources, NameOf(New(m.chosen, f), p.name)),
                        Daily!Updated(m.contributions, CountOf(New(m.chosen, f), p.name)),
                        m.failures)
    BY <1>5, <1>11 DEF MergedIs
  <2>2. /\ next.is = "merged" /\ next.chosen = Daily!Updated(m.chosen, BarsOf(New(m.chosen, f), f))
        /\ next.sources = Daily!Updated(m.sources, NameOf(New(m.chosen, f), p.name))
        /\ next.contributions = Daily!Updated(m.contributions, CountOf(New(m.chosen, f), p.name))
        /\ next.failures = m.failures
    BY <2>1 DEF MergedOf
  <2>3. ByPriority(m, l, n) /\ Counts(m, l, n) /\ NamesFailures(m, l, n)
    BY <1>11 DEF Follows
  <2>4. ByPriority(next, l, n + 1) /\ Counts(next, l, n + 1) /\ NamesFailures(next, l, n + 1)
    BY <1>1, <1>11, <2>2, <2>3, BarsFollow
  <2> QED BY <1>1, <1>6, <1>7, <1>11, <2>2, <2>4 DEF Follows
<1> QED BY <1>3, <1>4, <1>8, <1>9, <1>10, <1>11

LEMMA LoopFollows ==
  ASSUME NEW l, Listed(l), NEW m, IsMergeLoop(m, l)
  PROVE  \A n \in 0 .. Len(l) : Follows(m[n], l, n)
<1>1. PICK N \in Nat : N = Len(l)
  BY DEF Listed
<1> DEFINE S == {n \in 0 .. N : Follows(m[n], l, n)}
<1>2. 0 \in S
  BY NothingFollows DEF IsMergeLoop
<1>3. ASSUME NEW n \in 0 .. N - 1, n \in S PROVE n + 1 \in S
  <2>1. n + 1 \in 1 .. N /\ (n + 1) - 1 = n
    OBVIOUS
  <2>2. m[n + 1] = Daily!Merged(m[n], l[n + 1])
    BY <1>1, <2>1 DEF IsMergeLoop
  <2>3. Follows(m[n + 1], l, n + 1)
    BY <1>1, <1>3, <2>2, FollowsStep
  <2> QED BY <2>1, <2>3
<1>4. \A n \in 0 .. N : n \in S
  <2>1. S \in SUBSET (0 .. N)
    OBVIOUS
  <2> HIDE DEF S
  <2> QED BY <1>2, <1>3, <2>1, LoopInduction
<1> QED BY <1>1, <1>4

LEMMA MergeFollows ==
  ASSUME NEW l, Listed(l)
  PROVE  \E m : Follows(m, l, Len(l)) /\ Daily!Merge(l) = Daily!Ended(m)
<1>1. PICK N \in Nat : N = Len(l)
  BY DEF Listed
<1>2. PICK m : IsMergeLoop(m, l) /\ Daily!Merge(l) = Daily!Ended(m[N])
  BY <1>1, MergeIsLoop
<1> QED BY <1>1, <1>2, LoopFollows

(* The list always is one of named providers, each configured once.        *)
AnyReply    == UNION {Replies(name) \cup {Usual(name)} : name \in Names}
AnyProvider == [name : Names, configured : BOOLEAN, busy : Nat, reply : AnyReply]

Configured(l) ==
  /\ l \in Seq(AnyProvider)
  /\ \A i, j \in DOMAIN l : l[i].name = l[j].name => i = j

LEMMA ConfiguredIsListed ==
  ASSUME NEW l, Configured(l)
  PROVE  Listed(l)
<1> DEFINE Entries == {l[i] : i \in DOMAIN l}
<1>1. l \in Seq(AnyProvider) /\ Len(l) \in Nat /\ DOMAIN l = 1 .. Len(l)
  BY DEF Configured
<1>2. l \in [1 .. Len(l) -> Entries]
  BY <1>1
<1>3. l \in Seq(Entries)
  <2> HIDE DEF Entries
  <2> QED BY <1>1, <1>2
<1>4. ASSUME NEW i \in DOMAIN l PROVE l[i].name \in Names /\ l[i].busy \in Nat
  <2>1. l[i] \in AnyProvider
    BY <1>1
  <2> QED BY <2>1 DEF AnyProvider
<1> QED BY <1>3, <1>4 DEF Listed, Configured

LEMMA ProvidersListed == Spec => []Listed(providers)
<1>1. Init => Configured(providers)
  BY DEF Init, Configured
<1>2. Configured(providers) /\ [Next]_vars => Configured(providers)'
  <2> SUFFICES ASSUME Configured(providers), [Next]_vars PROVE Configured(providers')
    BY DEF Configured
  <2>1. CASE providers' = providers
    BY <2>1
  <2>2. CASE Configure
    <3>0. PICK name \in Names : \E p \in ProvidersOf(name) :
            providers' = Append(providers, p) /\ \A i \in DOMAIN providers : providers[i].name # name
      BY <2>2 DEF Configure
    <3>1. PICK p \in ProvidersOf(name) :
            providers' = Append(providers, p) /\ \A i \in DOMAIN providers : providers[i].name # name
      BY <3>0
    <3>2. p.name = name /\ p \in AnyProvider
      <4>1. \E configured \in BOOLEAN, busy \in Nat, reply \in Replies(name) \cup {Usual(name)} :
              p = Provider(name, configured, busy, reply)
        BY <3>1 DEF ProvidersOf
      <4>2. \A reply \in Replies(name) \cup {Usual(name)} : reply \in AnyReply
        BY <3>0 DEF AnyReply
      <4> QED BY <3>0, <4>1, <4>2 DEF AnyProvider, Provider
    <3>3. /\ providers \in Seq(AnyProvider)
          /\ \A i, j \in DOMAIN providers : providers[i].name = providers[j].name => i = j
      BY DEF Configured
    <3>4. PICK l, next : l = providers /\ next = providers'
      OBVIOUS
    <3>5. /\ next \in Seq(AnyProvider) /\ Len(next) = Len(l) + 1 /\ DOMAIN next = 1 .. Len(l) + 1
          /\ DOMAIN l = 1 .. Len(l) /\ Len(l) \in Nat
          /\ next[Len(l) + 1] = p /\ \A i \in 1 .. Len(l) : next[i] = l[i]
      BY <3>1, <3>2, <3>3, <3>4
    <3>6. ASSUME NEW i \in DOMAIN next, NEW j \in DOMAIN next, next[i].name = next[j].name PROVE i = j
      <4>1. \A k \in DOMAIN next : k \in DOMAIN l \/ k = Len(l) + 1
        BY <3>5
      <4>2. \A k \in DOMAIN l : next[k] = l[k] /\ l[k].name # name
        BY <3>1, <3>4, <3>5
      <4> QED BY <3>2, <3>3, <3>4, <3>5, <3>6, <4>1, <4>2
    <3> QED BY <3>4, <3>5, <3>6 DEF Configured
  <2> QED BY <2>1, <2>2 DEF Next, Count, Arrive, vars
<1>3. Configured(providers) => Listed(providers)
  BY ConfiguredIsListed
<1> QED BY <1>1, <1>2, <1>3, PTL DEF Spec

(* What a provider without bars has of them.                               *)
LEMMA OfferedIs ==
  ASSUME NEW l, Listed(l)
  PROVE  Offered(l, Len(l))
           = UNION {Daily!DatesOf(Daily!FetchDaily(l[i])) :
                      i \in {j \in DOMAIN l : Daily!FetchDaily(l[j]).is = "bars"}}
<1>1. DOMAIN l = 1 .. Len(l)
  BY DEF Listed
<1>2. ASSUME NEW i \in DOMAIN l, NEW d \in Dates(l, i) PROVE Daily!FetchDaily(l[i]).is = "bars"
  BY ListedIs, AnswerIs, <1>2 DEF Dates
<1> QED BY <1>1, <1>2 DEF Offered, Dates

(* The end of the loop names the case of an empty series.                  *)
LEMMA EndedIs ==
  ASSUME NEW m, IsMerged(m)
  PROVE  /\ Daily!Ended(m).chosen = m.chosen /\ Daily!Ended(m).sources = m.sources
         /\ Daily!Ended(m).contributions = m.contributions
         /\ Daily!Ended(m).failures = m.failures
         /\ Daily!Ended(m).is \in {"merged", "unavailable", "broken"}
         /\ Daily!Ended(m).is = "merged" <=> m.is = "merged" /\ DOMAIN m.chosen # {}
         /\ Daily!Ended(m).is = "unavailable" <=> m.is = "merged" /\ DOMAIN m.chosen = {}
         /\ Daily!Ended(m).is = "broken" <=> m.is = "broken"
<1>1. PICK is, chosen, sources, contributions, failures :
        m = MergedOf(is, chosen, sources, contributions, failures) /\ is \in {"merged", "broken"}
        /\ is = m.is /\ chosen = m.chosen
  BY DEF IsMerged
<1>2. PICK e : e = Daily!Ended(m)
  OBVIOUS
<1>3. CASE is = "merged" /\ DOMAIN chosen = {}
  <2>1. e = MergedOf("unavailable", chosen, sources, contributions, failures)
    BY <1>1, <1>2, <1>3 DEF Daily!Ended, MergedOf
  <2> QED BY <1>1, <1>2, <1>3, <2>1 DEF MergedOf
<1>4. CASE ~(is = "merged" /\ DOMAIN chosen = {})
  <2>1. e = m
    BY <1>1, <1>2, <1>4 DEF Daily!Ended
  <2> QED BY <1>1, <1>2, <1>4, <2>1
<1> QED BY <1>3, <1>4

(* A merged series has the bars of the first provider of each date, and    *)
(* names it (merge_providers): for every list of providers, of any length. *)
THEOREM MergeIsByPriorityHolds == Spec => []MergeIsByPriority
<1>1. Listed(providers) => MergeIsByPriority
  <2> SUFFICES ASSUME Listed(providers), Result.is = "merged"
               PROVE  /\ DOMAIN Result.chosen
                           = UNION {Daily!DatesOf(Answer(i)) :
                                      i \in {i \in DOMAIN providers : Answer(i).is = "bars"}}
                      /\ DOMAIN Result.sources = DOMAIN Result.chosen
                      /\ \A d \in DOMAIN Result.chosen : \E i \in DOMAIN providers :
                           /\ Offers(i, d) /\ \A j \in 1 .. i - 1 : ~Offers(j, d)
                           /\ Result.chosen[d] \in ToSet(Answer(i).candles)
                           /\ Result.sources[d] = providers[i].name
    BY DEF MergeIsByPriority
  <2>1. PICK l, r : l = providers /\ r = Result
    OBVIOUS
  <2>2. PICK m : Follows(m, l, Len(l)) /\ r = Daily!Ended(m)
    BY <2>1, MergeFollows DEF Result
  <2>3. IsMerged(m)
    BY <2>2 DEF Follows
  <2>4. r.is = "merged" /\ r.chosen = m.chosen /\ r.sources = m.sources /\ m.is = "merged"
    BY <2>1, <2>2, <2>3, EndedIs
  <2>5. ByPriority(m, l, Len(l))
    BY <2>2, <2>4 DEF Follows
  <2>6. Listed(l) /\ DOMAIN l = 1 .. Len(l) /\ Len(l) \in Nat
    BY <2>1 DEF Listed
  <2>7. DOMAIN r.chosen = Offered(l, Len(l)) /\ DOMAIN r.sources = Offered(l, Len(l))
    BY <2>4, <2>5 DEF ByPriority
  <2>8. ASSUME NEW i \in DOMAIN l, NEW d PROVE d \in Dates(l, i) <=> Offers(i, d)
    <3>1. d \in Dates(l, i) => Daily!FetchDaily(l[i]).is = "bars"
      BY <2>6, ListedIs, AnswerIs DEF Dates
    <3> QED BY <2>1, <3>1 DEF Dates, Offers, Answer
  <2>9. DOMAIN r.chosen
          = UNION {Daily!DatesOf(Answer(i)) : i \in {i \in DOMAIN l : Answer(i).is = "bars"}}
    BY <2>1, <2>6, <2>7, OfferedIs DEF Answer
  <2>10. ASSUME NEW d \in DOMAIN r.chosen
         PROVE  \E i \in DOMAIN l :
                  /\ Offers(i, d) /\ \A j \in 1 .. i - 1 : ~Offers(j, d)
                  /\ r.chosen[d] \in ToSet(Answer(i).candles) /\ r.sources[d] = l[i].name
    <3>1. PICK i \in 1 .. Len(l) :
            /\ OfferedFirst(l, i, d)
            /\ m.chosen[d] \in Daily!ToSet(Daily!FetchDaily(l[i]).candles)
            /\ m.sources[d] = l[i].name
      BY <2>5, <2>7 DEF ByPriority
    <3>2. Offers(i, d)
      BY <2>6, <2>8, <3>1 DEF OfferedFirst
    <3>3. ASSUME NEW j \in 1 .. i - 1 PROVE ~Offers(j, d)
      <4>1. j \in DOMAIN l
        BY <2>6
      <4> QED BY <2>8, <3>1, <4>1 DEF OfferedFirst
    <3>4. r.chosen[d] \in ToSet(Answer(i).candles)
      <4>1. m.chosen[d] \in ToSet(Daily!FetchDaily(l[i]).candles)
        BY <3>1, SameToSet
      <4> QED BY <2>1, <2>4, <4>1 DEF Answer
    <3> QED BY <2>4, <2>6, <3>1, <3>2, <3>3, <3>4
  <2> QED BY <2>1, <2>7, <2>9, <2>10
<1> QED BY <1>1, ProvidersListed, PTL

(* What compare-providers prints, in terms of the list.                    *)
ReadyCovers(l) == {Dates(l, i) : i \in Daily!Ready(l)}

LEMMA CompareIs ==
  ASSUME NEW l, Listed(l)
  PROVE  /\ Daily!Compare(l).is = "broken"
              <=> \E i \in Daily!Ready(l) : Daily!FetchDaily(l[i]).is = "broken"
         /\ \A i \in Daily!Ready(l) : Daily!Compare(l).covers[l[i].name] = Dates(l, i)
         /\ Daily!Compare(l).together = Cardinality(UNION ReadyCovers(l))
<1>1. PICK seen : seen = Daily!Compare(l)
  OBVIOUS
<1>2. PICK ready : ready = Daily!Ready(l)
  OBVIOUS
<1>3. ready \subseteq DOMAIN l
  BY <1>2 DEF Daily!Ready
<1>4. PICK is, covers, together :
        /\ is = IF \E i \in ready : Daily!FetchDaily(l[i]).is = "broken" THEN "broken" ELSE "compared"
        /\ covers = [name \in {l[i].name : i \in ready} |->
                       Dates(l, CHOOSE i \in ready : l[i].name = name)]
        /\ together = Daily!Cardinality(Daily!Together({Dates(l, i) : i \in ready}))
  OBVIOUS
<1>5. seen.is = is /\ seen.covers = covers /\ seen.together = together
  <2>1. seen.is = is
    BY <1>1, <1>2, <1>4 DEF Daily!Compare
  <2>2. seen.covers = covers
    BY <1>1, <1>2, <1>4 DEF Daily!Compare, Dates
  <2>3. seen.together = together
    BY <1>1, <1>2, <1>4 DEF Daily!Compare, Dates
  <2> QED BY <2>1, <2>2, <2>3
<1>6. seen.is = "broken" <=> \E i \in ready : Daily!FetchDaily(l[i]).is = "broken"
  BY <1>4, <1>5
<1>7. ASSUME NEW i \in ready PROVE seen.covers[l[i].name] = Dates(l, i)
  <2>1. PICK k : k = CHOOSE j \in ready : l[j].name = l[i].name
    OBVIOUS
  <2>2. k \in ready /\ l[k].name = l[i].name
    BY <2>1
  <2>3. k = i
    BY <1>3, <2>2 DEF Listed
  <2>4. covers[l[i].name] = Dates(l, k)
    BY <1>4, <2>1
  <2> QED BY <1>5, <2>3, <2>4
<1>8. seen.together = Cardinality(UNION ReadyCovers(l))
  <2>1. Daily!Together({Dates(l, i) : i \in ready}) = UNION ReadyCovers(l)
    BY <1>2 DEF Daily!Together, ReadyCovers
  <2> QED BY <1>4, <1>5, <2>1, SameCardinality
<1> QED BY <1>1, <1>2, <1>6, <1>7, <1>8

(* A provider that is not configured has no bar.                           *)
LEMMA UnreadyHasNone ==
  ASSUME NEW l, Listed(l), NEW i \in DOMAIN l, ~ l[i].configured
  PROVE  Daily!FetchDaily(l[i]).is = "unavailable" /\ Dates(l, i) = {}
<1>1. l[i].name \in Names /\ l[i].busy \in Nat /\ SaysNothing(l[i])
  BY ListedIs DEF SaysNothing
<1>2. Daily!FetchDaily(l[i]).is = "unavailable"
  BY <1>1, AnswerIs
<1>3. "unavailable" # "bars"
  OBVIOUS
<1> QED BY <1>1, <1>2, <1>3, AnswerIs DEF Dates

(* What compare-providers shows the provider at i to add.                  *)
NewIn(seen, l, i) ==
  seen.covers[l[i].name]
    \ UNION {seen.covers[l[j].name] : j \in {j \in 1 .. i - 1 : l[j].configured}}

(* What compare-providers prints of a symbol foretells the merge           *)
(* (`egx compare-providers`): together the dates of the merge, of each     *)
(* provider what it contributes, and a breakage of both.                   *)
THEOREM ComparisonForetellsMergeHolds == Spec => []ComparisonForetellsMerge
<1>1. Listed(providers) => ComparisonForetellsMerge
  <2> SUFFICES ASSUME Listed(providers) PROVE ComparisonForetellsMerge
    OBVIOUS
  <2>1. PICK l, r, seen : l = providers /\ r = Result /\ seen = Daily!Compare(providers)
    OBVIOUS
  <2>2. PICK m : Follows(m, l, Len(l)) /\ r = Daily!Ended(m)
    BY <2>1, MergeFollows DEF Result
  <2>3. IsMerged(m)
    BY <2>2 DEF Follows
  <2>4. /\ r.chosen = m.chosen /\ r.contributions = m.contributions
        /\ r.is = "broken" <=> m.is = "broken"
    BY <2>2, <2>3, EndedIs
  <2>5. Listed(l) /\ DOMAIN l = 1 .. Len(l) /\ Len(l) \in Nat
    BY <2>1 DEF Listed
  <2>6. Daily!Ready(l) = {i \in DOMAIN l : l[i].configured}
    BY DEF Daily!Ready
  <2>7. /\ seen.is = "broken"
              <=> \E i \in Daily!Ready(l) : Daily!FetchDaily(l[i]).is = "broken"
        /\ \A i \in Daily!Ready(l) : seen.covers[l[i].name] = Dates(l, i)
        /\ seen.together = Cardinality(UNION ReadyCovers(l))
    BY <2>1, <2>5, CompareIs
  <2>8. \A i \in DOMAIN l : i \notin Daily!Ready(l) =>
          Daily!FetchDaily(l[i]).is = "unavailable" /\ Dates(l, i) = {}
    BY <2>5, <2>6, UnreadyHasNone
  <2>9. seen.is = "broken" <=> r.is = "broken"
    BY <2>2, <2>4, <2>5, <2>6, <2>7, <2>8 DEF Follows
  <2>10. ASSUME seen.is # "broken" PROVE ByPriority(m, l, Len(l)) /\ Counts(m, l, Len(l))
    BY <2>2, <2>3, <2>4, <2>9, <2>10 DEF Follows, IsMerged
  <2>11. UNION ReadyCovers(l) = Offered(l, Len(l))
    BY <2>5, <2>6, <2>8 DEF ReadyCovers, Offered
  <2>12. ASSUME seen.is # "broken" PROVE seen.together = Cardinality(DOMAIN r.chosen)
    BY <2>4, <2>7, <2>10, <2>11, <2>12 DEF ByPriority
  <2>13. ASSUME NEW i \in Daily!Ready(l) PROVE NewIn(seen, l, i) = NewOf(l, i)
    <3> DEFINE Asked == {j \in 1 .. i - 1 : l[j].configured}
    <3>1. i \in DOMAIN l /\ \A j \in 1 .. i - 1 : j \in DOMAIN l
      BY <2>5, <2>6
    <3>2. \A j \in Asked : seen.covers[l[j].name] = Dates(l, j)
      BY <2>6, <2>7, <3>1
    <3>3. UNION {seen.covers[l[j].name] : j \in Asked} = UNION {Dates(l, j) : j \in Asked}
      BY <3>2
    <3>4. UNION {Dates(l, j) : j \in Asked} = Offered(l, i - 1)
      BY <2>6, <2>8, <3>1 DEF Offered
    <3> QED BY <2>7, <3>3, <3>4 DEF NewOf, NewIn
  <2>14. ASSUME seen.is # "broken", NEW i \in DOMAIN l, l[i].configured
         PROVE  IF l[i].name \in DOMAIN r.contributions
                THEN r.contributions[l[i].name] = Cardinality(NewIn(seen, l, i))
                ELSE NewIn(seen, l, i) = {}
    <3>1. NewIn(seen, l, i) = NewOf(l, i)
      BY <2>6, <2>13, <2>14
    <3>2. i \in 1 .. Len(l)
      BY <2>5
    <3>3. CASE NewOf(l, i) # {}
      <4>1. /\ l[i].name \in DOMAIN r.contributions
            /\ r.contributions[l[i].name] = Daily!Cardinality(NewOf(l, i))
        BY <2>4, <2>10, <2>14, <3>2, <3>3 DEF Counts
      <4> QED BY <3>1, <4>1, SameCardinality
    <3>4. CASE NewOf(l, i) = {}
      <4>1. ASSUME l[i].name \in DOMAIN r.contributions PROVE FALSE
        <5>1. PICK j \in 1 .. Len(l) : NewOf(l, j) # {} /\ l[j].name = l[i].name
          BY <2>4, <2>10, <2>14, <4>1 DEF Counts
        <5>2. j = i
          BY <2>5, <3>2, <5>1 DEF Listed
        <5> QED BY <3>4, <5>1, <5>2
      <4> QED BY <3>1, <3>4, <4>1
    <3> QED BY <3>3, <3>4
  <2>15. /\ Daily!Compare(providers).is = "broken" <=> Result.is = "broken"
         /\ Daily!Compare(providers).is # "broken" =>
              Daily!Compare(providers).together = Cardinality(DOMAIN Result.chosen)
    BY <2>1, <2>9, <2>12
  <2>16. ASSUME Daily!Compare(providers).is # "broken", NEW i \in DOMAIN providers,
                providers[i].configured
         PROVE  IF providers[i].name \in DOMAIN Result.contributions
                THEN Result.contributions[providers[i].name]
                       = Cardinality(NewIn(Daily!Compare(providers), providers, i))
                ELSE NewIn(Daily!Compare(providers), providers, i) = {}
    BY <2>1, <2>14, <2>16
  <2> QED BY <2>15, <2>16 DEF ComparisonForetellsMerge, NewIn
<1> QED BY <1>1, ProvidersListed, PTL

(* Two merges that differ at most in whom they name as failing.            *)
Alike(a, b) ==
  /\ IsMerged(a) /\ IsMerged(b)
  /\ a.is = b.is /\ a.chosen = b.chosen /\ a.sources = b.sources
  /\ a.contributions = b.contributions

LEMMA AlikeStep ==
  ASSUME NEW a, NEW b, Alike(a, b), NEW p, p.name \in Names, p.busy \in Nat
  PROVE  Alike(Daily!Merged(a, p), Daily!Merged(b, p))
<1>1. PICK f, x, y : f = Daily!FetchDaily(p) /\ x = Daily!Merged(a, p) /\ y = Daily!Merged(b, p)
  OBVIOUS
<1>2. f.is \in {"bars", "unavailable", "broken"}
  BY <1>1, AnswerIs
<1>3. MergedIs(x, a, p, f) /\ MergedIs(y, b, p, f)
  BY <1>1, MergeStep DEF Alike
<1>4. a.is = b.is /\ a.chosen = b.chosen /\ a.sources = b.sources /\ a.contributions = b.contributions
      /\ a.is \in {"merged", "broken"} /\ IsMerged(x) /\ IsMerged(y)
  BY <1>3 DEF Alike, IsMerged, MergedIs
<1>5. CASE a.is = "broken"
  BY <1>1, <1>3, <1>4, <1>5 DEF Alike, MergedIs
<1>6. CASE a.is = "merged" /\ f.is = "broken"
  <2>1. x = y
    BY <1>3, <1>4, <1>6 DEF MergedIs
  <2> QED BY <1>1, <1>4, <2>1 DEF Alike
<1>7. CASE a.is = "merged" /\ f.is = "unavailable"
  <2>1. /\ x = MergedOf("merged", a.chosen, a.sources, a.contributions, a.failures \cup {p.name})
        /\ y = MergedOf("merged", a.chosen, a.sources, a.contributions, b.failures \cup {p.name})
    BY <1>3, <1>4, <1>7 DEF MergedIs
  <2> QED BY <1>1, <1>4, <2>1 DEF Alike, MergedOf
<1>8. CASE a.is = "merged" /\ f.is = "bars"
  <2>1. PICK c, s, k :
          /\ c = Daily!Updated(a.chosen, BarsOf(New(a.chosen, f), f))
          /\ s = Daily!Updated(a.sources, NameOf(New(a.chosen, f), p.name))
          /\ k = Daily!Updated(a.contributions, CountOf(New(a.chosen, f), p.name))
    OBVIOUS
  <2>2. x = MergedOf("merged", c, s, k, a.failures) /\ y = MergedOf("merged", c, s, k, b.failures)
    BY <1>3, <1>4, <1>8, <2>1 DEF MergedIs
  <2> QED BY <1>1, <1>4, <2>2 DEF Alike, MergedOf
<1> QED BY <1>2, <1>4, <1>5, <1>6, <1>7, <1>8

LEMMA AlikeAtTheEnd ==
  ASSUME NEW a, NEW b, Alike(a, b)
  PROVE  [Daily!Ended(a) EXCEPT !.failures = {}] = [Daily!Ended(b) EXCEPT !.failures = {}]
<1>1. PICK is, chosen, sources, contributions :
        /\ a = MergedOf(is, chosen, sources, contributions, a.failures)
        /\ b = MergedOf(is, chosen, sources, contributions, b.failures)
        /\ a.is = is /\ b.is = is /\ a.chosen = chosen /\ b.chosen = chosen
  BY DEF Alike, IsMerged
<1>2. CASE is = "merged" /\ DOMAIN chosen = {}
  <2>1. /\ Daily!Ended(a) = MergedOf("unavailable", chosen, sources, contributions, a.failures)
        /\ Daily!Ended(b) = MergedOf("unavailable", chosen, sources, contributions, b.failures)
    BY <1>1, <1>2 DEF Daily!Ended, MergedOf
  <2> QED BY <2>1 DEF MergedOf
<1>3. CASE ~(is = "merged" /\ DOMAIN chosen = {})
  <2>1. /\ Daily!Ended(a) = MergedOf(is, chosen, sources, contributions, a.failures)
        /\ Daily!Ended(b) = MergedOf(is, chosen, sources, contributions, b.failures)
    BY <1>1, <1>3 DEF Daily!Ended
  <2> QED BY <2>1 DEF MergedOf
<1> QED BY <1>2, <1>3

(* A provider that says nothing only adds its name to the failures.        *)
LEMMA SilenceIsAlike ==
  ASSUME NEW m, IsMerged(m), NEW p, p.name \in Names, p.busy \in Nat, SaysNothing(p)
  PROVE  Alike(m, Daily!Merged(m, p))
<1>1. PICK f, next : f = Daily!FetchDaily(p) /\ next = Daily!Merged(m, p)
  OBVIOUS
<1>2. f.is = "unavailable" /\ MergedIs(next, m, p, f)
  BY <1>1, AnswerIs, MergeStep
<1>3. IsMerged(next) /\ m.is \in {"merged", "broken"}
  BY <1>2 DEF IsMerged, MergedIs
<1>4. CASE m.is = "broken"
  BY <1>1, <1>2, <1>3, <1>4 DEF Alike, MergedIs
<1>5. CASE m.is = "merged"
  <2>1. next = MergedOf("merged", m.chosen, m.sources, m.contributions, m.failures \cup {p.name})
    BY <1>2, <1>5 DEF MergedIs
  <2> QED BY <1>1, <1>3, <1>5, <2>1 DEF Alike, MergedOf
<1> QED BY <1>3, <1>4, <1>5

LEMMA RemovedIs ==
  ASSUME NEW l, Listed(l), NEW i \in DOMAIN l
  PROVE  /\ Len(RemoveAt(l, i)) = Len(l) - 1 /\ Len(l) - 1 \in Nat
         /\ \A n \in 1 .. i - 1 : RemoveAt(l, i)[n] = l[n]
         /\ \A n \in i .. Len(l) - 1 : RemoveAt(l, i)[n] = l[n + 1]
<1>0. PICK Elements : l \in Seq(Elements)
  BY DEF Listed
<1>1. l \in Seq(Elements) /\ i \in 1 .. Len(l) /\ Len(l) \in Nat
  BY <1>0 DEF Listed
<1>2. RemoveAt(l, i) = SubSeq(l, 1, i - 1) \o SubSeq(l, i + 1, Len(l))
  BY DEF RemoveAt
<1>3. /\ SubSeq(l, 1, i - 1) \in Seq(Elements) /\ Len(SubSeq(l, 1, i - 1)) = i - 1
      /\ \A n \in 1 .. i - 1 : SubSeq(l, 1, i - 1)[n] = l[n]
  BY <1>1
<1>4. /\ SubSeq(l, i + 1, Len(l)) \in Seq(Elements) /\ Len(SubSeq(l, i + 1, Len(l))) = Len(l) - i
      /\ \A n \in 1 .. Len(l) - i : SubSeq(l, i + 1, Len(l))[n] = l[i + n]
  BY <1>1
<1>5. PICK front, back : front = SubSeq(l, 1, i - 1) /\ back = SubSeq(l, i + 1, Len(l))
  OBVIOUS
<1>6. /\ Len(front \o back) = Len(l) - 1
      /\ \A n \in 1 .. i - 1 : (front \o back)[n] = front[n]
      /\ \A n \in i .. Len(l) - 1 : (front \o back)[n] = back[n - (i - 1)]
  <2>1. PICK a \in Nat, b \in Nat : a = i - 1 /\ b = Len(l) - i
    BY <1>1
  <2>2. /\ front \in Seq(Elements) /\ back \in Seq(Elements)
        /\ Len(front) = a /\ Len(back) = b
    BY <1>3, <1>4, <1>5, <2>1
  <2>3. /\ Len(front \o back) = a + b
        /\ \A n \in 1 .. a + b :
             (front \o back)[n] = IF n <= a THEN front[n] ELSE back[n - a]
    BY <2>2
  <2>4. /\ a + b = Len(l) - 1 /\ \A n \in 1 .. i - 1 : n \in 1 .. a + b /\ n <= a
        /\ \A n \in i .. Len(l) - 1 : n \in 1 .. a + b /\ ~ (n <= a)
    BY <1>1, <2>1
  <2> QED BY <2>1, <2>3, <2>4
<1>7. ASSUME NEW n \in i .. Len(l) - 1 PROVE back[n - (i - 1)] = l[n + 1]
  <2>1. n - (i - 1) \in 1 .. Len(l) - i /\ i + (n - (i - 1)) = n + 1
    BY <1>1
  <2> QED BY <1>4, <1>5, <2>1
<1>8. Len(l) - 1 \in Nat
  BY <1>1
<1>9. \A n \in 1 .. i - 1 : front[n] = l[n]
  BY <1>3, <1>5
<1>10. RemoveAt(l, i) = front \o back
  BY <1>2, <1>5
<1> QED BY <1>6, <1>7, <1>8, <1>9, <1>10

(* The merge of a list is alike with and without a silent provider.        *)
LEMMA SilenceChangesNothing ==
  ASSUME NEW l, Listed(l), NEW i \in DOMAIN l, SaysNothing(l[i])
  PROVE  [Daily!Merge(RemoveAt(l, i)) EXCEPT !.failures = {}]
           = [Daily!Merge(l) EXCEPT !.failures = {}]
<1>0. PICK N \in Nat : N = Len(l)
  BY DEF Listed
<1>1. PICK w : N = Len(l) /\ w = RemoveAt(l, i)
  BY <1>0
<1>2. i \in 1 .. N /\ N - 1 \in Nat
  BY <1>1 DEF Listed
<1>3. /\ Len(w) = N - 1 /\ \A n \in 1 .. i - 1 : w[n] = l[n]
      /\ \A n \in i .. N - 1 : w[n] = l[n + 1]
  BY <1>1, RemovedIs
<1>4. PICK m : IsMergeLoop(m, l) /\ Daily!Merge(l) = Daily!Ended(m[N])
  BY <1>1, MergeIsLoop
<1>5. PICK v : IsMergeLoop(v, w) /\ Daily!Merge(w) = Daily!Ended(v[N - 1])
  BY <1>2, <1>3, MergeIsLoop
<1>6. \A n \in 0 .. N : IsMerged(m[n])
  BY <1>1, <1>4, LoopFollows DEF Follows
<1> DEFINE Same(n) == IF n < i THEN v[n] = m[n] ELSE Alike(v[n - 1], m[n])
           S == {n \in 0 .. N : Same(n)}
<1>7. 0 \in S
  BY <1>2, <1>4, <1>5 DEF IsMergeLoop
<1>8. ASSUME NEW n \in 0 .. N - 1, n \in S PROVE n + 1 \in S
  <2>1. n + 1 \in 1 .. N /\ n + 1 \in DOMAIN l /\ (n + 1) - 1 = n /\ n \in Int /\ i \in Int
    BY <1>1, <1>2 DEF Listed
  <2>2. m[n + 1] = Daily!Merged(m[n], l[n + 1])
    BY <1>1, <1>4, <2>1 DEF IsMergeLoop
  <2>3. l[n + 1].name \in Names /\ l[n + 1].busy \in Nat
    BY <2>1, ListedIs
  <2>4. CASE n + 1 < i
    <3>1. n + 1 \in 1 .. i - 1 /\ n + 1 \in 1 .. N - 1 /\ n < i
      BY <1>2, <2>1, <2>4
    <3>2. v[n + 1] = Daily!Merged(v[n], w[n + 1]) /\ w[n + 1] = l[n + 1]
      BY <1>3, <1>5, <2>1, <3>1 DEF IsMergeLoop
    <3>3. v[n] = m[n]
      BY <1>8, <3>1
    <3> QED BY <2>1, <2>2, <2>4, <3>2, <3>3
  <2>5. CASE n + 1 = i
    <3>1. v[n] = m[n]
      BY <1>8, <2>1, <2>5
    <3>2. Alike(m[n], m[n + 1])
      BY <1>6, <2>2, <2>3, <2>5, SilenceIsAlike
    <3> QED BY <2>1, <2>5, <3>1, <3>2
  <2>6. CASE n + 1 > i
    <3>1. n \in i .. N - 1 /\ n \in 1 .. N - 1 /\ ~ (n < i)
      BY <1>2, <2>1, <2>6
    <3>2. v[n] = Daily!Merged(v[n - 1], w[n]) /\ w[n] = l[n + 1]
      BY <1>3, <1>5, <3>1 DEF IsMergeLoop
    <3>3. Alike(v[n - 1], m[n])
      BY <1>8, <3>1
    <3>4. Alike(v[n], m[n + 1])
      BY <2>2, <2>3, <3>2, <3>3, AlikeStep
    <3> QED BY <2>1, <2>6, <3>4
  <2> QED BY <2>1, <2>4, <2>5, <2>6
<1>9. \A n \in 0 .. N : n \in S
  <2>1. S \in SUBSET (0 .. N)
    OBVIOUS
  <2> HIDE DEF S
  <2> QED BY <1>7, <1>8, <2>1, LoopInduction
<1>10. Alike(v[N - 1], m[N])
  <2>1. N \in S
    <3> HIDE DEF S
    <3> QED BY <1>9
  <2> QED BY <1>2, <2>1
<1> QED BY <1>1, <1>4, <1>5, <1>10, AlikeAtTheEnd

(* A provider that gives nothing costs the result nothing but a failure    *)
(* that names it, and only a merge nobody has a bar for is unavailable     *)
(* (merge_providers).                                                      *)
THEOREM FailuresLoseNothingHolds == Spec => []FailuresLoseNothing
<1>1. Listed(providers) => FailuresLoseNothing
  <2> SUFFICES ASSUME Listed(providers) PROVE FailuresLoseNothing
    OBVIOUS
  <2>1. PICK l, r : l = providers /\ r = Result
    OBVIOUS
  <2>2. PICK m : Follows(m, l, Len(l)) /\ r = Daily!Ended(m)
    BY <2>1, MergeFollows DEF Result
  <2>3. IsMerged(m) /\ m.is \in {"merged", "broken"}
    BY <2>2 DEF Follows, IsMerged
  <2>4. /\ r.failures = m.failures
        /\ r.is = "broken" <=> m.is = "broken"
        /\ r.is = "unavailable" <=> m.is = "merged" /\ DOMAIN m.chosen = {}
    BY <2>2, <2>3, EndedIs
  <2>5. Listed(l) /\ DOMAIN l = 1 .. Len(l) /\ Len(l) \in Nat
    BY <2>1 DEF Listed
  <2>6. ASSUME NEW i \in DOMAIN providers, SaysNothing(providers[i]), Result.is # "broken"
        PROVE  /\ providers[i].name \in Result.failures
               /\ [Daily!Merge(RemoveAt(providers, i)) EXCEPT !.failures = {}]
                    = [Result EXCEPT !.failures = {}]
    <3>1. Daily!FetchDaily(l[i]).is = "unavailable"
      BY <2>1, <2>5, <2>6, ListedIs, AnswerIs
    <3>2. NamesFailures(m, l, Len(l))
      BY <2>1, <2>2, <2>3, <2>4, <2>6 DEF Follows
    <3>3. l[i].name \in r.failures
      <4>1. i \in 1 .. Len(l)
        BY <2>1, <2>5, <2>6
      <4>2. l[i].name \in m.failures
        BY <3>1, <3>2, <4>1 DEF NamesFailures
      <4> QED BY <2>4, <4>2
    <3>4. [Daily!Merge(RemoveAt(providers, i)) EXCEPT !.failures = {}]
            = [Daily!Merge(providers) EXCEPT !.failures = {}]
      BY <2>6, SilenceChangesNothing
    <3> QED BY <2>1, <3>3, <3>4 DEF Result
  <2>7. ASSUME Result.is = "unavailable", NEW i \in DOMAIN providers
        PROVE  Daily!DatesOf(Answer(i)) = {}
    <3>1. m.is = "merged" /\ DOMAIN m.chosen = {}
      BY <2>1, <2>4, <2>7
    <3>2. ByPriority(m, l, Len(l))
      BY <2>2, <3>1 DEF Follows
    <3>3. Offered(l, Len(l)) = {}
      BY <3>1, <3>2 DEF ByPriority
    <3> QED BY <2>1, <2>5, <3>3 DEF Offered, Dates, Answer
  <2> QED BY <2>6, <2>7 DEF FailuresLoseNothing
<1> QED BY <1>1, ProvidersListed, PTL

----------------------------------------------------------------------------
(* The bars of the ticks, for every list of them.                          *)
Ticks == [symbol : Symbol, at : Times, price : Prices, volume : Volumes \cup {NoVolume}]

LEMMA TicksAreTyped ==
  /\ Timed(Ticks) /\ Ticks \in SUBSET TickOf(Symbol, Prices) /\ Prices \in SUBSET Int
  /\ \A t \in Ticks : t.volume = NoVolume \/ t.volume \in Nat
BY TickAssumption DEF Ticks, Timed, TickOf

AreTicks == ticks \in Seq(Ticks)

LEMMA TicksListed == Spec => []AreTicks
<1>1. Init => AreTicks
  BY DEF Init, AreTicks
<1>2. AreTicks /\ [Next]_vars => AreTicks'
  <2> SUFFICES ASSUME ticks \in Seq(Ticks), [Next]_vars PROVE ticks' \in Seq(Ticks)
    BY DEF AreTicks
  <2>1. CASE Arrive
    <3>1. PICK t : t \in Ticks /\ ticks' = Append(ticks, t)
      BY <2>1 DEF Arrive, Ticks
    <3> QED BY <3>1
  <2>2. CASE UNCHANGED ticks
    BY <2>2
  <2> QED BY <2>1, <2>2 DEF Next, Count, Configure, vars
<1> QED BY <1>1, <1>2, PTL DEF Spec

(* The ticks that count for the bucket at b.                               *)
SessionOf(b) == InSessionOf(Ticks) \cap OfBucket(Ticks, b)

(* A bar is of the ticks of its bucket.                                    *)
LEMMA BarsAre ==
  ASSUME NEW l \in Seq(Ticks)
  PROVE  /\ Aggregate(l) \in Seq(BarFrom(Ticks))
         /\ \A j, k \in DOMAIN Aggregate(l) :
              j < k => Aggregate(l)[j].start < Aggregate(l)[k].start
         /\ \A k \in DOMAIN Aggregate(l) :
              Aggregate(l)[k] = BarOf(Only(Ordered(l), SessionOf(Aggregate(l)[k].start)),
                                      Aggregate(l)[k].start)
         /\ \A b : (\E k \in DOMAIN Aggregate(l) : Aggregate(l)[k].start = b)
                     <=> \E i \in DOMAIN l : l[i] \in SessionOf(b)
<1>1. PICK s \in Seq(Ticks) : s = Ordered(l)
  BY TicksAreTyped, OrderedOrders
<1>2. PICK c : c = Only(s, InSessionOf(Ticks))
  OBVIOUS
<1>3. PICK bars \in Seq(BarFrom(Ticks)) : bars = Aggregate(l) /\ AreBars(Ticks, c, bars)
  BY <1>1, <1>2, TicksAreTyped, AggregateIs
<1>4. \A b : Only(c, OfBucket(Ticks, b)) = Only(s, SessionOf(b))
  BY <1>1, <1>2, OnlyOnly DEF SessionOf
<1>5. PICK g : Gathers(g, c, l, InSessionOf(Ticks))
  BY <1>1, <1>2, TicksAreTyped, OnlyGathers
<1>6. ASSUME NEW b
      PROVE  (\E i \in DOMAIN c : BucketStart(c[i].at) = b) <=> \E i \in DOMAIN l : l[i] \in SessionOf(b)
  <2>1. \A i \in DOMAIN l : l[i] \in Ticks
    OBVIOUS
  <2>2. \A i \in DOMAIN l : l[i] \in SessionOf(b)
                              <=> l[i] \in InSessionOf(Ticks) /\ BucketStart(l[i].at) = b
    BY <2>1 DEF SessionOf, OfBucket
  <2>3. \A j \in DOMAIN c : g[j] \in DOMAIN l /\ l[g[j]] \in InSessionOf(Ticks) /\ c[j] = l[g[j]]
    BY <1>5 DEF Gathers
  <2>4. \A i \in DOMAIN l : l[i] \in InSessionOf(Ticks) => \E j \in DOMAIN c : g[j] = i
    BY <1>5 DEF Gathers
  <2> QED BY <2>2, <2>3, <2>4
<1>7. \A b : (\E k \in DOMAIN bars : bars[k].start = b) <=> \E i \in DOMAIN c : BucketStart(c[i].at) = b
  BY <1>3 DEF AreBars
<1>8. \A j, k \in DOMAIN bars : j < k => bars[j].start < bars[k].start
  BY <1>3 DEF AreBars
<1>9. \A k \in DOMAIN bars : bars[k] = BarOf(Only(c, OfBucket(Ticks, bars[k].start)), bars[k].start)
  BY <1>3 DEF AreBars
<1>10. \A k \in DOMAIN bars : bars[k] = BarOf(Only(s, SessionOf(bars[k].start)), bars[k].start)
  BY <1>4, <1>9
<1>11. \A b : (\E k \in DOMAIN bars : bars[k].start = b) <=> \E i \in DOMAIN l : l[i] \in SessionOf(b)
  BY <1>6, <1>7
<1> QED BY <1>1, <1>3, <1>8, <1>10, <1>11

(* The bucket of the reference definition.                                 *)
LEMMA InBucketIs ==
  ASSUME ticks \in Seq(Ticks), NEW b
  PROVE  InBucket(b) = {i \in DOMAIN ticks : ticks[i] \in SessionOf(b)}
<1>1. ASSUME NEW i \in DOMAIN ticks
      PROVE  ticks[i] \in SessionOf(b) <=> BucketStart(ticks[i].at) = b /\ ticks[i].at \in 2 .. 6
  <2>1. ticks[i] \in Ticks
    OBVIOUS
  <2>2. ticks[i].at \in Times
    BY <2>1 DEF Ticks
  <2> QED BY <2>1, <2>2, TickAssumption DEF SessionOf, InSessionOf, OfBucket, Counted
<1> QED BY <1>1 DEF InBucket

(* What the reference asks of the bar at b.                                *)
Serves(bar, S) ==
  /\ \E i \in S : IsFirst(i, S) /\ bar.open = ticks[i].price
  /\ \E i \in S : IsLast(i, S) /\ bar.close = ticks[i].price
  /\ \A i \in S : ticks[i].price \in bar.low .. bar.high
  /\ {bar.low, bar.high} \subseteq {ticks[i].price : i \in S}
  /\ bar.count = Cardinality(S)
  /\ bar.volume = 0 \/ (bar.volume > 0 /\ IsRise(bar.volume, S))

LEMMA BarServes ==
  ASSUME ticks \in Seq(Ticks), NEW b \in Nat, InBucket(b) # {}
  PROVE  Serves(BarOf(Only(Ordered(ticks), SessionOf(b)), b), InBucket(b))
<1>1. PICK S : S = InBucket(b) /\ S = {i \in DOMAIN ticks : ticks[i] \in SessionOf(b)}
  BY InBucketIs
<1>2. PICK q \in Seq(Ticks) : q = Only(Ordered(ticks), SessionOf(b))
  <2>1. Ordered(ticks) \in Seq(Ticks)
    BY TicksAreTyped, OrderedOrders
  <2>2. Only(Ordered(ticks), SessionOf(b)) \in Seq(Ticks \cap SessionOf(b))
    BY <2>1, OnlyType
  <2> QED BY <2>2
<1>3. PICK g : Gathers(g, q, ticks, SessionOf(b))
  BY <1>2, TicksAreTyped, OnlyGathers
<1>4. PICK N \in Nat : N = Len(q) /\ DOMAIN q = 1 .. N
  OBVIOUS
<1>5. /\ \A j \in 1 .. N : g[j] \in S /\ q[j] = ticks[g[j]]
      /\ \A i \in S : \E j \in 1 .. N : g[j] = i
      /\ \A j, k \in 1 .. N : j < k => ComesFirst(ticks, g[j], g[k])
      /\ g \in [1 .. N -> S]
  BY <1>1, <1>3, <1>4 DEF Gathers
<1>6. \A i \in S : i \in DOMAIN ticks /\ i \in Nat /\ ticks[i].at \in Nat
  <2>1. \A i \in DOMAIN ticks : i \in Nat /\ ticks[i] \in Ticks
    OBVIOUS
  <2> QED BY <1>1, <2>1, TicksAreTyped DEF Timed
<1>7. N # 0
  BY <1>1, <1>5
<1>8. ASSUME NEW j \in 1 .. N, NEW k \in 1 .. N, j <= k PROVE Before(g[j], g[k])
  <2>1. CASE j < k
    <3>1. ComesFirst(ticks, g[j], g[k])
      BY <1>5, <2>1
    <3>2. PICK x \in Nat, y \in Nat : x = g[j] /\ y = g[k]
      BY <1>5, <1>6
    <3>3. ticks[x].at \in Nat /\ ticks[y].at \in Nat
      BY <1>5, <1>6, <3>2
    <3> QED BY <3>1, <3>2, <3>3 DEF ComesFirst, Before
  <2>2. CASE j = k
    BY <1>5, <1>6, <2>2 DEF Before
  <2> QED BY <1>8, <2>1, <2>2
<1>9. PICK bar : bar = BarOf(q, b)
  OBVIOUS
<1>10. /\ bar.open = q[1].price /\ bar.close = q[N].price /\ bar.count = N
       /\ bar.volume = VolumeFor(q)
  <2>1. Head(q) = q[1] /\ Last(q) = q[N]
    BY <1>4, <1>7 DEF Last
  <2> QED BY <1>4, <1>9, <2>1 DEF BarOf
<1>11. \E i \in S : IsFirst(i, S) /\ bar.open = ticks[i].price
  <2>1. 1 \in 1 .. N /\ \A k \in 1 .. N : 1 <= k
    BY <1>7
  <2>2. IsFirst(g[1], S)
    <3>1. \A k \in 1 .. N : Before(g[1], g[k])
      BY <1>8, <2>1
    <3>2. g[1] \in S /\ \A i \in S : \E k \in 1 .. N : g[k] = i
      BY <1>5, <2>1
    <3> QED BY <3>1, <3>2 DEF IsFirst
  <2> QED BY <1>5, <1>10, <2>1, <2>2
<1>12. \E i \in S : IsLast(i, S) /\ bar.close = ticks[i].price
  <2>1. N \in 1 .. N /\ \A k \in 1 .. N : k <= N
    BY <1>7
  <2>2. IsLast(g[N], S)
    <3>1. \A k \in 1 .. N : Before(g[k], g[N])
      BY <1>8, <2>1
    <3>2. g[N] \in S /\ \A i \in S : \E k \in 1 .. N : g[k] = i
      BY <1>5, <2>1
    <3> QED BY <3>1, <3>2 DEF IsLast
  <2> QED BY <1>5, <1>10, <2>1, <2>2
<1>13. /\ \A j \in 1 .. N : q[j].price \in bar.low .. bar.high
       /\ \E i, j \in 1 .. N : bar.low = q[i].price /\ bar.high = q[j].price
  <2>1. q # <<>>
    BY <1>4, <1>7
  <2>2. q \in Seq(Ticks) /\ Ticks \in SUBSET TickOf(Symbol, Prices) /\ Prices \in SUBSET Int
    BY TicksAreTyped
  <2>3. Spans(BarOf(q, b), q)
    <3>1. b \in Nat /\ q \in Seq(Ticks)
      OBVIOUS
    <3> QED BY <2>1, <2>2, <3>1, BarHasType
  <2> QED BY <1>4, <1>9, <2>3 DEF Spans
<1>14. \A i \in S : ticks[i].price \in bar.low .. bar.high
  <2>1. ASSUME NEW i \in S PROVE ticks[i].price \in bar.low .. bar.high
    <3>1. PICK j \in 1 .. N : g[j] = i
      BY <1>5
    <3>2. q[j].price = ticks[i].price
      BY <1>5, <3>1
    <3> QED BY <1>13, <3>2
  <2> QED BY <2>1
<1>15. {bar.low, bar.high} \subseteq {ticks[i].price : i \in S}
  BY <1>5, <1>13
<1>16. N = Cardinality(S)
  <2>1. ASSUME NEW j \in 1 .. N, NEW k \in 1 .. N, g[j] = g[k] PROVE j = k
    <3>1. ~ ComesFirst(ticks, g[j], g[j])
      BY <1>5, <1>6 DEF ComesFirst
    <3>2. ~(j < k) /\ ~(k < j)
      BY <1>5, <2>1, <3>1
    <3> QED BY <3>2
  <2>2. g \in Bijection(1 .. N, S)
    BY <1>5, <2>1 DEF Bijection, Injection, Surjection, IsInjective
  <2>3. IsFiniteSet(1 .. N) /\ Cardinality(1 .. N) = N
    BY FS_Interval
  <2> QED BY <2>2, <2>3, FS_Bijection DEF ExistsBijection
<1>17. bar.volume = 0 \/ (bar.volume > 0 /\ IsRise(bar.volume, S))
  <2>1. \/ VolumeFor(q) = 0
        \/ /\ VolumeFor(q) > 0
           /\ \E j, k \in DOMAIN q : /\ j <= k
                                     /\ q[j].volume # NoVolume /\ q[k].volume # NoVolume
                                     /\ VolumeFor(q) = q[k].volume - q[j].volume
    BY TicksAreTyped, VolumeRises
  <2>2. ASSUME NEW j \in 1 .. N, NEW k \in 1 .. N, j <= k,
               q[j].volume # NoVolume, q[k].volume # NoVolume,
               VolumeFor(q) = q[k].volume - q[j].volume
        PROVE  IsRise(bar.volume, S)
    <3>1. Before(g[j], g[k]) /\ g[j] \in S /\ g[k] \in S
      BY <1>5, <1>8, <2>2
    <3>2. q[j] = ticks[g[j]] /\ q[k] = ticks[g[k]]
      BY <1>5
    <3> QED BY <1>10, <2>2, <3>1, <3>2 DEF IsRise
  <2> QED BY <1>4, <1>10, <2>1, <2>2
<1> QED BY <1>1, <1>2, <1>9, <1>10, <1>11, <1>12, <1>14, <1>15, <1>16, <1>17 DEF Serves

(* aggregate has a bar for each bucket with a tick of the session, made of *)
(* its ticks in order of time: for every list of ticks and bucket length.  *)
THEOREM BarsAreTheBucketsHolds == Spec => []BarsAreTheBuckets
<1>1. AreTicks => BarsAreTheBuckets
  <2> SUFFICES ASSUME ticks \in Seq(Ticks) PROVE BarsAreTheBuckets
    BY DEF AreTicks
  <2>1. PICK bars \in Seq(BarFrom(Ticks)) : bars = Aggregate(ticks)
    BY BarsAre
  <2>2. /\ \A j, k \in DOMAIN bars : j < k => bars[j].start < bars[k].start
        /\ \A k \in DOMAIN bars :
             bars[k] = BarOf(Only(Ordered(ticks), SessionOf(bars[k].start)), bars[k].start)
        /\ \A b : (\E k \in DOMAIN bars : bars[k].start = b)
                     <=> \E i \in DOMAIN ticks : ticks[i] \in SessionOf(b)
    BY <2>1, BarsAre
  <2>3. \A b : InBucket(b) = {i \in DOMAIN ticks : ticks[i] \in SessionOf(b)}
    BY InBucketIs
  <2>4. \A k \in 1 .. Len(bars) - 1 : bars[k].start < bars[k + 1].start
    BY <2>2
  <2>5. {bars[k].start : k \in DOMAIN bars}
          = {b \in {BucketStart(t) : t \in Times} : InBucket(b) # {}}
    <3>1. ASSUME NEW b, InBucket(b) # {} PROVE b \in {BucketStart(t) : t \in Times}
      <4>1. PICK i \in DOMAIN ticks : BucketStart(ticks[i].at) = b
        BY <3>1 DEF InBucket
      <4>2. ticks[i] \in Ticks
        OBVIOUS
      <4> QED BY <4>1, <4>2 DEF Ticks
    <3>2. ASSUME NEW b PROVE (\E k \in DOMAIN bars : bars[k].start = b) <=> InBucket(b) # {}
      BY <2>2, <2>3
    <3> QED BY <3>1, <3>2
  <2>6. ASSUME NEW k \in DOMAIN bars PROVE Serves(bars[k], InBucket(bars[k].start))
    <3>1. InBucket(bars[k].start) # {}
      BY <2>2, <2>3
    <3>2. PICK i \in DOMAIN ticks : BucketStart(ticks[i].at) = bars[k].start
      BY <3>1 DEF InBucket
    <3>3. bars[k].start \in Nat
      <4>1. ticks[i] \in Ticks
        OBVIOUS
      <4> QED BY <3>2, <4>1, TicksAreTyped, BucketFacts DEF Timed
    <3>4. Serves(BarOf(Only(Ordered(ticks), SessionOf(bars[k].start)), bars[k].start),
                 InBucket(bars[k].start))
      BY <3>1, <3>3, BarServes
    <3> QED BY <2>2, <3>4
  <2> QED BY <2>1, <2>4, <2>5, <2>6 DEF BarsAreTheBuckets, Serves
<1> QED BY <1>1, TicksListed, PTL

----------------------------------------------------------------------------
(* Two ascending lists of the same numbers are the same.                   *)
Ascends(f, N) == \A j, k \in 1 .. N : j < k => f[j] < f[k]

LEMMA AscendingAgree ==
  ASSUME NEW N \in Nat, NEW f \in [1 .. N -> Int], NEW g \in [1 .. N -> Int],
         Ascends(f, N), Ascends(g, N),
         \A j \in 1 .. N : \E k \in 1 .. N : f[j] = g[k],
         \A k \in 1 .. N : \E j \in 1 .. N : g[k] = f[j]
  PROVE  f = g
<1> DEFINE S == {n \in 0 .. N : \A k \in 1 .. n : f[k] = g[k]}
<1>1. 0 \in S
  OBVIOUS
<1>2. ASSUME NEW n \in 0 .. N - 1, n \in S PROVE n + 1 \in S
  <2>1. n + 1 \in 1 .. N /\ \A k \in 1 .. n : f[k] = g[k] /\ k \in 1 .. N
    BY <1>2
  <2>9. n + 1 \in 1 .. N
    OBVIOUS
  <2>2. PICK l \in 1 .. N : f[n + 1] = g[l]
    BY <2>9, Zenon
  <2>3. PICK m \in 1 .. N : g[n + 1] = f[m]
    BY <2>9, Zenon
  <2>4. ASSUME l \in 1 .. n PROVE FALSE
    <3>1. f[l] = g[l] /\ l \in 1 .. N /\ l < n + 1
      BY <1>2, <2>4
    <3>2. f[l] < f[n + 1]
      BY <2>9, <3>1 DEF Ascends
    <3>3. PICK x \in Int : x = f[l]
      BY <3>1
    <3> QED BY <2>2, <3>1, <3>2, <3>3
  <2>5. ASSUME m \in 1 .. n PROVE FALSE
    <3>1. f[m] = g[m] /\ m \in 1 .. N /\ m < n + 1
      BY <1>2, <2>5
    <3>2. g[m] < g[n + 1]
      BY <2>9, <3>1 DEF Ascends
    <3>3. PICK x \in Int : x = g[m]
      BY <3>1
    <3> QED BY <2>3, <3>1, <3>2, <3>3
  <2>6. f[n + 1] = g[n + 1]
    <3>1. (l = n + 1 \/ n + 1 < l) /\ (m = n + 1 \/ n + 1 < m)
      BY <2>4, <2>5
    <3>2. n + 1 < l => g[n + 1] < g[l]
      BY <2>1 DEF Ascends
    <3>3. n + 1 < m => f[n + 1] < f[m]
      BY <2>1 DEF Ascends
    <3>4. f[n + 1] \in Int /\ g[n + 1] \in Int
      BY <2>1
    <3>5. l = n + 1 => g[l] = g[n + 1]
      OBVIOUS
    <3>6. m = n + 1 => f[m] = f[n + 1]
      OBVIOUS
    <3>7. PICK x \in Int, y \in Int : x = f[n + 1] /\ y = g[n + 1]
      BY <3>4
    <3>8. (x = y \/ y < x) /\ (x = y \/ x < y)
      BY <2>2, <2>3, <3>1, <3>2, <3>3, <3>5, <3>6, <3>7
    <3> QED BY <3>7, <3>8
  <2>7. \A k \in 1 .. n + 1 : k \in 1 .. n \/ k = n + 1
    BY <1>2
  <2>8. n + 1 \in 0 .. N
    BY <1>2
  <2> QED BY <2>1, <2>6, <2>7, <2>8
<1>3. \A n \in 0 .. N : n \in S
  <2>1. S \in SUBSET (0 .. N)
    OBVIOUS
  <2> HIDE DEF S
  <2> QED BY <1>1, <1>2, <2>1, LoopInduction
<1>4. N \in S
  <2> HIDE DEF S
  <2> QED BY <1>3
<1>5. \A k \in 1 .. N : f[k] = g[k]
  BY <1>4
<1> QED BY <1>5

(* The bars in order of time: the only list of them that ascends.          *)
LEMMA InTimeIs ==
  ASSUME NEW M, NEW N \in Nat, NEW h \in [1 .. N -> M],
         \A bar \in M : bar.start \in Int /\ \E k \in 1 .. N : h[k] = bar,
         \A j, k \in 1 .. N : j < k => h[j].start < h[k].start
  PROVE  InTime(M) = h
<1>1. IsFiniteSet(M) /\ Cardinality(M) = N
  <2>1. ASSUME NEW j \in 1 .. N, NEW k \in 1 .. N, h[j] = h[k] PROVE j = k
    <3>1. h[j] \in M
      OBVIOUS
    <3>2. PICK t \in Int : t = h[j].start
      BY <3>1
    <3>3. (j < k => t < t) /\ (k < j => t < t)
      BY <2>1, <3>2
    <3>4. ~(j < k) /\ ~(k < j)
      BY <3>3
    <3> QED BY <3>4
  <2>2. h \in Bijection(1 .. N, M)
    BY <2>1 DEF Bijection, Injection, Surjection, IsInjective
  <2>3. IsFiniteSet(1 .. N) /\ Cardinality(1 .. N) = N
    BY FS_Interval
  <2> QED BY <2>2, <2>3, FS_Bijection DEF ExistsBijection
<1> DEFINE Fits(seq) == ToSet(seq) = M /\ \A i, j \in DOMAIN seq : i < j => seq[i].start <= seq[j].start
<1>2. Fits(h)
  <2>1. ToSet(h) = M
    BY DEF ToSet
  <2>2. \A j, k \in 1 .. N : j < k => h[j].start <= h[k].start
    <3>1. ASSUME NEW j \in 1 .. N, NEW k \in 1 .. N, j < k PROVE h[j].start <= h[k].start
      <4>1. h[j] \in M /\ h[k] \in M
        OBVIOUS
      <4>2. h[j].start \in Int /\ h[k].start \in Int /\ h[j].start < h[k].start
        BY <3>1, <4>1
      <4> QED BY <4>2
    <3> QED BY <3>1
  <2> QED BY <2>1, <2>2
<1>3. PICK s \in [1 .. N -> M] : s = InTime(M) /\ Fits(s)
  <2>1. InTime(M) = CHOOSE seq \in [1 .. N -> M] : Fits(seq)
    BY <1>1 DEF InTime
  <2> HIDE DEF Fits
  <2> QED BY <1>2, <2>1
<1>4. \A bar \in M : \E k \in 1 .. N : s[k] = bar
  BY <1>3 DEF ToSet
<1>5. s \in Injection(1 .. N, M)
  <2>1. s \in Surjection(1 .. N, M)
    BY <1>4 DEF Surjection
  <2>2. IsFiniteSet(1 .. N) /\ Cardinality(1 .. N) = N
    BY FS_Interval
  <2> QED BY <1>1, <2>1, <2>2, FS_Surjection
<1>6. \A j, k \in 1 .. N : j # k => s[j] # s[k]
  BY <1>5 DEF Injection, IsInjective
<1>7. \A x, y \in M : x.start = y.start => x = y
  <2>1. ASSUME NEW x \in M, NEW y \in M, x.start = y.start PROVE x = y
    <3>1. PICK j \in 1 .. N, k \in 1 .. N : h[j] = x /\ h[k] = y
      OBVIOUS
    <3>2. PICK t \in Int : t = x.start
      BY <2>1
    <3>3. h[j].start = t /\ h[k].start = t
      BY <2>1, <3>1, <3>2
    <3>4. (j < k => t < t) /\ (k < j => t < t)
      BY <3>3
    <3>5. ~(j < k) /\ ~(k < j)
      BY <3>4
    <3> QED BY <3>1, <3>5
  <2> QED BY <2>1
<1>8. \A j, k \in 1 .. N : j < k => s[j].start < s[k].start
  <2>1. ASSUME NEW j \in 1 .. N, NEW k \in 1 .. N, j < k PROVE s[j].start < s[k].start
    <3>1. s[j].start \in Int /\ s[k].start \in Int /\ s[j].start <= s[k].start
      BY <1>3, <2>1
    <3>2. s[j] # s[k] /\ s[j] \in M /\ s[k] \in M
      BY <1>6, <2>1
    <3>3. s[j].start # s[k].start
      BY <1>7, <3>2
    <3>4. PICK x \in Int, y \in Int : x = s[j].start /\ y = s[k].start
      BY <3>1
    <3>5. x < y
      <4>1. x <= y /\ x # y
        BY <3>1, <3>3, <3>4
      <4> QED BY <4>1
    <3> QED BY <3>4, <3>5
  <2> QED BY <2>1
<1> DEFINE f == [k \in 1 .. N |-> s[k].start]
           g == [k \in 1 .. N |-> h[k].start]
<1>9. f \in [1 .. N -> Int] /\ g \in [1 .. N -> Int]
  <2>1. \A k \in 1 .. N : s[k].start \in Int /\ h[k].start \in Int
    OBVIOUS
  <2> QED BY <2>1
<1>10. Ascends(f, N) /\ Ascends(g, N)
  BY <1>8 DEF Ascends
<1>11. /\ \A j \in 1 .. N : \E k \in 1 .. N : f[j] = g[k]
       /\ \A k \in 1 .. N : \E j \in 1 .. N : g[k] = f[j]
  <2>1. ASSUME NEW j \in 1 .. N PROVE \E k \in 1 .. N : f[j] = g[k]
    <3>1. PICK k \in 1 .. N : h[k] = s[j]
      OBVIOUS
    <3> QED BY <3>1
  <2>2. ASSUME NEW k \in 1 .. N PROVE \E j \in 1 .. N : g[k] = f[j]
    <3>1. PICK j \in 1 .. N : s[j] = h[k]
      BY <1>4
    <3> QED BY <3>1
  <2> QED BY <2>1, <2>2
<1>12. f = g
  <2> HIDE DEF f, g
  <2> QED BY <1>9, <1>10, <1>11, AscendingAgree
<1>13. \A k \in 1 .. N : s[k] = h[k]
  <2>1. ASSUME NEW k \in 1 .. N PROVE s[k] = h[k]
    <3>1. f[k] = g[k]
      <4> HIDE DEF f, g
      <4> QED BY <1>12
    <3> QED BY <1>7, <3>1
  <2> QED BY <2>1
<1> QED BY <1>3, <1>13

----------------------------------------------------------------------------
OneSymbol    == \A s, u \in Symbol : s = u
Follow(a, c) == \A i \in DOMAIN a, j \in DOMAIN c : a[i].at <= c[j].at

(* The ticks of a bucket in order of time, and the bar made of them.       *)
Of(l, b)    == Only(Ordered(l), SessionOf(b))
Has(l, b)   == \E i \in DOMAIN l : l[i] \in SessionOf(b)
BarAt(l, b) == BarOf(Of(l, b), b)

LEMMA OfIs ==
  ASSUME NEW l \in Seq(Ticks), NEW b
  PROVE  Of(l, b) \in Seq(Ticks) /\ (Of(l, b) = <<>> <=> ~Has(l, b))
<1>1. PICK s \in Seq(Ticks) : s = Ordered(l)
  BY TicksAreTyped, OrderedOrders
<1>2. PICK q \in Seq(Ticks \cap SessionOf(b)) : q = Of(l, b)
  BY <1>1, OnlyType DEF Of
<1>3. q \in Seq(Ticks)
  BY <1>2
<1>4. PICK g : Gathers(g, q, l, SessionOf(b))
  BY <1>2, TicksAreTyped, OnlyGathers DEF Of
<1>5. /\ \A j \in DOMAIN q : g[j] \in DOMAIN l /\ l[g[j]] \in SessionOf(b)
      /\ \A i \in DOMAIN l : l[i] \in SessionOf(b) => \E j \in DOMAIN q : g[j] = i
  BY <1>4 DEF Gathers
<1>6. q = <<>> <=> DOMAIN q = {}
  <2>1. DOMAIN q = 1 .. Len(q) /\ Len(q) \in Nat
    BY <1>3
  <2>2. ASSUME DOMAIN q = {} PROVE q = <<>>
    <3>1. Len(q) = 0
      BY <2>1, <2>2
    <3> QED BY <1>3, <3>1
  <2> QED BY <2>2
<1> QED BY <1>2, <1>3, <1>5, <1>6 DEF Has

(* The bars of a list: one for each bucket it has a tick of.               *)
LEMMA BarAtIs ==
  ASSUME NEW l \in Seq(Ticks), NEW b, Has(l, b)
  PROVE  /\ b \in Nat /\ BarAt(l, b).start = b /\ BarAt(l, b).symbol \in Symbol
         /\ BarAt(l, b).count = Len(Of(l, b))
<1>1. PICK i \in DOMAIN l : l[i] \in SessionOf(b)
  BY DEF Has
<1>2. l[i] \in Ticks /\ BucketStart(l[i].at) = b
  BY <1>1 DEF SessionOf, OfBucket
<1>3. b \in Nat
  <2>1. l[i].at \in Nat
    BY <1>2, TicksAreTyped DEF Timed
  <2> QED BY <1>2, <2>1, BucketFacts
<1>4. PICK q \in Seq(Ticks) : q = Of(l, b) /\ q # <<>>
  BY OfIs
<1>5. BarAt(l, b) = BarOf(q, b)
  BY <1>4 DEF BarAt
<1>6. BarOf(q, b).start = b /\ BarOf(q, b).count = Len(q)
  BY DEF BarOf
<1>7. BarOf(q, b) \in BarIs(Symbol, Prices)
  BY <1>3, <1>4, TicksAreTyped, BarHasType
<1>8. BarOf(q, b).symbol \in Symbol
  BY <1>7 DEF BarIs
<1> QED BY <1>3, <1>4, <1>5, <1>6, <1>8

(* The bars of the ticks l: one for each bucket with a tick, in the order  *)
(* of their starts.                                                        *)
BarsByBucket(l, bars) ==
  /\ bars \in Seq(BarFrom(Ticks))
  /\ \A j, k \in DOMAIN bars : j < k => bars[j].start < bars[k].start
  /\ \A k \in DOMAIN bars : Has(l, bars[k].start) /\ bars[k] = BarAt(l, bars[k].start)
  /\ \A b : Has(l, b) => \E k \in DOMAIN bars : bars[k].start = b

LEMMA BarsOfBuckets ==
  ASSUME NEW l \in Seq(Ticks), NEW bars, bars = Aggregate(l)
  PROVE  BarsByBucket(l, bars)
BY BarsAre DEF BarsByBucket, Has, BarAt, Of

LEMMA BarsAsSet ==
  ASSUME NEW l \in Seq(Ticks), NEW bar
  PROVE  bar \in ToSet(Aggregate(l)) <=> \E b : Has(l, b) /\ bar = BarAt(l, b)
<1>1. PICK bars : bars = Aggregate(l)
  OBVIOUS
<1>2. /\ \A k \in DOMAIN bars : Has(l, bars[k].start) /\ bars[k] = BarAt(l, bars[k].start)
      /\ \A b : Has(l, b) => \E k \in DOMAIN bars : bars[k].start = b
  BY <1>1, BarsOfBuckets DEF BarsByBucket
<1>3. bar \in ToSet(bars) <=> \E k \in DOMAIN bars : bars[k] = bar
  BY DEF ToSet
<1> QED BY <1>1, <1>2, <1>3

(* What is left of a bucket once the bars of c are merged over those of a. *)
Left(a, c, b)    == IF Has(c, b) THEN BarAt(c, b) ELSE BarAt(a, b)
AllLeft(a, c, w) == [k \in DOMAIN w |-> Left(a, c, w[k].start)]
LeftIn(a, c, x)  == \E b : (Has(a, b) \/ Has(c, b)) /\ x = Left(a, c, b)

LEMMA LeftIs ==
  ASSUME OneSymbol, NEW a \in Seq(Ticks), NEW c \in Seq(Ticks), NEW x
  PROVE  x \in ToSet(Aggregate(c))
               \cup {y \in ToSet(Aggregate(a)) : MergeKey(y) \notin Keys(Aggregate(c))}
           <=> LeftIn(a, c, x)
<1>1. /\ \A y : y \in ToSet(Aggregate(a)) <=> \E b : Has(a, b) /\ y = BarAt(a, b)
      /\ \A y : y \in ToSet(Aggregate(c)) <=> \E b : Has(c, b) /\ y = BarAt(c, b)
  BY BarsAsSet
<1>2. ASSUME NEW b, Has(a, b)
      PROVE  MergeKey(BarAt(a, b)) \in Keys(Aggregate(c)) <=> Has(c, b)
  <2>1. BarAt(a, b).start = b /\ BarAt(a, b).symbol \in Symbol
    BY <1>2, BarAtIs
  <2>2. ASSUME NEW d, Has(c, d)
        PROVE  MergeKey(BarAt(c, d)) = MergeKey(BarAt(a, b)) <=> d = b
    <3>1. BarAt(c, d).start = d /\ BarAt(c, d).symbol \in Symbol
      BY <2>2, BarAtIs
    <3>2. BarAt(c, d).symbol = BarAt(a, b).symbol
      BY <2>1, <3>1 DEF OneSymbol
    <3> QED BY <2>1, <3>1, <3>2 DEF MergeKey
  <2>3. MergeKey(BarAt(a, b)) \in Keys(Aggregate(c))
          <=> \E y \in ToSet(Aggregate(c)) : MergeKey(BarAt(a, b)) = MergeKey(y)
    BY DEF Keys
  <2> QED BY <1>1, <2>2, <2>3
<1>3. ASSUME NEW b, Has(c, b) PROVE Left(a, c, b) = BarAt(c, b)
  BY <1>3 DEF Left
<1>4. ASSUME NEW b, ~Has(c, b) PROVE Left(a, c, b) = BarAt(a, b)
  BY <1>4 DEF Left
<1>5. ASSUME x \in ToSet(Aggregate(c)) PROVE LeftIn(a, c, x)
  <2>1. PICK b : Has(c, b) /\ x = BarAt(c, b)
    BY <1>1, <1>5
  <2> QED BY <1>3, <2>1 DEF LeftIn
<1>6. ASSUME x \in ToSet(Aggregate(a)), MergeKey(x) \notin Keys(Aggregate(c)) PROVE LeftIn(a, c, x)
  <2>1. PICK b : Has(a, b) /\ x = BarAt(a, b)
    BY <1>1, <1>6
  <2>2. ~Has(c, b)
    BY <1>2, <1>6, <2>1
  <2> QED BY <1>4, <2>1, <2>2 DEF LeftIn
<1>7. ASSUME LeftIn(a, c, x)
      PROVE  \/ x \in ToSet(Aggregate(c))
             \/ x \in ToSet(Aggregate(a)) /\ MergeKey(x) \notin Keys(Aggregate(c))
  <2>1. PICK b : (Has(a, b) \/ Has(c, b)) /\ x = Left(a, c, b)
    BY <1>7 DEF LeftIn
  <2>2. CASE Has(c, b)
    BY <1>1, <1>3, <2>1, <2>2
  <2>3. CASE ~Has(c, b)
    BY <1>1, <1>2, <1>4, <2>1, <2>3
  <2> QED BY <2>2, <2>3
<1> QED BY <1>5, <1>6, <1>7

(* merge_bars leaves them in order of time.                                *)
LEMMA MergedBarsAre ==
  ASSUME OneSymbol, NEW a \in Seq(Ticks), NEW c \in Seq(Ticks),
         NEW w, w \in Seq(BarFrom(Ticks)),
         \A j, k \in DOMAIN w : j < k => w[j].start < w[k].start,
         \A b : (\E k \in DOMAIN w : w[k].start = b) <=> Has(a, b) \/ Has(c, b)
  PROVE  MergeBars(Aggregate(a), Aggregate(c)) = AllLeft(a, c, w)
<1>1. PICK N \in Nat : DOMAIN w = 1 .. N
  OBVIOUS
<1>2. PICK M : M = ToSet(Aggregate(c))
                     \cup {y \in ToSet(Aggregate(a)) : MergeKey(y) \notin Keys(Aggregate(c))}
  OBVIOUS
<1>3. \A x : x \in M <=> LeftIn(a, c, x)
  BY <1>2, LeftIs
<1>4. PICK h : h = AllLeft(a, c, w)
  OBVIOUS
<1>5. ASSUME NEW k \in 1 .. N
      PROVE  h[k] = Left(a, c, w[k].start) /\ h[k] \in M /\ h[k].start = w[k].start
  <2>1. h[k] = Left(a, c, w[k].start)
    BY <1>1, <1>4 DEF AllLeft
  <2>2. PICK b : b = w[k].start /\ (Has(a, b) \/ Has(c, b))
    BY <1>1
  <2>3. Left(a, c, b).start = b
    BY <2>2, BarAtIs DEF Left
  <2> QED BY <1>3, <2>1, <2>2, <2>3 DEF LeftIn
<1>6. h \in [1 .. N -> M]
  BY <1>1, <1>4, <1>5 DEF AllLeft
<1>7. ASSUME NEW x \in M PROVE x.start \in Int /\ \E k \in 1 .. N : h[k] = x
  <2>1. PICK b : (Has(a, b) \/ Has(c, b)) /\ x = Left(a, c, b)
    BY <1>3 DEF LeftIn
  <2>2. Left(a, c, b).start = b /\ b \in Nat
    BY <2>1, BarAtIs DEF Left
  <2>3. PICK k \in 1 .. N : w[k].start = b
    BY <1>1, <2>1
  <2> QED BY <1>5, <2>1, <2>2, <2>3
<1>8. \A j, k \in 1 .. N : j < k => h[j].start < h[k].start
  BY <1>1, <1>5
<1>9. InTime(M) = h
  BY <1>6, <1>7, <1>8, InTimeIs
<1> QED BY <1>2, <1>4, <1>9 DEF MergeBars

(* A list cut in two: what each bucket has of either part.                 *)
LEMMA CutsJoin ==
  ASSUME NEW T, NEW l \in Seq(T), NEW cut \in 0 .. Len(l)
  PROVE  /\ SubSeq(l, 1, cut) \in Seq(T) /\ Len(SubSeq(l, 1, cut)) = cut
         /\ SubSeq(l, cut + 1, Len(l)) \in Seq(T)
         /\ l = SubSeq(l, 1, cut) \o SubSeq(l, cut + 1, Len(l))
<1>1. PICK N \in Nat : N = Len(l) /\ DOMAIN l = 1 .. N
  OBVIOUS
<1>2. PICK a \in Seq(T) : /\ a = SubSeq(l, 1, cut) /\ Len(a) = cut
                          /\ \A i \in 1 .. cut : a[i] = l[i]
  <2>1. SubSeq(l, 1, cut) = [i \in 1 .. cut |-> l[i]]
    BY <1>1
  <2>2. \A i \in 1 .. cut : l[i] \in T
    BY <1>1
  <2>3. [i \in 1 .. cut |-> l[i]] \in Seq(T) /\ Len([i \in 1 .. cut |-> l[i]]) = cut
    BY <2>2
  <2> QED BY <2>1, <2>3
<1>3. PICK c \in Seq(T) : /\ c = SubSeq(l, cut + 1, N) /\ Len(c) = N - cut
                          /\ \A i \in 1 .. N - cut : c[i] = l[cut + i]
  <2>1. SubSeq(l, cut + 1, N) = [i \in 1 .. N - cut |-> l[cut + i]]
    BY <1>1
  <2>2. \A i \in 1 .. N - cut : l[cut + i] \in T
    BY <1>1
  <2>3. /\ [i \in 1 .. N - cut |-> l[cut + i]] \in Seq(T)
        /\ Len([i \in 1 .. N - cut |-> l[cut + i]]) = N - cut
    BY <1>1, <2>2
  <2> QED BY <2>1, <2>3
<1>4. \A i \in 1 .. N : (IF i <= cut THEN a[i] ELSE c[i - cut]) = l[i]
  <2>1. ASSUME NEW i \in 1 .. N, ~(i <= cut) PROVE c[i - cut] = l[i]
    <3>1. i - cut \in 1 .. N - cut /\ cut + (i - cut) = i
      BY <1>1, <2>1
    <3> QED BY <1>3, <3>1
  <2>2. ASSUME NEW i \in 1 .. N, i <= cut PROVE a[i] = l[i]
    <3>1. i \in 1 .. cut
      BY <2>2
    <3> QED BY <1>2, <3>1
  <2> QED BY <2>1, <2>2
<1>5. a \o c = [i \in 1 .. Len(a) + Len(c) |-> IF i <= Len(a) THEN a[i] ELSE c[i - Len(a)]]
  BY ConcatIs
<1>6. a \o c = [i \in 1 .. N |-> l[i]]
  <2>1. Len(a) + Len(c) = N
    <3>1. Len(a) = cut /\ Len(c) = N - cut
      BY <1>2, <1>3
    <3>2. PICK n \in Int : n = cut
      OBVIOUS
    <3>3. n + (N - n) = N
      OBVIOUS
    <3> QED BY <3>1, <3>2, <3>3
  <2>2. a \o c = [i \in 1 .. N |-> IF i <= cut THEN a[i] ELSE c[i - cut]]
    BY <1>2, <1>5, <2>1
  <2> QED BY <1>4, <2>2
<1>7. l = [i \in 1 .. N |-> l[i]]
  BY <1>1
<1> QED BY <1>1, <1>2, <1>3, <1>6, <1>7

HasUpTo(l, b, n)  == \E i \in DOMAIN l : l[i] \in SessionOf(b) /\ i <= n
HasAfter(l, b, n) == \E i \in DOMAIN l : l[i] \in SessionOf(b) /\ i > n

Parts(l, a, c, b) ==
  /\ Of(l, b) = Of(a, b) \o Of(c, b)
  /\ Has(a, b) <=> HasUpTo(l, b, Len(a))
  /\ Has(c, b) <=> HasAfter(l, b, Len(a))

LEMMA PartsOf ==
  ASSUME NEW a \in Seq(Ticks), NEW c \in Seq(Ticks), Follow(a, c), NEW b
  PROVE  Parts(a \o c, a, c, b)
<1> DEFINE l == a \o c
<1>1. PICK M \in Nat, K \in Nat : M = Len(a) /\ K = Len(c) /\ DOMAIN a = 1 .. M /\ DOMAIN c = 1 .. K
  OBVIOUS
<1>2. /\ DOMAIN l = 1 .. M + K
      /\ \A i \in 1 .. M : l[i] = a[i] /\ i \in 1 .. M + K
      /\ \A i \in 1 .. K : l[M + i] = c[i] /\ M + i \in 1 .. M + K /\ M + i > M
  <2>1. a \o c = [i \in 1 .. M + K |-> IF i <= M THEN a[i] ELSE c[i - M]]
    BY <1>1, ConcatIs
  <2>2. ASSUME NEW i \in 1 .. M PROVE l[i] = a[i] /\ i \in 1 .. M + K
    BY <2>1
  <2>3. ASSUME NEW i \in 1 .. K PROVE l[M + i] = c[i] /\ M + i \in 1 .. M + K /\ M + i > M
    <3>1. M + i \in 1 .. M + K /\ M + i > M /\ ~(M + i <= M) /\ (M + i) - M = i
      OBVIOUS
    <3> QED BY <2>1, <3>1
  <2> QED BY <2>1, <2>2, <2>3
<1>3. \A i \in 1 .. M + K : IF i <= M THEN i \in 1 .. M ELSE i - M \in 1 .. K /\ M + (i - M) = i
  OBVIOUS
<1>4. Of(l, b) = Of(a, b) \o Of(c, b)
  <2>1. Ordered(l) = Ordered(a) \o Ordered(c)
    BY TicksAreTyped, OrderedConcat DEF Follow
  <2>2. PICK s \in Seq(Ticks) : s = Ordered(a)
    BY TicksAreTyped, OrderedOrders
  <2>3. PICK t \in Seq(Ticks) : t = Ordered(c)
    BY TicksAreTyped, OrderedOrders
  <2>4. \A V : Only(s \o t, V) = Only(s, V) \o Only(t, V)
    BY OnlyConcat
  <2> QED BY <2>1, <2>2, <2>3, <2>4 DEF Of
<1>5. Has(a, b) <=> \E i \in DOMAIN l : l[i] \in SessionOf(b) /\ i <= M
  BY <1>1, <1>2, <1>3 DEF Has
<1>6. Has(c, b) <=> \E i \in DOMAIN l : l[i] \in SessionOf(b) /\ i > M
  <2>1. ASSUME NEW i \in DOMAIN l, l[i] \in SessionOf(b), i > M PROVE Has(c, b)
    <3>1. i - M \in 1 .. K /\ M + (i - M) = i
      BY <1>2, <1>3, <2>1
    <3>2. c[i - M] = l[i]
      BY <1>2, <3>1
    <3> QED BY <1>1, <2>1, <3>1, <3>2 DEF Has
  <2>2. ASSUME Has(c, b) PROVE \E i \in DOMAIN l : l[i] \in SessionOf(b) /\ i > M
    <3>1. PICK i \in 1 .. K : c[i] \in SessionOf(b)
      BY <1>1, <2>2 DEF Has
    <3> QED BY <1>2, <3>1
  <2> QED BY <2>1, <2>2
<1> HIDE DEF l
<1>7. Parts(l, a, c, b)
  BY <1>1, <1>4, <1>5, <1>6 DEF Parts, HasUpTo, HasAfter
<1> QED BY <1>7 DEF l

(* The bars after a restart: those one run leaves, but for the bucket the  *)
(* restart falls into, which keeps the ticks of the later part only.       *)
Restarted(m, w, later, cut) ==
  /\ [k \in DOMAIN m |-> m[k].start] = [k \in DOMAIN w |-> w[k].start]
  /\ \A k \in DOMAIN m :
       LET split == /\ \E i \in InBucket(w[k].start) : i <= cut
                    /\ \E i \in InBucket(w[k].start) : i > cut
       IN  IF split THEN m[k] \in ToSet(later) /\ m[k].count < w[k].count
                    ELSE m[k] = w[k]

LEMMA RestartKeeps ==
  ASSUME OneSymbol, NEW a \in Seq(Ticks), NEW c \in Seq(Ticks),
         ticks = a \o c, Follow(a, c)
  PROVE  Restarted(MergeBars(Aggregate(a), Aggregate(c)), Aggregate(ticks), Aggregate(c), Len(a))
<1>1. PICK cut \in Nat : cut = Len(a)
  OBVIOUS
<1>2. PICK w : w = Aggregate(ticks)
  OBVIOUS
<1>3. PICK m : m = MergeBars(Aggregate(a), Aggregate(c))
  OBVIOUS
<1>4. ticks \in Seq(Ticks)
  OBVIOUS
<1>5. /\ w \in Seq(BarFrom(Ticks))
      /\ \A j, k \in DOMAIN w : j < k => w[j].start < w[k].start
      /\ \A k \in DOMAIN w : Has(ticks, w[k].start) /\ w[k] = BarAt(ticks, w[k].start)
      /\ \A b : Has(ticks, b) => \E k \in DOMAIN w : w[k].start = b
  <2>1. PICK l \in Seq(Ticks) : l = ticks
    BY <1>4
  <2>2. w = Aggregate(l)
    BY <1>2, <2>1
  <2>3. BarsByBucket(l, w)
    BY <2>2, BarsOfBuckets
  <2> QED BY <2>1, <2>3 DEF BarsByBucket
<1>6. ASSUME NEW b
      PROVE  /\ Of(ticks, b) = Of(a, b) \o Of(c, b)
             /\ Has(a, b) <=> \E i \in DOMAIN ticks : ticks[i] \in SessionOf(b) /\ i <= cut
             /\ Has(c, b) <=> \E i \in DOMAIN ticks : ticks[i] \in SessionOf(b) /\ i > cut
  <2>1. Parts(a \o c, a, c, b)
    BY PartsOf, Zenon
  <2>2. Parts(ticks, a, c, b)
    BY <2>1, Zenon
  <2> QED BY <1>1, <2>2 DEF Parts, HasUpTo, HasAfter
<1>7. \A b : Has(ticks, b) <=> Has(a, b) \/ Has(c, b)
  <2>1. \A i \in DOMAIN ticks : i <= cut \/ i > cut
    BY <1>1, <1>4
  <2> QED BY <1>6, <2>1 DEF Has
<1>8. \A b : (\E k \in DOMAIN w : w[k].start = b) <=> Has(a, b) \/ Has(c, b)
  BY <1>5, <1>7
<1>9. m = AllLeft(a, c, w)
  <2>1. MergeBars(Aggregate(a), Aggregate(c)) = AllLeft(a, c, w)
    BY <1>5, <1>8, MergedBarsAre
  <2> QED BY <1>3, <2>1
<1>10. DOMAIN m = DOMAIN w /\ \A k \in DOMAIN w : m[k] = Left(a, c, w[k].start)
  BY <1>9 DEF AllLeft
<1>11. ASSUME NEW k \in DOMAIN w, NEW b, b = w[k].start
      PROVE  /\ m[k].start = b
             /\ Has(a, b) /\ Has(c, b) => m[k] \in ToSet(Aggregate(c)) /\ m[k].count < w[k].count
             /\ ~(Has(a, b) /\ Has(c, b)) => m[k] = w[k]
  <2>1. /\ Has(ticks, b) /\ w[k] = BarAt(ticks, b) /\ m[k] = Left(a, c, b)
        /\ Has(a, b) \/ Has(c, b)
    BY <1>5, <1>7, <1>10, <1>11
  <2>2. /\ Of(a, b) \in Seq(Ticks) /\ Of(c, b) \in Seq(Ticks)
        /\ Of(a, b) = <<>> <=> ~Has(a, b)
        /\ Of(c, b) = <<>> <=> ~Has(c, b)
        /\ Of(ticks, b) = Of(a, b) \o Of(c, b)
    BY <1>6, OfIs
  <2>3. m[k].start = b
    BY <2>1, BarAtIs DEF Left
  <2>4. CASE Has(a, b) /\ Has(c, b)
    <3>1. m[k] = BarAt(c, b)
      BY <2>1, <2>4 DEF Left
    <3>2. m[k] \in ToSet(Aggregate(c))
      BY <2>4, <3>1, BarsAsSet
    <3>3. m[k].count = Len(Of(c, b)) /\ w[k].count = Len(Of(ticks, b))
      <4>1. BarAt(c, b).count = Len(Of(c, b))
        BY <2>4, BarAtIs
      <4>2. BarAt(ticks, b).count = Len(Of(ticks, b))
        <5>1. PICK l \in Seq(Ticks) : l = ticks
          BY <1>4
        <5>2. Has(l, b)
          BY <2>1, <5>1
        <5>3. BarAt(l, b).count = Len(Of(l, b))
          BY <5>2, BarAtIs
        <5> QED BY <5>1, <5>3
      <4> QED BY <2>1, <3>1, <4>1, <4>2
    <3>4. Len(Of(ticks, b)) = Len(Of(a, b)) + Len(Of(c, b)) /\ Len(Of(a, b)) > 0
      BY <2>2, <2>4
    <3>5. Len(Of(c, b)) \in Nat /\ Len(Of(a, b)) \in Nat
      BY <2>2
    <3> QED BY <2>3, <2>4, <3>2, <3>3, <3>4, <3>5
  <2>5. CASE ~Has(a, b) /\ Has(c, b)
    <3>1. Of(ticks, b) = Of(c, b)
      BY <2>2, <2>5
    <3>2. m[k] = BarAt(c, b)
      BY <2>1, <2>5 DEF Left
    <3> QED BY <2>1, <2>3, <2>5, <3>1, <3>2 DEF BarAt
  <2>6. CASE Has(a, b) /\ ~Has(c, b)
    <3>1. Of(ticks, b) = Of(a, b)
      BY <2>2, <2>6
    <3>2. m[k] = BarAt(a, b)
      BY <2>1, <2>6 DEF Left
    <3> QED BY <2>1, <2>3, <2>6, <3>1, <3>2 DEF BarAt
  <2> QED BY <2>1, <2>4, <2>5, <2>6
<1>12. ASSUME NEW k \in DOMAIN w
      PROVE  (/\ \E i \in InBucket(w[k].start) : i <= cut
              /\ \E i \in InBucket(w[k].start) : i > cut)
               <=> Has(a, w[k].start) /\ Has(c, w[k].start)
  <2>1. InBucket(w[k].start) = {i \in DOMAIN ticks : ticks[i] \in SessionOf(w[k].start)}
    BY <1>4, InBucketIs
  <2> QED BY <1>6, <2>1
<1>13. ASSUME NEW k \in DOMAIN w
       PROVE  LET split == /\ \E i \in InBucket(w[k].start) : i <= cut
                           /\ \E i \in InBucket(w[k].start) : i > cut
              IN  IF split THEN m[k] \in ToSet(Aggregate(c)) /\ m[k].count < w[k].count
                           ELSE m[k] = w[k]
  BY <1>11, <1>12
<1>14. [k \in DOMAIN m |-> m[k].start] = [k \in DOMAIN w |-> w[k].start]
  BY <1>10, <1>11
<1>15. Restarted(m, w, Aggregate(c), cut)
  BY <1>10, <1>13, <1>14 DEF Restarted
<1> QED BY <1>1, <1>2, <1>3, <1>15

(* Held for lists of ticks of one symbol, of any length and cut anywhere.  *)
THEOREM RestartMergesBucketsHolds ==
  ASSUME OneSymbol
  PROVE  Spec => []RestartMergesBuckets
<1>1. AreTicks => RestartMergesBuckets
  <2> SUFFICES ASSUME ticks \in Seq(Ticks) PROVE RestartMergesBuckets
    BY DEF AreTicks
  <2>1. ASSUME NEW cut \in 0 .. Len(ticks),
               \A i \in DOMAIN SubSeq(ticks, 1, cut),
                  j \in DOMAIN SubSeq(ticks, cut + 1, Len(ticks)) :
                 SubSeq(ticks, 1, cut)[i].at <= SubSeq(ticks, cut + 1, Len(ticks))[j].at
        PROVE  Restarted(MergeBars(Aggregate(SubSeq(ticks, 1, cut)),
                                   Aggregate(SubSeq(ticks, cut + 1, Len(ticks)))),
                         Aggregate(ticks), Aggregate(SubSeq(ticks, cut + 1, Len(ticks))), cut)
    <3>1. PICK a \in Seq(Ticks) : a = SubSeq(ticks, 1, cut) /\ Len(a) = cut
      BY CutsJoin
    <3>2. PICK c \in Seq(Ticks) : c = SubSeq(ticks, cut + 1, Len(ticks))
      BY CutsJoin
    <3>3. ticks = a \o c
      BY <3>1, <3>2, CutsJoin
    <3>4. Follow(a, c)
      BY <2>1, <3>1, <3>2 DEF Follow
    <3>5. Restarted(MergeBars(Aggregate(a), Aggregate(c)), Aggregate(ticks), Aggregate(c), Len(a))
      BY <3>3, <3>4, RestartKeeps
    <3> QED BY <3>1, <3>2, <3>5
  <2> QED BY <2>1, Zenon DEF RestartMergesBuckets, Restarted
<1> QED BY <1>1, TicksListed, PTL

----------------------------------------------------------------------------
(* The recorded calendar is the calendar under the holidays of the file.   *)
LEMMA RecordedIs ==
  /\ \A d : Recorded!IsTradingDay(d) <=> Calendar(file.holidays)!IsTradingDay(d)
  /\ \A d, n : Recorded!AddSessions(d, n) = Calendar(file.holidays)!AddSessions(d, n)
BY DEF Calendar!IsTradingDay, Calendar!Weekday, Calendar!TradingWeekdays, Calendar!NextSession, Calendar!AddSessions,
       Recorded!IsTradingDay, Recorded!Weekday, Recorded!TradingWeekdays,
       Recorded!NextSession, Recorded!AddSessions

LEMMA NextIsOne ==
  ASSUME NEW H, NEW d, NEW s, NEW t, IsNext(H, s, d), IsNext(H, t, d)
  PROVE  s = t
<1>1. ~ (s < t) /\ ~ (t < s)
  BY DEF IsNext
<1> QED BY <1>1 DEF IsNext

(* Two calendars that agree from a to b give the same settlement dates,    *)
(* from a on and as far as b.                                              *)
Agree(H, K, a, b) == \A d \in a .. b : Calendar(H)!IsTradingDay(d) <=> Calendar(K)!IsTradingDay(d)

LEMMA NextAgrees ==
  ASSUME NEW H, NEW K, NEW a \in Int, NEW b \in Int, Agree(H, K, a, b),
         NEW d \in Int, a <= d, NEW s, IsNext(H, s, d), s <= b
  PROVE  IsNext(K, s, d)
<1>1. s \in Int /\ s \in a .. b
  BY DEF IsNext
<1>2. ASSUME NEW e \in Int, d < e, e < s PROVE ~ Calendar(K)!IsTradingDay(e)
  <2>1. e \in a .. b
    BY <1>1, <1>2
  <2> QED BY <1>2, <2>1 DEF IsNext, Agree
<1> QED BY <1>1, <1>2 DEF IsNext, Agree

LEMMA SettlementsAgree ==
  ASSUME NEW H \in SUBSET Candidates, NEW K \in SUBSET Candidates,
         NEW a \in Int, NEW b \in Int, Agree(H, K, a, b),
         NEW d \in Int, a <= d, NEW n \in Nat, Calendar(H)!AddSessions(d, n) <= b
  PROVE  Calendar(H)!AddSessions(d, n) = Calendar(K)!AddSessions(d, n)
<1>1. LongestClosure \in Nat /\ SessionsFollow(H) /\ SessionsFollow(K)
  BY ClosureAssumption, SessionsComeBack
<1>2. PICK f : Advances(H, f, d, n) /\ \A k \in 0 .. n : Calendar(H)!AddSessions(d, k) = f[k]
  BY <1>1, AddSessionsAdvances
<1>3. PICK g : Advances(K, g, d, n) /\ \A k \in 0 .. n : Calendar(K)!AddSessions(d, k) = g[k]
  BY <1>1, AddSessionsAdvances
<1>4. ASSUME NEW x \in Int, a <= x, Calendar(H)!NextSession(x) <= b
      PROVE  Calendar(K)!NextSession(x) = Calendar(H)!NextSession(x)
  <2>1. IsNext(K, Calendar(H)!NextSession(x), x) /\ IsNext(K, Calendar(K)!NextSession(x), x)
    BY <1>1, <1>4, NextSessionIs, NextAgrees
  <2> QED BY <2>1, NextIsOne
<1> DEFINE S == {k \in 0 .. n : f[k] <= b => g[k] = f[k] /\ a <= f[k]}
<1>5. 0 \in S
  <2>1. f[0] = Begin(H, d) /\ g[0] = Begin(K, d)
    BY <1>2, <1>3 DEF Advances
  <2>2. ASSUME f[0] <= b PROVE g[0] = f[0] /\ a <= f[0]
    <3>1. CASE Calendar(H)!IsTradingDay(d)
      BY <2>1, <2>2, <3>1 DEF Begin, Agree
    <3>2. CASE ~ Calendar(H)!IsTradingDay(d)
      <4>1. f[0] = Calendar(H)!NextSession(d) /\ IsNext(H, Calendar(H)!NextSession(d), d)
        BY <1>1, <2>1, <3>2, NextSessionIs DEF Begin
      <4>2. f[0] \in Int /\ d < f[0] /\ d \in a .. b
        BY <2>2, <4>1 DEF IsNext
      <4>3. g[0] = Calendar(K)!NextSession(d)
        BY <2>1, <3>2, <4>2 DEF Begin, Agree
      <4> QED BY <1>4, <2>2, <4>1, <4>2, <4>3
    <3> QED BY <3>1, <3>2
  <2> QED BY <2>2
<1>6. ASSUME NEW k \in 0 .. n - 1, k \in S PROVE k + 1 \in S
  <2>1. k + 1 \in 1 .. n /\ (k + 1) - 1 = k /\ k \in 0 .. n
    OBVIOUS
  <2>2. /\ f[k] \in Int /\ f[k + 1] = Calendar(H)!NextSession(f[k])
        /\ g[k + 1] = Calendar(K)!NextSession(g[k])
    BY <1>2, <1>3, <2>1 DEF Advances
  <2>3. IsNext(H, f[k + 1], f[k])
    BY <1>1, <2>2, NextSessionIs
  <2>4. f[k + 1] \in Int /\ f[k] < f[k + 1]
    BY <2>3 DEF IsNext
  <2>5. ASSUME f[k + 1] <= b PROVE g[k + 1] = f[k + 1] /\ a <= f[k + 1]
    <3>1. g[k] = f[k] /\ a <= f[k]
      BY <1>6, <2>2, <2>4, <2>5
    <3> QED BY <1>4, <2>2, <2>4, <2>5, <3>1
  <2> QED BY <2>1, <2>5
<1>7. n \in S
  <2>1. S \in SUBSET (0 .. n)
    OBVIOUS
  <2> HIDE DEF S
  <2> QED BY <1>5, <1>6, <2>1, LoopInduction
<1> QED BY <1>2, <1>3, <1>7

----------------------------------------------------------------------------
(* What the record keeps true: no bar of the days to come, and a file that *)
(* lists what the evidence of its range still calls closed.                *)
Evidence ==
  /\ today \in FirstDay .. LastDay /\ closures \in SUBSET Candidates
  /\ DOMAIN presence = FirstDay .. LastDay
  /\ \A d \in today .. LastDay : presence[d] = 0

FileFollows ==
  file.from # None =>
    /\ file.from \in Int /\ file.verified \in Int
    /\ FirstDay <= file.from /\ file.verified < today
    /\ file.holidays = {d \in file.from .. file.verified :
                          Calendar({})!IsTradingDay(d) /\ ~ AtLeast(d, 15)}

LEMMA EvidenceBegins ==
  ASSUME RecordInit
  PROVE  Evidence
<1>1. today = FirstDay /\ presence = [d \in FirstDay .. LastDay |-> 0] /\ closures \in SUBSET Candidates
  BY DEF RecordInit
<1> QED BY <1>1, RecordConstants, ClosureAssumption DEF Evidence

LEMMA RangeIs ==
  ASSUME Evidence, Sampled # {}
  PROVE  /\ Start \in Int /\ End \in Int
         /\ FirstDay <= Start /\ End < today
<1>1. FirstDay \in Int /\ LastDay \in Int /\ Sample \in Nat
  BY RecordConstants, ClosureAssumption
<1>2. IsFiniteSet(Sampled) /\ Sampled \in SUBSET Int
  <2>1. IsFiniteSet(FirstDay .. LastDay)
    BY <1>1, FS_Interval
  <2>2. Sampled \in SUBSET (FirstDay .. LastDay)
    BY DEF Sampled
  <2>3. IsFiniteSet(Sampled)
    BY <2>1, <2>2, FS_Subset
  <2>4. FirstDay .. LastDay \in SUBSET Int
    BY <1>1
  <2> QED BY <2>2, <2>3, <2>4
<1>3. PICK low \in Sampled : \A y \in Sampled : low <= y
  BY <1>2, FiniteExtremes
<1>4. PICK high \in Sampled : \A y \in Sampled : high >= y
  BY <1>2, FiniteExtremes
<1>5. Min(Sampled) \in Sampled
  BY <1>3 DEF Min
<1>6. End \in Sampled
  BY <1>4 DEF Max, End
<1>7. \A d \in Sampled : d \in Int /\ FirstDay <= d /\ d < today
  BY <1>1 DEF Sampled, Evidence
<1>8. PICK m \in Int, e \in Int : m = Min(Sampled) /\ e = End - Sample
  BY <1>1, <1>5, <1>6, <1>7
<1>9. Start \in {m, e} /\ Start >= m
  <2>1. Start = CHOOSE x \in {m, e} : \A y \in {m, e} : x >= y
    BY <1>8 DEF Start, Max
  <2>2. \E x \in {m, e} : \A y \in {m, e} : x >= y
    OBVIOUS
  <2> QED BY <2>1, <2>2
<1> QED BY <1>1, <1>5, <1>6, <1>7, <1>8, <1>9

LEMMA EvidenceKept ==
  ASSUME Evidence, [RecordNext]_recordVars
  PROVE  Evidence' /\ \A d \in FirstDay .. LastDay : d < today => presence'[d] = presence[d]
<1>1. FirstDay \in Int /\ LastDay \in Int
  BY RecordConstants, ClosureAssumption
<1>2. CASE Session \/ ClosedDay
  <2>1. PICK n : presence' = [presence EXCEPT ![today] = n]
    BY <1>2 DEF Session, ClosedDay
  <2>2. today < LastDay /\ today' = today + 1 /\ closures' = closures
    BY <1>2 DEF Session, ClosedDay
  <2>3. today' \in FirstDay .. LastDay /\ today \in Int
    BY <1>1, <2>2 DEF Evidence
  <2>4. \A d \in FirstDay .. LastDay : d # today => presence'[d] = presence[d]
    BY <2>1 DEF Evidence
  <2>5. DOMAIN presence' = FirstDay .. LastDay
    BY <2>1 DEF Evidence
  <2>6. ASSUME NEW d \in today' .. LastDay PROVE presence'[d] = 0
    <3>1. d \in today .. LastDay /\ d \in FirstDay .. LastDay /\ d # today
      BY <1>1, <2>2, <2>3, <2>6 DEF Evidence
    <3> QED BY <2>4, <3>1 DEF Evidence
  <2>7. \A d \in FirstDay .. LastDay : d < today => presence'[d] = presence[d]
    BY <2>3, <2>4
  <2> QED BY <2>2, <2>3, <2>5, <2>6, <2>7 DEF Evidence
<1>3. CASE Rewrite \/ UNCHANGED recordVars
  BY <1>3 DEF Rewrite, recordVars, Evidence
<1> QED BY <1>2, <1>3 DEF RecordNext

LEMMA FileKept ==
  ASSUME Evidence, FileFollows, [RecordNext]_recordVars
  PROVE  FileFollows'
<1>1. FirstDay \in Int /\ LastDay \in Int
  BY RecordConstants, ClosureAssumption
<1>2. CASE Rewrite
  <2>1. /\ file'.holidays = ClosedDays /\ file'.verified = End
        /\ file'.from = Start /\ presence' = presence /\ today' = today
        /\ Sampled # {}
    BY <1>2 DEF Rewrite, VerifiedThrough
  <2>2. /\ Start \in Int /\ End \in Int
        /\ FirstDay <= Start /\ End < today
    BY <2>1, RangeIs
  <2>3. ClosedDays = {d \in Start .. End :
                               Calendar({})!IsTradingDay(d) /\ ~ AtLeast(d, 15)}
    BY RecordedIs DEF ClosedDays, Weekdays
  <2>4. \A d : AtLeast(d, 15)' <=> AtLeast(d, 15)
    BY <2>1 DEF AtLeast
  <2> QED BY <2>1, <2>2, <2>3, <2>4 DEF FileFollows
<1>3. CASE ~ Rewrite
  <2>1. file' = file /\ today \in Int /\ today' \in Int /\ today <= today'
    <3>1. today \in Int
      BY <1>1 DEF Evidence
    <3>2. CASE Session
      BY <3>1, <3>2 DEF Session
    <3>3. CASE ClosedDay
      BY <3>1, <3>3 DEF ClosedDay
    <3>4. CASE UNCHANGED recordVars
      BY <3>1, <3>4 DEF recordVars
    <3> QED BY <1>3, <3>2, <3>3, <3>4 DEF RecordNext
  <2>2. SUFFICES ASSUME file.from # None PROVE FileFollows'
    BY <2>1 DEF FileFollows
  <2>3. \A d \in file.from .. file.verified : d \in FirstDay .. LastDay /\ d < today
    BY <1>1, <2>2 DEF FileFollows, Evidence
  <2>4. \A d \in file.from .. file.verified : AtLeast(d, 15)' <=> AtLeast(d, 15)
    BY <2>3, EvidenceKept DEF AtLeast
  <2>5. {d \in file.from .. file.verified : Calendar({})!IsTradingDay(d) /\ ~ AtLeast(d, 15)}
          = {d \in file.from .. file.verified : Calendar({})!IsTradingDay(d) /\ ~ AtLeast(d, 15)'}
    BY <2>4
  <2> QED BY <2>1, <2>2, <2>5 DEF FileFollows
<1> QED BY <1>2, <1>3

(* A settlement date the strict calendar vouches for is the true one, if   *)
(* the evidence of the days in the file told open from closed.             *)
LEMMA StrictFollows ==
  ASSUME Evidence, FileFollows
  PROVE  StrictIsTrue
<1> SUFFICES ASSUME file.from # None, Telling,
                    NEW d \in file.from .. LastDay, NEW n \in 0 .. 2, StrictlyAnswers(d, n)
             PROVE  Recorded!AddSessions(d, n) = Calendar(closures)!AddSessions(d, n)
  BY DEF StrictIsTrue
<1> DEFINE H == file.holidays
           a == file.from
           b == file.verified
<1>1. a \in Int /\ b \in Int /\ d \in Int /\ a <= d /\ n \in Nat
  BY RecordConstants, ClosureAssumption DEF FileFollows
<1>2. H = {e \in a .. b : Calendar({})!IsTradingDay(e) /\ ~ AtLeast(e, 15)}
  BY DEF FileFollows
<1>3. \A e \in a .. b : Calendar({})!IsTradingDay(e) =>
                          (Calendar(closures)!IsTradingDay(e) <=> AtLeast(e, 15))
  BY RecordedIs DEF Telling, Open
<1>4. H \in SUBSET Candidates /\ closures \in SUBSET Candidates
  BY <1>2, <1>3, IsOpenDay DEF Evidence
<1>5. Agree(H, closures, a, b)
  BY <1>2, <1>3, IsOpenDay DEF Agree
<1>6. Calendar(H)!AddSessions(d, n) <= b
  BY RecordedIs DEF StrictlyAnswers
<1> HIDE DEF H, a, b
<1>7. Calendar(H)!AddSessions(d, n) = Calendar(closures)!AddSessions(d, n)
  BY <1>1, <1>4, <1>5, <1>6, SettlementsAgree
<1> QED BY <1>7, RecordedIs DEF H

(* Whatever the constants, a strict calendar gives no wrong settlement     *)
(* date that its evidence did not mislead it to (egx.py "Refusing to       *)
(* guess").                                                                *)
THEOREM StrictIsTrueHolds == RecordSpec => []StrictIsTrue
<1>1. RecordInit => Evidence /\ FileFollows
  <2>1. RecordInit => FileFollows
    BY DEF RecordInit, FileFollows
  <2> QED BY <2>1, EvidenceBegins
<1>2. Evidence /\ FileFollows /\ [RecordNext]_recordVars => Evidence' /\ FileFollows'
  BY EvidenceKept, FileKept
<1>3. Evidence /\ FileFollows => StrictIsTrue
  BY StrictFollows
<1> QED BY <1>1, <1>2, <1>3, PTL DEF RecordSpec

----------------------------------------------------------------------------
(* The compounded band, which is what the loop of Compounded makes of it.  *)
Powers(p, factor, N) ==
  p \in [0 .. N -> Nat] /\ p[0] = 1 /\ \A n \in 1 .. N : p[n] = factor * p[n - 1]

LEMMA CompoundedIs ==
  ASSUME NEW factor \in Nat, NEW N \in Nat
  PROVE  \E p : Powers(p, factor, N) /\ \A n \in 0 .. N : Gate!Compounded(factor, n) = p[n]
<1> DEFINE F == [x \in Nat \X (1 .. N) |-> factor * x[1]]
<1>1. F \in [Nat \X (1 .. N) -> Nat]
  OBVIOUS
<1>2. PICK p : IsLoop(p, N, Nat, 1, F)
  <2> HIDE DEF F
  <2> QED BY <1>1, LoopExists
<1>3. Powers(p, factor, N)
  <2>1. ASSUME NEW n \in 1 .. N PROVE p[n] = factor * p[n - 1]
    <3>1. p[n - 1] \in Nat /\ p[n] = F[<<p[n - 1], n>>]
      <4>1. n - 1 \in 0 .. N
        OBVIOUS
      <4> HIDE DEF F
      <4> QED BY <1>2, <4>1 DEF IsLoop
    <3> QED BY <3>1
  <2> QED BY <1>2, <2>1 DEF IsLoop, Powers
<1>4. ASSUME NEW n \in 0 .. N PROVE Gate!Compounded(factor, n) = p[n]
  <2> DEFINE Body(f) == [k \in 0 .. n |-> IF k = 0 THEN 1 ELSE factor * f[k - 1]]
             over == CHOOSE f : f = Body(f)
             g == [k \in 0 .. n |-> p[k]]
  <2>1. g = Body(g)
    <3>1. ASSUME NEW k \in 0 .. n
          PROVE  g[k] = IF k = 0 THEN 1 ELSE factor * g[k - 1]
      <4>1. CASE k = 0
        BY <1>3, <4>1 DEF Powers
      <4>2. CASE k # 0
        <5>1. k \in 1 .. N /\ k - 1 \in 0 .. n
          BY <4>2
        <5>2. p[k] = factor * p[k - 1]
          BY <1>3, <5>1 DEF Powers
        <5> QED BY <4>2, <5>1, <5>2
      <4> QED BY <4>1, <4>2
    <3> QED BY <3>1
  <2>2. over = Body(over)
    <3> HIDE DEF Body, g
    <3> QED BY <2>1
  <2>3. ASSUME NEW k \in 0 .. n
        PROVE  over[k] = IF k = 0 THEN 1 ELSE factor * over[k - 1]
    <3> HIDE DEF over
    <3> QED BY <2>2
  <2>4. Gate!Compounded(factor, n) = over[n]
    BY DEF Gate!Compounded, over
  <2> HIDE DEF over
  <2> DEFINE S == {k \in 0 .. n : over[k] = p[k]}
  <2>5. 0 \in S
    BY <1>3, <2>3 DEF Powers
  <2>6. ASSUME NEW k \in 0 .. n - 1, k \in S PROVE k + 1 \in S
    <3>1. k + 1 \in 0 .. n /\ k + 1 \in 1 .. N /\ k + 1 # 0 /\ (k + 1) - 1 = k
      OBVIOUS
    <3>2. over[k + 1] = factor * over[k]
      BY <2>3, <3>1
    <3>3. p[k + 1] = factor * p[k]
      BY <1>3, <3>1 DEF Powers
    <3> QED BY <2>6, <3>1, <3>2, <3>3
  <2>7. n \in S
    <3>1. S \in SUBSET (0 .. n)
      OBVIOUS
    <3> HIDE DEF S
    <3> QED BY <2>5, <2>6, <3>1, LoopInduction
  <2> QED BY <2>4, <2>7
<1> QED BY <1>3, <1>4

LEMMA CompoundedNext ==
  ASSUME NEW factor \in Nat, NEW n \in Nat
  PROVE  /\ Gate!Compounded(factor, n) \in Nat
         /\ Gate!Compounded(factor, 0) = 1
         /\ Gate!Compounded(factor, n + 1) = factor * Gate!Compounded(factor, n)
<1>1. PICK p : Powers(p, factor, n + 1) /\ \A k \in 0 .. n + 1 : Gate!Compounded(factor, k) = p[k]
  BY CompoundedIs
<1>2. 0 \in 0 .. n + 1 /\ n \in 0 .. n + 1 /\ n + 1 \in 1 .. n + 1 /\ n + 1 \in 0 .. n + 1 /\ (n + 1) - 1 = n
  OBVIOUS
<1> QED BY <1>1, <1>2 DEF Powers

(* A price that was a and is b, n sessions later, kept within the band.    *)
Band(factor, n) == Gate!Compounded(factor, n)

LEMMA BandNext ==
  ASSUME NEW factor \in Nat, NEW n \in Nat
  PROVE  /\ Band(factor, n) \in Nat /\ Band(factor, 0) = 1
         /\ Band(factor, n + 1) = factor * Band(factor, n)
BY CompoundedNext DEF Band

LEMMA BandsNext ==
  ASSUME NEW n \in Nat
  PROVE  /\ Band(4, n) \in Nat /\ Band(5, n) \in Nat /\ Band(6, n) \in Nat
         /\ Band(4, n + 1) = 4 * Band(4, n)
         /\ Band(5, n + 1) = 5 * Band(5, n)
         /\ Band(6, n + 1) = 6 * Band(6, n)
<1>1. Band(4, n) \in Nat /\ Band(4, n + 1) = 4 * Band(4, n)
  BY BandNext, 4 \in Nat
<1>2. Band(5, n) \in Nat /\ Band(5, n + 1) = 5 * Band(5, n)
  BY BandNext, 5 \in Nat
<1>3. Band(6, n) \in Nat /\ Band(6, n + 1) = 6 * Band(6, n)
  BY BandNext, 6 \in Nat
<1> QED BY <1>1, <1>2, <1>3

InBand(a, b, n) == b * Band(5, n) <= a * Band(6, n) /\ a * Band(4, n) <= b * Band(5, n)

LEMMA TimesGrows == ASSUME NEW x \in Int, NEW y \in Int, NEW c \in Nat, x <= y PROVE x * c <= y * c
  OBVIOUS

LEMMA InBandStep ==
  ASSUME NEW a \in Nat, NEW b \in Nat, NEW c \in Nat, NEW n \in Nat, InBand(a, b, n),
         5 * c <= 6 * b, 4 * b <= 5 * c
  PROVE  InBand(a, c, n + 1)
<1>1. PICK x \in Nat, y \in Nat, z \in Nat :
        /\ x = Band(4, n) /\ y = Band(5, n) /\ z = Band(6, n)
        /\ 4 * x = Band(4, n + 1) /\ 5 * y = Band(5, n + 1) /\ 6 * z = Band(6, n + 1)
  <2>1. PICK x \in Nat : x = Band(4, n) /\ 4 * x = Band(4, n + 1)
    BY BandsNext
  <2>2. PICK y \in Nat : y = Band(5, n) /\ 5 * y = Band(5, n + 1)
    BY BandsNext
  <2>3. PICK z \in Nat : z = Band(6, n) /\ 6 * z = Band(6, n + 1)
    BY BandsNext
  <2> QED BY <2>1, <2>2, <2>3
<1>2. b * y <= a * z /\ a * x <= b * y
  BY <1>1 DEF InBand
<1>3. (5 * c) * y <= (6 * b) * y /\ (4 * b) * y <= (5 * c) * y
  BY TimesGrows, 5 * c \in Int, 6 * b \in Int, 4 * b \in Int
<1>4. PICK by \in Nat, az \in Nat, ax \in Nat, cy \in Nat : by = b * y /\ az = a * z /\ ax = a * x /\ cy = c * y
  OBVIOUS
<1>5. /\ (5 * c) * y = 5 * cy /\ (6 * b) * y = 6 * by /\ (4 * b) * y = 4 * by
      /\ c * (5 * y) = 5 * cy /\ a * (6 * z) = 6 * az /\ a * (4 * x) = 4 * ax
  BY <1>4
<1>6. 5 * cy <= 6 * az /\ 4 * ax <= 5 * cy
  BY <1>2, <1>3, <1>4, <1>5
<1> QED BY <1>1, <1>5, <1>6 DEF InBand

LEMMA BandsSpread ==
  ASSUME NEW n \in Nat
  PROVE  /\ Band(4, n) \in Nat /\ Band(5, n) \in Nat /\ Band(6, n) \in Nat
         /\ 2 * Band(5, n) <= Band(4, n) + Band(6, n)
<1> DEFINE S == {k \in Nat : /\ Band(4, k) <= Band(6, k)
                             /\ 2 * Band(5, k) <= Band(4, k) + Band(6, k)}
<1>1. 0 \in S
  BY BandNext, 4 \in Nat, 5 \in Nat, 6 \in Nat
<1>2. ASSUME NEW k \in S PROVE k + 1 \in S
  <2>1. PICK x \in Nat, y \in Nat, z \in Nat :
          /\ x = Band(4, k) /\ y = Band(5, k) /\ z = Band(6, k)
          /\ 4 * x = Band(4, k + 1) /\ 5 * y = Band(5, k + 1) /\ 6 * z = Band(6, k + 1)
    <3>1. PICK x \in Nat : x = Band(4, k) /\ 4 * x = Band(4, k + 1)
      BY <1>2, BandsNext
    <3>2. PICK y \in Nat : y = Band(5, k) /\ 5 * y = Band(5, k + 1)
      BY <1>2, BandsNext
    <3>3. PICK z \in Nat : z = Band(6, k) /\ 6 * z = Band(6, k + 1)
      BY <1>2, BandsNext
    <3> QED BY <3>1, <3>2, <3>3
  <2> QED BY <1>2, <2>1
<1>3. n \in S
  <2>1. S \in SUBSET Nat
    OBVIOUS
  <2> HIDE DEF S
  <2> QED BY <1>1, <1>2, <2>1, NatInductionSet
<1> QED BY <1>3, BandNext, 4 \in Nat, 5 \in Nat, 6 \in Nat

LEMMA NotBeyond ==
  ASSUME NEW before, NEW bar, before.close \in Nat, bar.close \in Nat,
         Thresholds.band = 5, Gate!Elapsed(before, bar) \in Nat,
         InBand(before.close, bar.close, Gate!Elapsed(before, bar))
  PROVE  Gate!Excess(before, bar) \in Int /\ Gate!Excess(before, bar) <= 0
<1>1. PICK a \in Nat, b \in Nat, n \in Nat :
        a = before.close /\ b = bar.close /\ n = Gate!Elapsed(before, bar)
  OBVIOUS
<1>2. PICK x \in Nat, y \in Nat, z \in Nat :
        x = Band(4, n) /\ y = Band(5, n) /\ z = Band(6, n) /\ 2 * y <= x + z
  BY BandsSpread
<1>3. b * y <= a * z /\ a * x <= b * y
  BY <1>1, <1>2 DEF InBand
<1>4. PICK by \in Nat, ay \in Nat, az \in Nat, ax \in Nat :
        by = b * y /\ ay = a * y /\ az = a * z /\ ax = a * x
  OBVIOUS
<1>5. a * (2 * y) <= a * (x + z) /\ a * (2 * y) = 2 * ay /\ a * (x + z) = ax + az
      /\ (b - a) * y = by - ay /\ (a - b) * y = ay - by /\ a * (z - y) = az - ay
  <2>1. a * (2 * y) = 2 * ay /\ a * (x + z) = ax + az
    BY <1>4
  <2>2. (b - a) * y = by - ay /\ (a - b) * y = ay - by /\ a * (z - y) = az - ay
    BY <1>4
  <2>3. (2 * y) * a <= (x + z) * a
    BY <1>2, TimesGrows, 2 * y \in Int, x + z \in Int
  <2>4. a * (2 * y) = (2 * y) * a /\ a * (x + z) = (x + z) * a
    OBVIOUS
  <2> QED BY <2>1, <2>2, <2>3, <2>4
<1>6. (b - a) * y <= a * (z - y) /\ (a - b) * y <= a * (z - y)
  BY <1>3, <1>4, <1>5
<1>7. Gate!Excess(before, bar) = (IF b > a THEN b - a ELSE a - b) * y - a * (z - y)
  BY <1>1, <1>2 DEF Gate!Excess, Band
<1>8. PICK up \in Int, down \in Int, room \in Int :
        up = (b - a) * y /\ down = (a - b) * y /\ room = a * (z - y)
  OBVIOUS
<1>9. Gate!Excess(before, bar) = IF b > a THEN up - room ELSE down - room
  BY <1>7, <1>8
<1> QED BY <1>6, <1>8, <1>9

----------------------------------------------------------------------------
LEMMA OpenIs ==
  \A d : Open(d) <=> Weekday(d) \in TradingWeekdays /\ d \notin closures
BY RecordedIs, IsOpenDay DEF Open

(* The closes of the exchange that the rows may have come from.            *)
Around(price, d) == IF d \in SplitDays THEN price[d - 1] \div 2 ELSE price[d - 1]

History(price) ==
  /\ price \in [FirstDay - 1 .. today - 1 -> Nat] /\ price[today - 1] = close
  /\ \A d \in FirstDay - 1 .. today - 1 : price[d] >= Least
  /\ \A d \in FirstDay .. today - 1 :
       /\ Open(d) => price[d] \in Within(Around(price, d))
       /\ ~ Open(d) => price[d] = price[d - 1]

AnyRow == [date : Int, close : Nat \cup {None}, volume : {0, 1}]

Tells(price) ==
  /\ rows \in Seq(AnyRow) /\ Len(rows) = today - FirstDay
  /\ \A i \in 1 .. Len(rows) :
       /\ rows[i].date = FirstDay + i - 1
       /\ rows[i].close = None => rows[i].volume = 0
       /\ rows[i].close # None => Open(rows[i].date) /\ rows[i].close = price[rows[i].date]

Tape == lag \in SplitLags /\ \E price : History(price) /\ Tells(price)

LEMMA TapeBegins ==
  ASSUME RecordInit
  PROVE  Tape
<1>1. FirstDay \in Int /\ StartClose \in Nat /\ Least \in Nat /\ StartClose >= Least
  BY RecordConstants, ClosureAssumption
<1>2. today = FirstDay /\ rows = <<>> /\ close = StartClose /\ lag \in SplitLags
  BY DEF RecordInit
<1>3. PICK price : price = [d \in FirstDay - 1 .. FirstDay - 1 |-> StartClose]
  OBVIOUS
<1>4. History(price)
  BY <1>1, <1>2, <1>3 DEF History
<1>5. Tells(price)
  BY <1>1, <1>2 DEF Tells
<1> QED BY <1>2, <1>4, <1>5 DEF Tape

(* A day goes by: the close c of the day joins the history, and a row the  *)
(* rows.                                                                   *)
LEMMA DayTells ==
  ASSUME Evidence, NEW price, History(price), Tells(price),
         today' = today + 1, closures' = closures, today < LastDay, NEW row \in AnyRow, NEW c \in Nat,
         rows' = Append(rows, row), row.date = today, close' = c, c >= Least,
         Open(today) => c \in Within(Around(price, today)),
         ~ Open(today) => c = close,
         row.close = None => row.volume = 0,
         row.close # None => Open(today) /\ row.close = c
  PROVE  \E q : History(q)' /\ Tells(q)'
<1>1. FirstDay \in Int /\ LastDay \in Int /\ today \in Int /\ FirstDay <= today
  BY RecordConstants, ClosureAssumption DEF Evidence
<1>2. PICK q : q = [d \in FirstDay - 1 .. today |-> IF d = today THEN c ELSE price[d]]
  OBVIOUS
<1>3. \A d : Open(d)' <=> Open(d)
  BY DEF Open, Calendar!IsTradingDay, Calendar!Weekday, Calendar!TradingWeekdays
<1>4. /\ q \in [FirstDay - 1 .. today -> Nat] /\ q[today] = c
      /\ \A d \in FirstDay - 1 .. today - 1 : q[d] = price[d]
  BY <1>1, <1>2 DEF History
<1>5. (today - 1) + 1 = today /\ today' - 1 = today
  BY <1>1
<1>6. History(q)'
  <2>1. q \in [FirstDay - 1 .. today' - 1 -> Nat] /\ q[today' - 1] = close'
    BY <1>4, <1>5
  <2>2. ASSUME NEW d \in FirstDay - 1 .. today PROVE q[d] >= Least
    BY <1>1, <1>4 DEF History
  <2>3. ASSUME NEW d \in FirstDay .. today
        PROVE  /\ Open(d) => q[d] \in Within(Around(q, d))
               /\ ~ Open(d) => q[d] = q[d - 1]
    <3>1. d - 1 \in FirstDay - 1 .. today - 1 /\ q[d - 1] = price[d - 1]
      BY <1>1, <1>4
    <3>2. Around(q, d) = Around(price, d)
      BY <3>1 DEF Around
    <3>3. CASE d = today
      BY <1>4, <3>1, <3>2, <3>3 DEF History
    <3>4. CASE d # today
      <4>1. d \in FirstDay .. today - 1 /\ q[d] = price[d]
        BY <1>1, <1>4, <3>4
      <4> QED BY <3>1, <3>2, <4>1 DEF History
    <3> QED BY <3>3, <3>4
  <2>4. \A x : Within(x)' = Within(x)
    BY DEF Within
  <2>5. \A d : Around(q, d)' = Around(q, d)
    BY DEF Around
  <2> QED BY <1>3, <1>5, <2>1, <2>2, <2>3, <2>4, <2>5 DEF History
<1>7. Tells(q)'
  <2>1. PICK n \in Nat : n = Len(rows)
    BY DEF Tells
  <2>2. rows' \in Seq(AnyRow) /\ Len(rows') = n + 1 /\ n = today - FirstDay
    BY <2>1 DEF Tells
  <2>3. rows'[n + 1] = row /\ \A i \in 1 .. n : rows'[i] = rows[i]
    BY <2>1 DEF Tells
  <2>4. n + 1 = today' - FirstDay /\ FirstDay + (n + 1) - 1 = today
    BY <1>1, <2>2
  <2>5. ASSUME NEW i \in 1 .. n + 1
        PROVE  /\ rows'[i].date = FirstDay + i - 1
               /\ rows'[i].close = None => rows'[i].volume = 0
               /\ rows'[i].close # None =>
                    Open(rows'[i].date) /\ rows'[i].close = q[rows'[i].date]
    <3>1. CASE i = n + 1
      BY <1>4, <2>3, <2>4, <3>1
    <3>2. CASE i # n + 1
      <4>0. i \in 1 .. n
        BY <2>1, <3>2
      <4>1. i \in 1 .. n /\ rows'[i] = rows[i]
        BY <2>3, <4>0
      <4>2. FirstDay + i - 1 \in FirstDay - 1 .. today - 1
        BY <1>1, <2>2, <4>1
      <4>3. /\ rows[i].date = FirstDay + i - 1
            /\ rows[i].close = None => rows[i].volume = 0
            /\ rows[i].close # None => Open(rows[i].date) /\ rows[i].close = price[rows[i].date]
        BY <2>1, <4>1 DEF Tells
      <4> QED BY <1>4, <4>1, <4>2, <4>3
    <3> QED BY <3>1, <3>2
  <2> QED BY <1>3, <2>2, <2>4, <2>5 DEF Tells
<1> QED BY <1>6, <1>7

LEMMA TapeKept ==
  ASSUME Evidence, Tape, [RecordNext]_recordVars
  PROVE  Tape'
<1>1. PICK price : History(price) /\ Tells(price)
  BY DEF Tape
<1>2. FirstDay \in Int /\ LastDay \in Int /\ today \in Int /\ FirstDay <= today /\ None \notin Int
  BY RecordConstants, ClosureAssumption DEF Evidence
<1>3. today - 1 \in FirstDay - 1 .. today - 1 /\ close \in Nat /\ close = price[today - 1] /\ close >= Least
  BY <1>1, <1>2 DEF History
<1>4. CASE Session
  <2>1. PICK c \in Within(Reference) :
          c >= Least /\ close' = c /\ \E row \in RowsOf(c) : rows' = Append(rows, row)
    BY <1>4 DEF Session
  <2>2. PICK row \in RowsOf(c) : rows' = Append(rows, row)
    BY <2>1
  <2>3. /\ today < LastDay /\ Open(today) /\ today' = today + 1
        /\ closures' = closures /\ lag' = lag
    BY <1>4 DEF Session
  <2>4. Reference = Around(price, today) /\ Reference \in Nat
    BY <1>3 DEF Reference, Around
  <2>5. c \in Nat
    BY <2>1, <2>4 DEF Within
  <2>6. /\ row \in AnyRow /\ row.date = today
        /\ row.close = None => row.volume = 0
        /\ row.close # None => row.close = c
    BY <1>2, <2>2, <2>5 DEF RowsOf, Null, Row, AnyRow
  <2> QED BY <1>1, <2>1, <2>2, <2>3, <2>4, <2>5, <2>6, DayTells DEF Tape
<1>5. CASE ClosedDay
  <2>1. /\ today < LastDay /\ ~ Open(today) /\ today' = today + 1
        /\ closures' = closures /\ lag' = lag /\ close' = close /\ rows' = Append(rows, Null)
    BY <1>5 DEF ClosedDay
  <2>2. /\ Null \in AnyRow /\ Null.date = today
        /\ Null.close = None /\ Null.volume = 0
    BY <1>2 DEF Null, Row, AnyRow
  <2> QED BY <1>1, <1>3, <2>1, <2>2, DayTells DEF Tape
<1>6. CASE Rewrite \/ UNCHANGED recordVars
  <2>1. /\ closures' = closures /\ today' = today /\ rows' = rows
        /\ close' = close /\ lag' = lag
    BY <1>6 DEF Rewrite, recordVars
  <2>2. \A d : Open(d)' <=> Open(d)
    BY <2>1 DEF Open, Calendar!IsTradingDay, Calendar!Weekday,
               Calendar!TradingWeekdays
  <2>3. \A x : Within(x)' = Within(x)
    BY DEF Within
  <2>4. \A d : Around(price, d)' = Around(price, d)
    BY DEF Around
  <2>5. History(price)'
    BY <1>1, <2>1, <2>2, <2>3, <2>4 DEF History
  <2>6. Tells(price)'
    BY <1>1, <2>1, <2>2 DEF Tells
  <2> QED BY <2>1, <2>5, <2>6, <1>6 DEF Tape
<1> QED BY <1>4, <1>5, <1>6 DEF RecordNext

----------------------------------------------------------------------------
LEMMA SamePicked == ASSUME NEW seq, NEW S PROVE Feed!Picked(seq, S) = Picked(seq, S)
BY DEF Feed!Picked, Picked

LEMMA SameMax ==
  ASSUME NEW S
  PROVE  Feed!Max(S) = Max(S) /\ Gate!Max(S) = Max(S)
BY DEF Feed!Max, Gate!Max, Max

(* The rows that are whole, at the positions e, of which the gates see the *)
(* first L: the rest are placeholders.                                     *)
WholeAt == {i \in DOMAIN rows : rows[i].close # None}
NullAt  == {i \in DOMAIN rows : rows[i].close = None}
Kept    == Picked(rows, WholeAt)
Dropped == Picked(rows, NullAt)

IsTrimmed(L) ==
  /\ L \in 0 .. Len(Kept)
  /\ L > 0 => Kept[L].volume # 0
  /\ \A k \in 1 .. Len(Kept) : k > L => Kept[k].volume = 0

LEMMA FetchedIs ==
  ASSUME rows \in Seq(AnyRow)
  PROVE  /\ Kept \in Seq(AnyRow) /\ Dropped \in Seq(AnyRow)
         /\ \E L : IsTrimmed(L) /\ Fetched.candles = SubSeq(Kept, 1, L)
         /\ Fetched.dropped = Dropped
         /\ Fetched.splits =
              {[date |-> d + lag, numerator |-> 2, denominator |-> 1] :
                 d \in {d \in SplitDays : d < today /\ Open(d)}}
<1>1. Kept \in Seq(AnyRow) /\ Dropped \in Seq(AnyRow)
  <2>1. \A i \in DOMAIN rows : rows[i] \in AnyRow
    OBVIOUS
  <2>2. Kept \in Seq(AnyRow)
    BY <2>1, PickedType DEF Kept
  <2>3. Dropped \in Seq(AnyRow)
    BY <2>1, PickedType DEF Dropped
  <2> QED BY <2>2, <2>3
<1>2. PICK K \in Seq(AnyRow), n \in Nat : K = Kept /\ n = Len(K)
  BY <1>1
<1> DEFINE Traded == {0} \cup {k \in DOMAIN K : ~ Feed!Placeholder(K[k])}
           L == Max(Traded)
<1>3. L \in Traded /\ \A k \in Traded : k <= L
  <2>1. IsFiniteSet(0 .. n)
    BY FS_Interval
  <2>2. Traded \in SUBSET (0 .. n) /\ Traded # {} /\ Traded \in SUBSET Int
    BY <1>2
  <2> HIDE DEF Traded
  <2>3. IsFiniteSet(Traded)
    BY <2>1, <2>2, FS_Subset
  <2> QED BY <2>2, <2>3, FiniteExtremes
<1> HIDE DEF L
<1>4. IsTrimmed(L)
  BY <1>2, <1>3 DEF IsTrimmed, Feed!Placeholder
<1>5. Feed!Whole(rows) = Kept
  BY SamePicked DEF Feed!Whole, Kept, WholeAt
<1>6. Feed!Trimmed(Kept) = SubSeq(Kept, 1, L)
  BY <1>2, SameMax DEF Feed!Trimmed, L
<1>7. Feed!ParseChart(rows).candles = SubSeq(Kept, 1, L)
  BY <1>5, <1>6 DEF Feed!ParseChart
<1>8. Feed!ParseChart(rows).dropped = Dropped
  BY SamePicked DEF Feed!ParseChart, Dropped, NullAt
<1> QED BY <1>1, <1>4, <1>7, <1>8 DEF Fetched

----------------------------------------------------------------------------
(* The counts of the rows.                                                 *)
LEMMA SameCounts ==
  ASSUME NEW S
  PROVE  /\ Gate!Cardinality(S) = Cardinality(S)
         /\ Recorded!Cardinality(S) = Cardinality(S)
         /\ \A H : Calendar(H)!Cardinality(S) = Cardinality(S)
BY DEF Gate!Cardinality, Recorded!Cardinality, Calendar!Cardinality, Cardinality

(* What is kept in order is as much as there are positions to keep it from. *)
Matching(e, p, seq, S, P, Q) ==
  /\ InOrder(e, p, seq, S)
  /\ P \subseteq DOMAIN p /\ Q \subseteq DOMAIN seq \cap S
  /\ \A j \in DOMAIN p : j \in P <=> e[j] \in Q

LEMMA KeptCounts ==
  ASSUME NEW A, NEW seq \in Seq(A), NEW S, NEW p \in Seq(A), NEW e, NEW P, NEW Q,
         Matching(e, p, seq, S, P, Q)
  PROVE  IsFiniteSet(P) /\ IsFiniteSet(Q) /\ Cardinality(P) = Cardinality(Q)
<1>1. PICK n \in Nat : n = Len(p) /\ DOMAIN p = 1 .. n
  OBVIOUS
<1>2. IsFiniteSet(P)
  <2>1. IsFiniteSet(1 .. n)
    BY FS_Interval
  <2> QED BY <1>1, <2>1, FS_Subset DEF Matching
<1> DEFINE f == [j \in P |-> e[j]]
<1>3. f \in [P -> Q]
  BY DEF InOrder, Matching
<1>4. ASSUME NEW j \in P, NEW k \in P, f[j] = f[k] PROVE j = k
  <2>1. j \in Int /\ k \in Int /\ e[j] = e[k] /\ e[j] \in Int
    <3>1. DOMAIN seq \in SUBSET Int /\ e[j] \in DOMAIN seq
      BY DEF InOrder, Matching
    <3> QED BY <1>1, <1>4, <3>1 DEF Matching
  <2>2. ~ (j < k) /\ ~ (k < j)
    BY <2>1 DEF InOrder, Matching
  <2> QED BY <2>1, <2>2
<1>5. ASSUME NEW i \in Q PROVE \E j \in P : f[j] = i
  BY DEF InOrder, Matching
<1>6. f \in Bijection(P, Q)
  <2> HIDE DEF f
  <2> QED BY <1>3, <1>4, <1>5 DEF Bijection, Injection, Surjection, IsInjective
<1>7. ExistsBijection(P, Q)
  BY <1>6 DEF ExistsBijection
<1> QED BY <1>2, <1>7, FS_Bijection

(* With all closures in the file, the gate counts the sessions lost.       *)
LEMMA DropsAreLost ==
  ASSUME rows \in Seq(AnyRow), file.holidays = closures
  PROVE  /\ IsFiniteSet(Lost)
         /\ Gate!Cardinality(Gate!RealDrops(Fetched)) = Cardinality(Lost)
<1>1. PICK e : InOrder(e, Dropped, rows, NullAt)
  BY PickedInOrder DEF Dropped
<1>2. Dropped \in Seq(AnyRow) /\ Fetched.dropped = Dropped
  BY FetchedIs
<1>3. \A d : Recorded!IsTradingDay(d) <=> Open(d)
  BY RecordedIs DEF Open
<1> DEFINE P == {j \in DOMAIN Dropped : Open(Dropped[j].date)}
<1>4. Gate!RealDrops(Fetched) = P
  BY <1>2, <1>3 DEF Gate!RealDrops
<1>5. P \in SUBSET (DOMAIN Dropped)
  OBVIOUS
<1>6. Lost = {i \in DOMAIN rows \cap NullAt : Open(rows[i].date)}
  BY DEF Lost, SessionRows, NullAt
<1>7. \A j \in DOMAIN Dropped : e[j] \in DOMAIN rows \cap NullAt /\ Dropped[j] = rows[e[j]]
  BY <1>1 DEF InOrder
<1>8. \A j \in DOMAIN Dropped : j \in P <=> e[j] \in Lost
  BY <1>6, <1>7
<1>9. Lost \in SUBSET (DOMAIN rows \cap NullAt)
  BY <1>6
<1> HIDE DEF P
<1>10. IsFiniteSet(Lost) /\ Cardinality(P) = Cardinality(Lost)
  <2>1. Matching(e, Dropped, rows, NullAt, P, Lost)
    BY <1>1, <1>5, <1>8, <1>9 DEF Matching
  <2> QED BY <1>2, <2>1, KeptCounts
<1> QED BY <1>4, <1>10, SameCounts

(* Of the rows that are whole, those that are not kept are idle.           *)
LEMMA IdleIs ==
  ASSUME rows \in Seq(AnyRow), NEW L, IsTrimmed(L),
         \A i \in DOMAIN rows : rows[i].close = None => rows[i].volume = 0
  PROVE  /\ IsFiniteSet(WholeAt) /\ IsFiniteSet(Idle)
         /\ Cardinality(WholeAt) = Cardinality(Idle) + L
<1>1. PICK e : InOrder(e, Kept, rows, WholeAt)
  BY PickedInOrder DEF Kept
<1>2. PICK K \in Seq(AnyRow), n \in Nat : K = Kept /\ n = Len(K) /\ DOMAIN K = 1 .. n
  BY FetchedIs
<1>3. PICK m \in Nat : m = Len(rows) /\ DOMAIN rows = 1 .. m
  OBVIOUS
<1>4. \A j \in 1 .. n : e[j] \in 1 .. m /\ e[j] \in WholeAt /\ K[j] = rows[e[j]]
  BY <1>1, <1>2, <1>3 DEF InOrder
<1>5. \A j, k \in 1 .. n : j < k => e[j] < e[k]
  BY <1>1, <1>2 DEF InOrder
<1>6. \A i \in WholeAt : \E j \in 1 .. n : e[j] = i
  BY <1>1, <1>2 DEF InOrder, WholeAt
<1>7. L \in 0 .. n /\ (L > 0 => K[L].volume # 0) /\ \A k \in 1 .. n : k > L => K[k].volume = 0
  BY <1>2 DEF IsTrimmed
<1>8. Idle = {i \in WholeAt : \A j \in i .. m : rows[j].volume = 0}
  BY <1>3 DEF Idle, WholeAt
<1>9. ASSUME NEW j \in 1 .. n PROVE j \in L + 1 .. n <=> e[j] \in Idle
  <2>1. CASE j > L
    <3>1. ASSUME NEW i \in e[j] .. m PROVE rows[i].volume = 0
      <4>1. i \in DOMAIN rows
        BY <1>3, <1>4, <3>1
      <4>2. CASE rows[i].close = None
        BY <4>1, <4>2
      <4>3. CASE rows[i].close # None
        <5>1. PICK k \in 1 .. n : e[k] = i
          BY <1>6, <4>1, <4>3 DEF WholeAt
        <5>2. ~ (k < j)
          <6>1. e[j] <= e[k] /\ e[j] \in Int /\ e[k] \in Int
            BY <1>3, <1>4, <3>1, <5>1
          <6> QED BY <1>5, <6>1
        <5>3. k > L
          BY <1>7, <2>1, <5>2
        <5> QED BY <1>4, <1>7, <5>1, <5>3
      <4> QED BY <4>2, <4>3
    <3> QED BY <1>4, <1>7, <1>8, <2>1, <3>1
  <2>2. CASE ~ (j > L)
    <3>1. L \in 1 .. n /\ j <= L
      BY <1>7, <2>2
    <3>2. e[L] \in 1 .. m /\ rows[e[L]].volume # 0
      BY <1>4, <1>7, <3>1
    <3>3. e[L] \in e[j] .. m
      <4>1. e[j] <= e[L]
        <5>1. CASE j = L
          BY <1>4, <3>1, <5>1
        <5>2. CASE j # L
          BY <1>4, <1>5, <3>1, <5>2
        <5> QED BY <5>1, <5>2
      <4> QED BY <1>4, <3>2, <4>1
    <3> QED BY <1>8, <2>2, <1>7, <3>2, <3>3
  <2> QED BY <2>1, <2>2
<1>10. Idle \in SUBSET (DOMAIN rows \cap WholeAt) /\ WholeAt \in SUBSET (DOMAIN rows \cap WholeAt)
  BY <1>8 DEF WholeAt
<1>11. L + 1 .. n \in SUBSET (DOMAIN K) /\ 1 .. n \in SUBSET (DOMAIN K)
  BY <1>2, <1>7
<1>12. \A j \in DOMAIN K : j \in L + 1 .. n <=> e[j] \in Idle
  BY <1>2, <1>9
<1>13. \A j \in DOMAIN K : j \in 1 .. n <=> e[j] \in WholeAt
  BY <1>2, <1>4
<1>14. InOrder(e, K, rows, WholeAt)
  BY <1>1, <1>2
<1>15. IsFiniteSet(Idle) /\ Cardinality(L + 1 .. n) = Cardinality(Idle)
  <2>1. Matching(e, K, rows, WholeAt, L + 1 .. n, Idle)
    BY <1>10, <1>11, <1>12, <1>14 DEF Matching
  <2> QED BY <2>1, KeptCounts
<1>16. IsFiniteSet(WholeAt) /\ Cardinality(1 .. n) = Cardinality(WholeAt)
  <2>1. Matching(e, K, rows, WholeAt, 1 .. n, WholeAt)
    BY <1>10, <1>11, <1>13, <1>14 DEF Matching
  <2> QED BY <2>1, KeptCounts
<1>17. Cardinality(L + 1 .. n) = n - L /\ Cardinality(1 .. n) = n
  <2>1. L + 1 \in Int /\ n \in Int /\ 1 \in Int
    BY <1>7
  <2>2. Cardinality(L + 1 .. n) = IF L + 1 > n THEN 0 ELSE n - (L + 1) + 1
    BY <2>1, FS_Interval
  <2>3. Cardinality(1 .. n) = IF 1 > n THEN 0 ELSE n - 1 + 1
    BY <2>1, FS_Interval
  <2> QED BY <1>7, <2>2, <2>3
<1> QED BY <1>7, <1>15, <1>16, <1>17

LEMMA DropRateIs ==
  ASSUME NEW price, Tells(price),
         file.holidays = closures, Fetched.candles # <<>>
  PROVE  "high_drop_rate" \in Gate!Errors(Fetched, today)
           <=> 4 * Cardinality(Lost)
                 >= Cardinality(SessionRows) - Cardinality(Idle)
<1>1. rows \in Seq(AnyRow) /\ \A i \in DOMAIN rows :
        /\ rows[i].close = None => rows[i].volume = 0
        /\ rows[i].close # None => Open(rows[i].date)
  BY DEF Tells
<1>2. PICK L : IsTrimmed(L) /\ Fetched.candles = SubSeq(Kept, 1, L)
  BY <1>1, FetchedIs
<1>3. Kept \in Seq(AnyRow) /\ L \in 0 .. Len(Kept)
  BY <1>1, <1>2, FetchedIs DEF IsTrimmed
<1>4. Len(Fetched.candles) = L /\ L \in Nat
  BY <1>2, <1>3
<1>5. /\ IsFiniteSet(WholeAt) /\ IsFiniteSet(Idle)
      /\ Cardinality(WholeAt) = Cardinality(Idle) + L
  BY <1>1, <1>2, IdleIs
<1>6. /\ IsFiniteSet(Lost)
      /\ Gate!Cardinality(Gate!RealDrops(Fetched)) = Cardinality(Lost)
  BY <1>1, DropsAreLost
<1>7. Cardinality(SessionRows) = Cardinality(WholeAt) + Cardinality(Lost)
  <2>1. SessionRows = WholeAt \cup Lost
    BY <1>1 DEF SessionRows, WholeAt, Lost
  <2>2. WholeAt \cap Lost = {}
    BY DEF WholeAt, Lost
  <2>3. Cardinality(WholeAt \cap Lost) = 0
    BY <2>2, FS_EmptySet
  <2>4. Cardinality(WholeAt) \in Nat /\ Cardinality(Lost) \in Nat
    BY <1>5, <1>6, FS_CardinalityType
  <2>5. Cardinality(WholeAt \cup Lost)
          = Cardinality(WholeAt) + Cardinality(Lost) - Cardinality(WholeAt \cap Lost)
    BY <1>5, <1>6, FS_Union
  <2> QED BY <2>1, <2>3, <2>4, <2>5
<1>8. PICK w \in Nat, i \in Nat, d \in Nat :
        w = Cardinality(WholeAt) /\ i = Cardinality(Idle) /\ d = Cardinality(Lost)
  BY <1>5, <1>6, FS_CardinalityType
<1>9. Gate!HighDropRate(Fetched) <=> d * 100 >= 25 * (L + d)
  BY <1>4, <1>6, <1>8, ThresholdsAssumption DEF Gate!HighDropRate
<1>10. "high_drop_rate" \in Gate!Errors(Fetched, today)
         <=> Gate!HighDropRate(Fetched)
  BY DEF Gate!Errors
<1>11. w = i + L
  BY <1>5, <1>8
<1>12. d * 100 >= 25 * (L + d) <=> 4 * d >= (w + d) - i
  <2>1. PICK l \in Nat : l = L
    BY <1>4
  <2>2. d * 100 >= 25 * (l + d) <=> 4 * d >= ((i + l) + d) - i
    OBVIOUS
  <2> QED BY <1>11, <2>1, <2>2
<1>13. Cardinality(SessionRows) = w + d
  BY <1>7, <1>8
<1> QED BY <1>8, <1>9, <1>10, <1>12, <1>13, SameCounts

(* How many of the days in U are from a to b.                              *)
CountOver(U, a, b) == Cardinality({d \in a .. b : d \in U})

LEMMA CountOverStep ==
  ASSUME NEW U, NEW a \in Int, NEW b \in Int
  PROVE  /\ CountOver(U, a, b) \in Nat
         /\ b < a => CountOver(U, a, b) = 0
         /\ a <= b + 1 =>
              CountOver(U, a, b + 1) = CountOver(U, a, b) + (IF b + 1 \in U THEN 1 ELSE 0)
         /\ a <= b =>
              CountOver(U, a, b) = CountOver(U, a + 1, b) + (IF a \in U THEN 1 ELSE 0)
<1>1. ASSUME NEW x \in Int, NEW y \in Int
      PROVE  IsFiniteSet({d \in x .. y : d \in U}) /\ CountOver(U, x, y) \in Nat
  <2>1. IsFiniteSet(x .. y)
    BY FS_Interval
  <2>2. IsFiniteSet({d \in x .. y : d \in U})
    BY <2>1, FS_Subset
  <2> QED BY <2>2, FS_CardinalityType DEF CountOver
<1>2. ASSUME b < a PROVE CountOver(U, a, b) = 0
  <2>1. {d \in a .. b : d \in U} = {}
    BY <1>2
  <2> QED BY <2>1, FS_EmptySet DEF CountOver
<1>3. ASSUME a <= b + 1
      PROVE  CountOver(U, a, b + 1) = CountOver(U, a, b) + (IF b + 1 \in U THEN 1 ELSE 0)
  <2>1. b + 1 \notin {d \in a .. b : d \in U}
    OBVIOUS
  <2>4. IsFiniteSet({d \in a .. b : d \in U}) /\ CountOver(U, a, b) \in Nat
    BY <1>1
  <2>2. CASE b + 1 \in U
    <3>1. {d \in a .. b + 1 : d \in U} = {d \in a .. b : d \in U} \cup {b + 1}
      BY <1>3, <2>2
    <3> QED BY <2>1, <2>2, <2>4, <3>1, FS_AddElement DEF CountOver
  <2>3. CASE b + 1 \notin U
    <3>1. {d \in a .. b + 1 : d \in U} = {d \in a .. b : d \in U}
      BY <1>3, <2>3
    <3>2. CountOver(U, a, b + 1) = CountOver(U, a, b)
      BY <3>1 DEF CountOver
    <3> QED BY <2>3, <2>4, <3>2
  <2> QED BY <2>2, <2>3
<1>4. ASSUME a <= b
      PROVE  CountOver(U, a, b) = CountOver(U, a + 1, b) + (IF a \in U THEN 1 ELSE 0)
  <2>1. a \notin {d \in a + 1 .. b : d \in U} /\ IsFiniteSet({d \in a + 1 .. b : d \in U})
    BY <1>1
  <2>2. CASE a \in U
    <3>1. {d \in a .. b : d \in U} = {d \in a + 1 .. b : d \in U} \cup {a}
      BY <1>4, <2>2
    <3> QED BY <2>1, <2>2, <3>1, FS_AddElement DEF CountOver
  <2>3. CASE a \notin U
    <3>1. {d \in a .. b : d \in U} = {d \in a + 1 .. b : d \in U}
      BY <1>4, <2>3
    <3> QED BY <1>1, <2>3, <3>1 DEF CountOver
  <2> QED BY <2>2, <2>3
<1> QED BY <1>1, <1>2, <1>3, <1>4

(* sessions_between, by either calendar of the record.                     *)
OpenDays     == {d \in Int : Open(d)}
RecordedDays == {d \in Int : Recorded!IsTradingDay(d)}

LEMMA SessionsAreCounted ==
  ASSUME NEW a \in Int, NEW b \in Int
  PROVE  /\ Recorded!SessionsBetween(a, b) = CountOver(RecordedDays, a, b - 1)
         /\ Calendar(closures)!SessionsBetween(a, b) = CountOver(OpenDays, a, b - 1)
<1>1. a .. b - 1 \in SUBSET Int
  OBVIOUS
<1>2. Recorded!TradingDaysIn(a, b - 1) = {d \in a .. b - 1 : d \in RecordedDays}
  BY <1>1 DEF Recorded!TradingDaysIn, RecordedDays
<1>3. Calendar(closures)!TradingDaysIn(a, b - 1) = {d \in a .. b - 1 : d \in OpenDays}
  BY <1>1 DEF Calendar!TradingDaysIn, OpenDays, Open
<1> QED BY <1>2, <1>3, SameCounts
      DEF Recorded!SessionsBetween, Calendar!SessionsBetween, CountOver

LEMMA WithinIs ==
  ASSUME NEW price \in Nat, NEW c \in Within(price)
  PROVE  c \in Nat /\ 5 * c <= 6 * price /\ 4 * price <= 5 * c
BY DEF Within

(* Over days without a split the price keeps within the band compounded    *)
(* over the sessions of any calendar that knows of all that were open.     *)
LEMMA BandKeeps ==
  ASSUME Evidence, NEW price, History(price), OpenDays \subseteq RecordedDays,
         NEW a \in FirstDay .. today - 1, NEW b \in FirstDay .. today - 1, a <= b,
         \A d \in a + 1 .. b : d \notin SplitDays \/ ~ Open(d)
  PROVE  InBand(price[a], price[b], CountOver(RecordedDays, a + 1, b))
<1>1. FirstDay \in Int /\ today \in Int /\ a \in Int /\ b \in Int
  BY RecordConstants, ClosureAssumption DEF Evidence
<1>2. \A d \in FirstDay - 1 .. today - 1 : price[d] \in Nat
  BY DEF History
<1> DEFINE U == RecordedDays
           N == b - a
           S == {k \in 0 .. N : InBand(price[a], price[a + k], CountOver(U, a + 1, a + k))}
<1>3. 0 \in S
  <2>1. CountOver(U, a + 1, a + 0) = 0 /\ a + 0 = a
    BY <1>1, CountOverStep
  <2>2. price[a] \in Nat
    BY <1>1, <1>2
  <2>3. Band(4, 0) = 1 /\ Band(5, 0) = 1 /\ Band(6, 0) = 1
    BY BandNext
  <2> QED BY <1>1, <2>1, <2>2, <2>3 DEF InBand
<1>4. ASSUME NEW k \in 0 .. N - 1, k \in S PROVE k + 1 \in S
  <2>1. PICK e \in Int : e = a + k
    BY <1>1
  <2>2. /\ a + (k + 1) = e + 1 /\ (e + 1) - 1 = e /\ e + 1 \in FirstDay .. today - 1
        /\ e \in FirstDay - 1 .. today - 1 /\ e + 1 \in a + 1 .. b /\ k + 1 \in 0 .. N
        /\ e + 1 \in FirstDay - 1 .. today - 1 /\ a \in FirstDay - 1 .. today - 1
    BY <1>1, <2>1
  <2>3. PICK p \in Nat, q \in Nat, r \in Nat, n \in Nat :
          p = price[a] /\ q = price[e] /\ r = price[e + 1] /\ n = CountOver(U, a + 1, e)
    <3>1. CountOver(U, a + 1, e) \in Nat
      BY <1>1, CountOverStep
    <3>2. price[a] \in Nat /\ price[e] \in Nat /\ price[e + 1] \in Nat
      BY <1>2, <2>2
    <3> QED BY <3>1, <3>2
  <2>4. InBand(p, q, n)
    BY <1>4, <2>1, <2>3
  <2>5. CASE Open(e + 1)
    <3>1. CountOver(U, a + 1, e + 1) = n + 1
      BY <1>1, <2>1, <2>2, <2>3, <2>5, CountOverStep DEF OpenDays
    <3>2. r \in Within(q)
      BY <2>2, <2>3, <2>5 DEF History, Around
    <3>3. InBand(p, r, n + 1)
      BY <2>3, <2>4, <3>2, WithinIs, InBandStep
    <3> QED BY <2>2, <2>3, <3>1, <3>3
  <2>6. CASE ~ Open(e + 1)
    <3>1. CountOver(U, a + 1, e + 1) \in {n, n + 1}
      BY <1>1, <2>1, <2>2, <2>3, CountOverStep
    <3>2. r = q
      BY <2>2, <2>3, <2>6 DEF History
    <3>3. InBand(p, r, n) /\ InBand(p, r, n + 1)
      BY <2>3, <2>4, <3>2, InBandStep
    <3> QED BY <2>2, <2>3, <3>1, <3>3
  <2> QED BY <2>5, <2>6
<1>5. N \in 0 .. N /\ N \in Nat /\ a + N = b
  BY <1>1
<1>6. N \in S
  <2>1. S \in SUBSET (0 .. N)
    OBVIOUS
  <2> HIDE DEF S, N
  <2> QED BY <1>3, <1>4, <1>5, <2>1, LoopInduction
<1> QED BY <1>5, <1>6

(* Over days without a session it does not move.                           *)
LEMMA PriceRests ==
  ASSUME Evidence, NEW price, History(price),
         NEW a \in FirstDay .. today - 1, NEW b \in FirstDay .. today - 1, a <= b,
         \A d \in a + 1 .. b : ~ Open(d)
  PROVE  price[b] = price[a]
<1>1. FirstDay \in Int /\ today \in Int /\ a \in Int /\ b \in Int
  BY RecordConstants, ClosureAssumption DEF Evidence
<1> DEFINE N == b - a
           S == {k \in 0 .. N : price[a + k] = price[a]}
<1>2. 0 \in S
  BY <1>1
<1>3. ASSUME NEW k \in 0 .. N - 1, k \in S PROVE k + 1 \in S
  <2>1. /\ k + 1 \in 0 .. N /\ a + (k + 1) \in FirstDay .. today - 1
        /\ (a + (k + 1)) - 1 = a + k /\ a + (k + 1) \in a + 1 .. b
    BY <1>1
  <2>2. price[a + (k + 1)] = price[a + k]
    BY <2>1 DEF History
  <2> QED BY <1>3, <2>1, <2>2
<1>4. N \in 0 .. N /\ N \in Nat /\ a + N = b
  BY <1>1
<1>5. N \in S
  <2>1. S \in SUBSET (0 .. N)
    OBVIOUS
  <2> HIDE DEF S, N
  <2> QED BY <1>2, <1>3, <1>4, <2>1, LoopInduction
<1> QED BY <1>4, <1>5

(* The bars the gates see are closes of the exchange, on sessions in their *)
(* order.                                                                  *)
LEMMA CandlesAre ==
  ASSUME Evidence, NEW price, Tells(price),
         NEW i \in 2 .. Len(Fetched.candles)
  PROVE  \E a, b \in FirstDay .. today - 1 :
           /\ a < b /\ Open(a) /\ Open(b)
           /\ Fetched.candles[i - 1].date = a /\ Fetched.candles[i - 1].close = price[a]
           /\ Fetched.candles[i].date = b /\ Fetched.candles[i].close = price[b]
<1>1. rows \in Seq(AnyRow)
  BY DEF Tells
<1>2. PICK L : IsTrimmed(L) /\ Fetched.candles = SubSeq(Kept, 1, L)
  BY <1>1, FetchedIs
<1>3. PICK e : InOrder(e, Kept, rows, WholeAt)
  BY <1>1, PickedInOrder DEF Kept
<1>4. PICK K \in Seq(AnyRow), n \in Nat : K = Kept /\ n = Len(K) /\ DOMAIN K = 1 .. n
  BY <1>1, FetchedIs
<1>5. PICK m \in Nat : m = Len(rows) /\ DOMAIN rows = 1 .. m /\ m = today - FirstDay
  BY <1>1 DEF Tells
<1>6. L \in 0 .. n
  BY <1>2, <1>4 DEF IsTrimmed
<1>7. Len(Fetched.candles) = L /\ \A k \in 1 .. L : Fetched.candles[k] = K[k]
  BY <1>2, <1>4, <1>6
<1>8. i \in 1 .. n /\ i - 1 \in 1 .. n /\ i \in 1 .. L /\ i - 1 \in 1 .. L /\ i - 1 < i
  BY <1>6, <1>7
<1>9. \A j \in 1 .. n : e[j] \in 1 .. m /\ rows[e[j]].close # None /\ K[j] = rows[e[j]]
  BY <1>3, <1>4, <1>5 DEF InOrder, WholeAt
<1>10. e[i - 1] < e[i]
  BY <1>3, <1>4, <1>8 DEF InOrder
<1>11. FirstDay \in Int /\ today \in Int
  BY RecordConstants, ClosureAssumption DEF Evidence
<1>12. PICK x \in 1 .. m, y \in 1 .. m :
         /\ x = e[i - 1] /\ y = e[i] /\ x < y
         /\ Fetched.candles[i - 1] = rows[x] /\ Fetched.candles[i] = rows[y]
         /\ rows[x].close # None /\ rows[y].close # None
  BY <1>7, <1>8, <1>9, <1>10
<1>13. /\ rows[x].date = FirstDay + x - 1 /\ Open(rows[x].date)
       /\ rows[x].close = price[rows[x].date]
       /\ rows[y].date = FirstDay + y - 1 /\ Open(rows[y].date)
       /\ rows[y].close = price[rows[y].date]
  BY <1>5, <1>12 DEF Tells
<1>14. PICK a \in FirstDay .. today - 1, b \in FirstDay .. today - 1 :
         a = FirstDay + x - 1 /\ b = FirstDay + y - 1 /\ a < b
  <2>1. x \in Int /\ y \in Int /\ 1 <= x /\ x < y /\ y <= today - FirstDay
    BY <1>5, <1>12
  <2>2. /\ FirstDay + x - 1 \in FirstDay .. today - 1 /\ FirstDay + y - 1 \in FirstDay .. today - 1
        /\ FirstDay + x - 1 < FirstDay + y - 1
    BY <1>11, <2>1
  <2> QED BY <2>2
<1> QED BY <1>12, <1>13, <1>14

(* Where no session is missing in between, the split explains itself.      *)
LEMMA HalvedMatches ==
  ASSUME NEW before, NEW bar, before.close \in Nat, before.close >= 8,
         bar.close \in Within(before.close \div 2)
  PROVE  Gate!Matches(before, bar, 1, 2)
<1>1. PICK p \in Nat, h \in Nat, c \in Nat :
        p = before.close /\ h = p \div 2 /\ c = bar.close /\ 5 * c <= 6 * h /\ 4 * h <= 5 * c
  <2>1. before.close \div 2 \in Nat
    OBVIOUS
  <2>2. bar.close \in Nat /\ 5 * bar.close <= 6 * (before.close \div 2)
        /\ 4 * (before.close \div 2) <= 5 * bar.close
    BY <2>1, WithinIs
  <2> QED BY <2>1, <2>2
<1>2. 2 * h <= p /\ p <= 2 * h + 1
  BY <1>1
<1>3. 7 * (p * 1) <= 10 * c * 2 /\ 10 * c * 2 <= 13 * (p * 1)
  BY <1>1, <1>2
<1> QED BY <1>1, <1>3 DEF Gate!Matches

LEMMA JumpsAre ==
  ASSUME Evidence, lag \in SplitLags,
         NEW price, History(price), Tells(price), \A d \in file.holidays : ~ Open(d),
         NEW i \in Gate!Jumps(Fetched),
         Gate!Excess(Fetched.candles[i - 1], Fetched.candles[i]) # 0
  PROVE  /\ \E d \in SplitDays : /\ Fetched.candles[i - 1].date < d
                                 /\ d <= Fetched.candles[i].date
         /\ Calendar(closures)!SessionsBetween(Fetched.candles[i - 1].date,
                                                      Fetched.candles[i].date) > 1
<1> DEFINE before == Fetched.candles[i - 1]
           bar    == Fetched.candles[i]
<1>1. /\ i \in 2 .. Len(Fetched.candles)
      /\ Gate!Excess(before, bar) > 0
      /\ ~ Gate!SplitExplains(Fetched.splits, before, bar)
  BY DEF Gate!Jumps, Gate!BeyondBand
<1>2. PICK a \in FirstDay .. today - 1, b \in FirstDay .. today - 1 :
        /\ a < b /\ Open(a) /\ Open(b)
        /\ before.date = a /\ before.close = price[a] /\ bar.date = b /\ bar.close = price[b]
  BY <1>1, CandlesAre
<1>3. FirstDay \in Int /\ today \in Int /\ a \in Int /\ b \in Int /\ rows \in Seq(AnyRow)
      /\ lag \in -10 .. 10
  <2>1. FirstDay \in Int /\ LastDay \in Int /\ SplitLags \subseteq -10 .. 10
    BY RecordConstants, ClosureAssumption
  <2>2. today \in Int
    BY <2>1 DEF Evidence
  <2>3. rows \in Seq(AnyRow)
    BY DEF Tells
  <2>4. a \in Int /\ b \in Int
    BY <2>1, <2>2
  <2> QED BY <2>1, <2>2, <2>3, <2>4
<1>4. /\ price[a] \in Nat /\ price[b] \in Nat /\ price[a] >= Least
      /\ Least >= 8 /\ Least \in Nat
  BY <1>3, RecordConstants DEF History
<1> HIDE DEF before, bar
<1>5. OpenDays \subseteq RecordedDays
  BY RecordedIs, OpenIs, IsOpenDay DEF OpenDays, RecordedDays
<1>6. a \in RecordedDays /\ b \in RecordedDays /\ a \in OpenDays
  BY <1>2, <1>3, <1>5 DEF OpenDays
<1>7. PICK d \in a + 1 .. b : d \in SplitDays /\ Open(d)
  <2> SUFFICES ASSUME \A d \in a + 1 .. b : d \notin SplitDays \/ ~ Open(d) PROVE FALSE
    OBVIOUS
  <2>1. InBand(price[a], price[b], CountOver(RecordedDays, a + 1, b))
    BY <1>2, <1>3, <1>5, BandKeeps
  <2>2. PICK n \in Nat : n = CountOver(RecordedDays, a + 1, b) /\ n >= 1
                         /\ n = CountOver(RecordedDays, a, b - 1)
    <3>1. PICK k \in Nat : k = CountOver(RecordedDays, a + 1, b - 1)
      BY <1>3, CountOverStep
    <3>2. b - 1 \in Int /\ (b - 1) + 1 = b /\ a + 1 <= (b - 1) + 1 /\ a <= b - 1 /\ a + 1 \in Int
      BY <1>2, <1>3
    <3>3. CountOver(RecordedDays, a + 1, (b - 1) + 1) = k + 1
      BY <1>6, <3>1, <3>2, CountOverStep
    <3>4. CountOver(RecordedDays, a, b - 1) = k + 1
      BY <1>3, <1>6, <3>1, <3>2, CountOverStep
    <3> QED BY <3>1, <3>2, <3>3, <3>4
  <2>3. Gate!Elapsed(before, bar) = n
    <3>1. Recorded!SessionsBetween(a, b) = n
      BY <1>3, <2>2, SessionsAreCounted
    <3>2. Max({1, n}) = n
      BY <2>2, MaxOfTwo
    <3> QED BY <1>2, <3>1, <3>2, SameMax DEF Gate!Elapsed
  <2>4. Gate!Excess(before, bar) \in Int /\ Gate!Excess(before, bar) <= 0
    BY <1>2, <1>4, <2>1, <2>2, <2>3, NotBeyond, ThresholdsAssumption
  <2> QED BY <1>1, <2>4 DEF before, bar
<1>8. Calendar(closures)!SessionsBetween(a, b) > 1
  <2> SUFFICES ASSUME ~ (Calendar(closures)!SessionsBetween(a, b) > 1) PROVE FALSE
    OBVIOUS
  <2>1. b - 1 \in Int /\ a + 1 \in Int /\ a <= b - 1
    BY <1>2, <1>3
  <2>2. CountOver(OpenDays, a + 1, b - 1) = 0
    <3>1. PICK k \in Nat : k = CountOver(OpenDays, a + 1, b - 1)
      BY <2>1, CountOverStep
    <3>2. CountOver(OpenDays, a, b - 1) = k + 1
      BY <1>3, <1>6, <2>1, <3>1, CountOverStep
    <3>3. Calendar(closures)!SessionsBetween(a, b) = k + 1
      BY <1>3, <3>2, SessionsAreCounted
    <3> QED BY <3>1, <3>3
  <2>3. \A e \in a + 1 .. b - 1 : ~ Open(e)
    <3>1. IsFiniteSet(a + 1 .. b - 1)
      BY <2>1, FS_Interval
    <3>2. IsFiniteSet({e \in a + 1 .. b - 1 : e \in OpenDays})
      BY <3>1, FS_Subset
    <3>3. {e \in a + 1 .. b - 1 : e \in OpenDays} = {}
      BY <2>2, <3>2, FS_EmptySet DEF CountOver
    <3> QED BY <2>1, <3>3 DEF OpenDays
  <2>4. d = b
    BY <1>3, <1>7, <2>3
  <2>5. price[b - 1] = price[a]
    <3>1. b - 1 \in FirstDay .. today - 1 /\ a <= b - 1
      BY <1>2, <1>3
    <3> QED BY <2>3, <3>1, PriceRests
  <2>6. price[b] \in Within(price[a] \div 2)
    BY <1>2, <1>7, <2>4, <2>5 DEF History, Around
  <2>7. Gate!Matches(before, bar, 1, 2)
    BY <1>2, <1>4, <2>6, HalvedMatches
  <2>8. PICK s : s = [date |-> b + lag, numerator |-> 2, denominator |-> 1]
    OBVIOUS
  <2>9. s \in Fetched.splits
    BY <1>2, <1>3, <1>7, <2>4, <2>8, FetchedIs
  <2>10. Gate!NearSplit(s, bar)
    BY <1>2, <1>3, <2>8 DEF Gate!NearSplit
  <2>11. Gate!SplitExplains(Fetched.splits, before, bar)
    BY <2>7, <2>8, <2>9, <2>10 DEF Gate!SplitExplains
  <2> QED BY <1>1, <2>11 DEF before, bar
<1> QED BY <1>2, <1>3, <1>7, <1>8 DEF before, bar

(* Whatever the constants, and however floats round, what the daily gates  *)
(* take for a jump in an honest series is a split around which the feed    *)
(* lost sessions, or a move of the whole band, which is the edge they get  *)
(* wrong; and the drop rate is an error for a quarter of the sessions lost *)
(* (quality.py "The allowance therefore compounds", yahoo.py "counting     *)
(* only bars that fall on real EGX sessions").                             *)
THEOREM HonestGapsPassHolds == RecordSpec => []HonestGapsPass
<1>1. RecordInit => Evidence /\ Tape
  BY EvidenceBegins, TapeBegins
<1>2. Evidence /\ Tape /\ [RecordNext]_recordVars => Evidence' /\ Tape'
  BY EvidenceKept, TapeKept
<1>3. Evidence /\ Tape => HonestGapsPass
  <2> SUFFICES ASSUME Evidence, Tape, \A d \in file.holidays : ~ Open(d)
               PROVE  HonestGapsPass
    BY DEF HonestGapsPass
  <2>1. PICK price : History(price) /\ Tells(price) /\ lag \in SplitLags
    BY DEF Tape
  <2> QED BY <2>1, JumpsAre, DropRateIs DEF HonestGapsPass
<1> QED BY <1>1, <1>2, <1>3, PTL DEF RecordSpec
=============================================================================
