--------------------------- MODULE TicketsProofs ----------------------------
(* Theorems about Tickets, for every set of orders, every clock bound and   *)
(* every number of restarts.                                               *)
EXTENDS Tickets, TLAPS

LEMMA IdTyped ==
  ASSUME NEW o \in Order, now \in 0 .. MaxTime
  PROVE  TicketId(o, Day(now)) \in Ids
BY DEF Ids

LEMMA MovedTyped ==
  ASSUME NEW t \in Ticket, NEW to \in State, NEW by \in {"human", "auto", "system"},
         now \in 0 .. MaxTime
  PROVE  /\ Moved(t, to, by) \in Ticket
         /\ Moved(t, to, by).state = to
         /\ Moved(t, to, by).order = t.order
         /\ Moved(t, to, by).expires = t.expires
         /\ Moved(t, to, by).history
              = Append(t.history, [when |-> now, to |-> to, by |-> by])
<1> DEFINE e == [when |-> now, to |-> to, by |-> by]
<1>1. e \in Event
      BY TimeAssumption DEF Event
<1>2. t.history \in Seq(Event) /\ t.order \in Order /\ t.expires \in Nat
      BY DEF Ticket
<1>3. Append(t.history, e) \in Seq(Event)
      BY <1>1, <1>2
<1> QED BY <1>2, <1>3 DEF Moved, Ticket

LEMMA NewTicketTyped ==
  ASSUME NEW o \in Order, NEW w \in Windows, now \in 0 .. MaxTime
  PROVE  /\ NewTicket(o, w) \in Ticket
         /\ NewTicket(o, w).state = "pending" /\ NewTicket(o, w).history = <<>>
BY TimeAssumption DEF NewTicket, Ticket, State

LEMMA AllowedTyped ==
  ASSUME NEW s \in State
  PROVE  /\ Allowed(s) \subseteq State
         /\ \A to \in Allowed(s) :
              \/ s = "pending" /\ to \in {"approved", "rejected", "expired"}
              \/ s = "approved" /\ to \in {"placed", "failed"}
BY DEF Allowed, State

LEMMA RegisteredTyped ==
  ASSUME TypeOK, NEW id \in Registered
  PROVE  id \in Ids /\ book[id] \in Ticket /\ book[id].state \in State
BY DEF TypeOK, Registered, Ticket

(* A transition of one ticket, as the four actions that use it take it.    *)
LEMMA TransitionEffect ==
  ASSUME TypeOK, NEW id, NEW to, NEW by \in {"human", "auto", "system"},
         Transition(id, to, by)
  PROVE  /\ id \in Registered /\ id \in Ids
         /\ book' \in [Ids -> Ticket \cup {NoTicket}]
         /\ book'[id] = Moved(book[id], to, by) /\ book'[id] \in Ticket
         /\ book'[id] # NoTicket
         /\ \A other \in Ids : other # id => book'[other] = book[other]
         /\ to \in State /\ to \in Allowed(book[id].state)
         /\ Registered' = Registered /\ book'[id].state = to
<1>1. id \in Registered /\ id \in Ids /\ book[id] \in Ticket /\ book[id].state \in State
      BY RegisteredTyped DEF Transition
<1>2. to \in Allowed(book[id].state) /\ to \in State
      BY <1>1, AllowedTyped DEF Transition
<1>3. Moved(book[id], to, by) \in Ticket
      BY <1>1, <1>2, MovedTyped DEF TypeOK
<1>4. book' = [book EXCEPT ![id] = Moved(book[id], to, by)]
      BY DEF Transition
<1>5. /\ book' \in [Ids -> Ticket \cup {NoTicket}]
      /\ book'[id] = Moved(book[id], to, by) /\ book'[id] # NoTicket
      /\ \A other \in Ids : other # id => book'[other] = book[other]
      BY <1>1, <1>3, <1>4, NoTicketAssumption DEF TypeOK
<1>6. Registered' = Registered
      BY <1>1, <1>5 DEF Registered
<1>7. book'[id].state = to
      BY <1>5 DEF Moved
<1> QED BY <1>1, <1>2, <1>3, <1>5, <1>6, <1>7

----------------------------------------------------------------------------
(* Every variable keeps its type.                                          *)
THEOREM TypeCorrect == Spec => []TypeOK
<1>1. Init => TypeOK
      BY TimeAssumption DEF Init, TypeOK, EmptyBook, Zero
<1>2. TypeOK /\ [Next]_vars => TypeOK'
  <2> SUFFICES ASSUME TypeOK, [Next]_vars PROVE TypeOK'
      OBVIOUS
  <2>1. ASSUME NEW o \in Order, NEW w \in Windows, Create(o, w) PROVE TypeOK'
    <3>1. Added(o, w) \in Ticket
          BY IdTyped, NewTicketTyped DEF Added, TypeOK
    <3>2. book' \in [Ids -> Ticket \cup {NoTicket}]
          BY <2>1, <3>1 DEF Create, TypeOK
    <3> QED BY <2>1, <3>2 DEF Create, TypeOK
  <2>2. ASSUME NEW id \in Ids, NEW to, NEW by \in {"human", "auto", "system"},
               Answer(id, to, by)
        PROVE  TypeOK'
    <3>1. book' \in [Ids -> Ticket \cup {NoTicket}]
          BY <2>2, TransitionEffect DEF Answer
    <3> QED BY <2>2, <3>1 DEF Answer, TypeOK
  <2>3. ASSUME NEW id \in Ids, Approve(id) \/ Reject(id) \/ AutoApprove(id) PROVE TypeOK'
        BY <2>2, <2>3 DEF Approve, Reject, AutoApprove
  <2>4. ASSUME NEW id \in Ids, SubmitAlert(id) PROVE TypeOK'
        BY <2>4 DEF SubmitAlert, TypeOK
  <2>5. ASSUME NEW id \in Ids, SubmitUnfinished(id) PROVE TypeOK'
        BY <2>5 DEF SubmitUnfinished, TypeOK
  <2>6. ASSUME NEW id \in Ids, SubmitBroker(id) PROVE TypeOK'
    <3>1. PICK k \in {0, 1} : atBroker' = [atBroker EXCEPT ![id] = @ + k]
          BY <2>6 DEF SubmitBroker
    <3>2. atBroker' \in [Ids -> Nat]
          BY <3>1 DEF TypeOK
    <3> QED BY <2>6, <3>2 DEF SubmitBroker, TypeOK
  <2>7. ASSUME NEW id \in Ids, MarkPlaced(id) PROVE TypeOK'
    <3>1. book' \in [Ids -> Ticket \cup {NoTicket}]
          BY <2>7, TransitionEffect DEF MarkPlaced
    <3> QED BY <2>7, <3>1 DEF MarkPlaced, TypeOK
  <2>8. ASSUME NEW id \in Ids, MarkFailed(id) PROVE TypeOK'
    <3>1. book' \in [Ids -> Ticket \cup {NoTicket}]
          BY <2>8, TransitionEffect DEF MarkFailed
    <3> QED BY <2>8, <3>1 DEF MarkFailed, TypeOK
  <2>9. CASE ExpireDue
    <3>1. \A id \in Registered : Moved(book[id], "expired", "system") \in Ticket
          BY RegisteredTyped, MovedTyped DEF TypeOK, State
    <3>2. book' \in [Ids -> Ticket \cup {NoTicket}]
          BY <2>9, <3>1 DEF ExpireDue, TypeOK
    <3> QED BY <2>9, <3>2 DEF ExpireDue, TypeOK
  <2>10. CASE Restart
        BY <2>10, TimeAssumption DEF Restart, TypeOK, EmptyBook, Zero
  <2>11. CASE Tick
        BY <2>11, TimeAssumption DEF Tick, TypeOK
  <2>12. CASE UNCHANGED vars
        BY <2>12 DEF vars, TypeOK
  <2> QED BY <2>1, <2>3, <2>4, <2>5, <2>6, <2>7, <2>8, <2>9, <2>10, <2>11, <2>12 DEF Next
<1> QED BY <1>1, <1>2, PTL DEF Spec

----------------------------------------------------------------------------
(* The audit trail of every registered ticket is one of the six paths of   *)
(* the state diagram, ends in the ticket's state and goes forward in time. *)
LEMMA AppendedTrail ==
  ASSUME NEW h \in Seq(Event), NEW e \in Event
  PROVE  /\ Len(Append(h, e)) = Len(h) + 1
         /\ Append(h, e)[Len(h) + 1] = e
         /\ \A i \in 1 .. Len(h) : Append(h, e)[i] = h[i]
OBVIOUS

GoodTrail(t) == OnPath(t) /\ \A i \in 1 .. Len(t.history) : t.history[i].when <= now

LEMMA MovedTrail ==
  ASSUME NEW t \in Ticket, GoodTrail(t), now \in 0 .. MaxTime,
         NEW to \in Allowed(t.state), NEW by \in {"human", "auto", "system"}
  PROVE  GoodTrail(Moved(t, to, by))
<1> DEFINE e == [when |-> now, to |-> to, by |-> by]
<1>1. t.state \in State /\ to \in State /\ t.history \in Seq(Event)
      BY AllowedTyped DEF Ticket
<1>2. e \in Event /\ e.to = to /\ e.when = now
      BY <1>1, TimeAssumption DEF Event
<1>3. /\ Moved(t, to, by).state = to
      /\ Moved(t, to, by).history = Append(t.history, e)
      BY <1>1, MovedTyped
<1>4. \/ t.state = "pending" /\ to \in {"approved", "rejected", "expired"} /\ Len(t.history) = 0
      \/ /\ t.state = "approved" /\ to \in {"placed", "failed"}
         /\ Len(t.history) = 1 /\ t.history[1].to = "approved" /\ t.history[1].when <= now
      BY <1>1, AllowedTyped DEF GoodTrail, OnPath
<1>5. Len(t.history) \in Nat /\ now \in Int
      BY <1>1, TimeAssumption
<1> DEFINE m == Moved(t, to, by)
<1> HIDE DEF m, e
<1>6. /\ Len(m.history) = Len(t.history) + 1
      /\ m.history[Len(t.history) + 1] = e
      /\ \A i \in 1 .. Len(t.history) : m.history[i] = t.history[i]
      BY <1>1, <1>2, <1>3, AppendedTrail DEF m, e
<1>7. m.state = to
      BY <1>3 DEF m
<1>8. GoodTrail(m)
      BY <1>2, <1>4, <1>5, <1>6, <1>7 DEF GoodTrail, OnPath
<1> QED BY <1>8 DEF m

THEOREM AuditTrailHolds == Spec => []AuditTrailIsAPath
<1> DEFINE Inv == \A id \in Registered : GoodTrail(book[id])
<1>1. Init => Inv
      BY DEF Init, Registered, EmptyBook
<1>2. TypeOK /\ TypeOK' /\ Inv /\ [Next]_vars => Inv'
  <2> SUFFICES ASSUME TypeOK, TypeOK', Inv, [Next]_vars PROVE Inv'
      OBVIOUS
  <2>0. now \in 0 .. MaxTime
      BY DEF TypeOK
  <2>1. ASSUME NEW id, NEW to, NEW by \in {"human", "auto", "system"},
               Transition(id, to, by), now' = now
        PROVE  Inv'
    <3>1. GoodTrail(book'[id])
          BY <2>0, <2>1, TransitionEffect, RegisteredTyped, MovedTrail
    <3>2. \A other \in Registered' : GoodTrail(book'[other])
          BY <2>1, <3>1, TransitionEffect DEF Registered
    <3> QED BY <2>1, <3>2 DEF GoodTrail
  <2>2. ASSUME NEW o \in Order, NEW w \in Windows, Create(o, w) PROVE Inv'
    <3>1. GoodTrail(NewTicket(o, w))
          BY <2>0, NewTicketTyped DEF GoodTrail, OnPath
    <3>2. \A id \in Registered' : GoodTrail(book'[id])
          BY <2>2, <3>1, IdTyped, <2>0 DEF Create, Added, Registered, TypeOK
    <3> QED BY <2>2, <3>2 DEF Create, GoodTrail
  <2>3. ASSUME NEW id \in Ids, Approve(id) \/ Reject(id) \/ AutoApprove(id) PROVE Inv'
        BY <2>1, <2>3 DEF Approve, Reject, AutoApprove, Answer
  <2>4. ASSUME NEW id \in Ids, MarkPlaced(id) \/ MarkFailed(id) PROVE Inv'
        BY <2>1, <2>4 DEF MarkPlaced, MarkFailed
  <2>5. ASSUME NEW id \in Ids,
               SubmitAlert(id) \/ SubmitUnfinished(id) \/ SubmitBroker(id)
        PROVE  Inv'
    <3>1. book' = book /\ now' = now
          BY <2>5 DEF SubmitAlert, SubmitUnfinished, SubmitBroker
    <3> QED BY <3>1 DEF Registered, GoodTrail
  <2>6. CASE ExpireDue
    <3>1. \A id \in Registered : Due(book[id]) => GoodTrail(Moved(book[id], "expired", "system"))
          BY <2>0, RegisteredTyped, MovedTrail DEF Due, Allowed
    <3>2. \A id \in Registered' : GoodTrail(book'[id])
          BY <2>6, <3>1 DEF ExpireDue, Registered
    <3> QED BY <2>6, <3>2 DEF ExpireDue, GoodTrail
  <2>7. CASE Restart
        BY <2>7 DEF Restart, EmptyBook, Registered
  <2>8. CASE Tick
    <3>1. book' = book /\ now' = now + 1
          BY <2>8 DEF Tick
    <3>2. \A id \in Registered : \A i \in 1 .. Len(book[id].history) :
            book[id].history[i].when \in Nat
      <4> SUFFICES ASSUME NEW id \in Registered, NEW i \in 1 .. Len(book[id].history)
                   PROVE  book[id].history[i].when \in Nat
          OBVIOUS
      <4>1. book[id].history \in Seq(Event)
            BY RegisteredTyped DEF Ticket
      <4>2. book[id].history[i] \in Event
            BY <4>1
      <4> QED BY <4>2 DEF Event
    <3> QED BY <2>0, <3>1, <3>2, TimeAssumption DEF Registered, GoodTrail
  <2>9. CASE UNCHANGED vars
        BY <2>9 DEF vars, Registered, GoodTrail
  <2> QED BY <2>2, <2>3, <2>4, <2>5, <2>6, <2>7, <2>8, <2>9 DEF Next
<1>3. Inv => AuditTrailIsAPath
      BY DEF AuditTrailIsAPath, GoodTrail
<1> QED BY <1>1, <1>2, <1>3, TypeCorrect, PTL DEF Spec

----------------------------------------------------------------------------
(* With a driver that does not submit again what it has submitted, the     *)
(* submission invariant holds, and from it that an id reaches the broker   *)
(* at most once per process lifetime, approved, whatever the interleaving  *)
(* of answers, sweeps, submissions, failed replies and restarts.           *)
LEMMA SubmissionInvInductive ==
  ASSUME ~Resubmits, TypeOK, SubmissionInv, [Next]_vars
  PROVE  SubmissionInv'
<1>0. \A id \in Ids : atBroker[id] \in Nat
      BY DEF TypeOK
<1>1. ASSUME NEW o \in Order, NEW w \in Windows, Create(o, w) PROVE SubmissionInv'
  <2>1. now \in 0 .. MaxTime /\ TicketId(o, Day(now)) \in Ids
        BY IdTyped DEF TypeOK
  <2>2. /\ \A id \in Registered : book'[id] = book[id] /\ id \in Registered'
        /\ \A id \in Registered' \ Registered : book'[id].state = "pending"
        BY <1>1, <2>1, NewTicketTyped, NoTicketAssumption DEF Create, Added, Registered, TypeOK
  <2>3. \A S : "pending" \notin S => InState(S)' = InState(S)
        BY <2>2 DEF InState, Registered
  <2> QED BY <1>1, <2>3 DEF Create, SubmissionInv, Submitted
<1>2. ASSUME NEW id \in Ids, NEW to, NEW by \in {"human", "auto", "system"}, Answer(id, to, by),
             to \in {"approved", "rejected"}
      PROVE  SubmissionInv'
  <2>1. id \in Registered /\ book[id].state = "pending"
        BY <1>2, AllowedTyped, TransitionEffect, RegisteredTyped DEF Answer
  <2>2. /\ Registered' = Registered
        /\ book'[id].state = to
        /\ \A other \in Registered : other # id => book'[other] = book[other]
        BY <1>2, TransitionEffect, RegisteredTyped DEF Answer
  <2>3. /\ InState({"placed", "failed"})' = InState({"placed", "failed"})
        /\ InState({"placed"})' = InState({"placed"})
        /\ InState({"approved"}) \subseteq InState({"approved"})'
        BY <1>2, <2>1, <2>2 DEF InState
  <2> QED BY <1>2, <2>3 DEF Answer, SubmissionInv, Submitted
<1>3. ASSUME NEW id \in Ids, Approve(id) \/ Reject(id) \/ AutoApprove(id) PROVE SubmissionInv'
      BY <1>2, <1>3 DEF Approve, Reject, AutoApprove
<1>4. ASSUME NEW id \in Ids, SubmitAlert(id) PROVE SubmissionInv'
      BY <1>4 DEF SubmitAlert, SubmissionInv, Submitted, InState, Registered
<1>5. ASSUME NEW id \in Ids, SubmitUnfinished(id) PROVE SubmissionInv'
  <2>1. accepted = {}
        BY <1>5 DEF SubmitUnfinished, SubmissionInv
  <2>2. \A S : InState(S)' = InState(S)
        BY <1>5 DEF SubmitUnfinished, InState, Registered
  <2> QED BY <1>0, <1>5, <2>1, <2>2 DEF SubmitUnfinished, Submittable, SubmissionInv, Submitted
<1>6. ASSUME NEW id \in Ids, SubmitBroker(id) PROVE SubmissionInv'
  <2>1. \A S : InState(S)' = InState(S)
        BY <1>6 DEF SubmitBroker, InState, Registered
  <2>2. id \notin accepted \cup raised /\ id \in InState({"approved"})
        BY <1>6 DEF SubmitBroker, Submittable
  <2>3. id \notin Submitted /\ atBroker[id] = 0
        BY <2>2 DEF Submitted, InState, SubmissionInv
  <2>4. PICK k \in {0, 1} : /\ atBroker' = [atBroker EXCEPT ![id] = @ + k]
                            /\ \/ k = 1 /\ accepted' = accepted \cup {id} /\ raised' = raised
                               \/ accepted' = accepted /\ raised' = raised \cup {id}
        BY <1>6, <2>2 DEF SubmitBroker
  <2>5. /\ \A other \in Ids : other # id => atBroker'[other] = atBroker[other]
        /\ atBroker'[id] = atBroker[id] + k
        BY <2>4 DEF TypeOK
  <2>6. adapter' = adapter /\ adapter = "auto with broker"
        BY <1>6 DEF SubmitBroker
  <2>7. Submitted' = Submitted \cup {id}
        BY <2>1, <2>4 DEF Submitted
  <2>8. /\ \A i \in Ids : atBroker'[i] <= 1
        /\ \A i \in Ids \ Submitted' : atBroker'[i] = 0
    <3> SUFFICES ASSUME NEW i \in Ids
                 PROVE  atBroker'[i] <= 1 /\ (i \notin Submitted' => atBroker'[i] = 0)
        OBVIOUS
    <3>1. CASE i = id
          BY <2>3, <2>5, <2>7, <3>1
    <3>2. CASE i # id
          BY <2>5, <2>7, <3>2 DEF SubmissionInv
    <3> QED BY <3>1, <3>2
  <2>9. \A i \in accepted' \cup InState({"placed"})' :
          adapter' = "auto with broker" /\ atBroker'[i] > 0
    <3> SUFFICES ASSUME NEW i \in accepted' \cup InState({"placed"}) PROVE atBroker'[i] > 0
        BY <2>1, <2>6
    <3>1. CASE i = id
      <4>1. k = 1
            BY <2>2, <2>4, <3>1 DEF InState
      <4> QED BY <1>0, <2>5, <3>1, <4>1
    <3>2. CASE i # id
      <4>1. i \in accepted \cup InState({"placed"}) /\ i \in Ids
            BY <2>1, <2>4, <3>2 DEF TypeOK, InState, Registered
      <4>2. atBroker'[i] = atBroker[i]
            BY <2>5, <3>2, <4>1
      <4> QED BY <4>1, <4>2 DEF SubmissionInv
    <3> QED BY <3>1, <3>2
  <2> QED BY <2>1, <2>2, <2>4, <2>8, <2>9 DEF SubmissionInv
<1>7. ASSUME NEW id \in Ids, NEW to \in {"placed", "failed"}, NEW left,
             Transition(id, to, "system"), id \in left, left \in {accepted, raised},
             to = "placed" => left = accepted,
             accepted' = accepted \ {id}, raised' = raised \ {id},
             UNCHANGED <<adapter, atBroker, restarts>>
      PROVE  SubmissionInv'
  <2>1. book[id].state = "approved" /\ id \in Registered
        BY <1>7 DEF SubmissionInv, InState
  <2>2. /\ Registered' = Registered
        /\ book'[id].state = to
        /\ \A other \in Registered : other # id => book'[other] = book[other]
        BY <1>7, TransitionEffect, RegisteredTyped
  <2>3. /\ InState({"placed", "failed"})' = InState({"placed", "failed"}) \cup {id}
        /\ InState({"placed"})' \subseteq InState({"placed"}) \cup (IF to = "placed" THEN {id} ELSE {})
        /\ InState({"approved"})' = InState({"approved"}) \ {id}
        BY <1>7, <2>1, <2>2 DEF InState
  <2>4. Submitted' = Submitted
        BY <1>7, <2>3 DEF Submitted
  <2> QED BY <1>7, <2>3, <2>4 DEF SubmissionInv
<1>8. ASSUME NEW id \in Ids, MarkPlaced(id) PROVE SubmissionInv'
  <2>1. raised \ {id} = raised
        BY <1>8 DEF MarkPlaced, SubmissionInv
  <2> QED BY <1>7, <1>8, <2>1 DEF MarkPlaced
<1>9. ASSUME NEW id \in Ids, MarkFailed(id) PROVE SubmissionInv'
  <2>1. accepted \ {id} = accepted
        BY <1>9 DEF MarkFailed, SubmissionInv
  <2> QED BY <1>7, <1>9, <2>1 DEF MarkFailed
<1>10. CASE ExpireDue
  <2>1. /\ Registered' = Registered
        /\ \A id \in Registered :
             \/ book'[id] = book[id]
             \/ book[id].state = "pending" /\ book'[id].state = "expired"
    <3>1. \A id \in Registered : /\ Moved(book[id], "expired", "system").state = "expired"
                                 /\ Moved(book[id], "expired", "system") # NoTicket
          BY RegisteredTyped, MovedTyped, NoTicketAssumption DEF TypeOK, State
    <3> QED BY <1>10, <3>1 DEF ExpireDue, Due, Registered
  <2>2. /\ InState({"placed", "failed"})' = InState({"placed", "failed"})
        /\ InState({"placed"})' = InState({"placed"})
        /\ InState({"approved"})' = InState({"approved"})
        BY <2>1 DEF InState
  <2> QED BY <1>10, <2>2 DEF ExpireDue, SubmissionInv, Submitted
<1>11. CASE Restart
  <2>1. \A S : InState(S)' = {}
        BY <1>11 DEF Restart, EmptyBook, InState, Registered
  <2>2. /\ accepted' = {} /\ raised' = {} /\ Submitted' = {}
        BY <1>11, <2>1 DEF Restart, Submitted
  <2>3. \A id \in Ids : atBroker'[id] = 0
        BY <1>11 DEF Restart, Zero
  <2>4. InState({"placed"})' = {} /\ InState({"approved"})' = {}
        BY <2>1
  <2>5. accepted' \cup InState({"placed"})' = {}
        BY <2>2, <2>4
  <2>6. \A id \in Ids : atBroker'[id] <= 1
        BY <2>3
  <2>7. \A id \in Ids \ Submitted' : atBroker'[id] = 0
        BY <2>3
  <2> QED BY <2>2, <2>4, <2>5, <2>6, <2>7 DEF SubmissionInv
<1>12. CASE Tick
      BY <1>12 DEF Tick, SubmissionInv, Submitted, InState, Registered
<1>13. CASE UNCHANGED vars
      BY <1>13 DEF vars, SubmissionInv, Submitted, InState, Registered
<1> QED BY <1>1, <1>3, <1>4, <1>5, <1>6, <1>8, <1>9, <1>10, <1>11, <1>12, <1>13 DEF Next

LEMMA SubmissionInvHolds ==
  ASSUME ~Resubmits PROVE Spec => []SubmissionInv
<1>1. Init => SubmissionInv
      BY DEF Init, SubmissionInv, Submitted, InState, Registered, EmptyBook, Zero
<1>2. TypeOK /\ SubmissionInv /\ [Next]_vars => SubmissionInv'
      BY SubmissionInvInductive
<1> QED BY <1>1, <1>2, TypeCorrect, PTL DEF Spec

(* At most one order reaches the broker per id and process lifetime, of a  *)
(* driver that marks a ticket failed when its submit raised.               *)
THEOREM AtMostOnceHolds ==
  ASSUME ~Resubmits PROVE Spec => []AtMostOneOrderPerLifetime
<1>1. SubmissionInv => AtMostOneOrderPerLifetime
      BY DEF SubmissionInv, AtMostOneOrderPerLifetime
<1> QED BY <1>1, SubmissionInvHolds, PTL

(* What is at the broker was approved.                                     *)
THEOREM OnlyApprovedHolds ==
  ASSUME ~Resubmits PROVE Spec => []OnlyApprovedReachBroker
<1>1. TypeOK /\ SubmissionInv => OnlyApprovedReachBroker
  <2> SUFFICES ASSUME TypeOK, SubmissionInv, NEW id \in Ids, atBroker[id] > 0
               PROVE  id \in InState({"approved", "placed", "failed"})
      BY DEF OnlyApprovedReachBroker
  <2>1. atBroker[id] # 0
        BY DEF TypeOK
  <2>2. id \in Submitted
        BY <2>1 DEF SubmissionInv
  <2> QED BY <2>2 DEF Submitted, SubmissionInv, InState
<1> QED BY <1>1, TypeCorrect, SubmissionInvHolds, PTL

(* A placed ticket has its order at the broker.                            *)
THEOREM PlacedIsAtBrokerHolds ==
  ASSUME ~Resubmits PROVE Spec => []PlacedIsAtBroker
<1>1. SubmissionInv => PlacedIsAtBroker
      BY DEF SubmissionInv, PlacedIsAtBroker
<1> QED BY <1>1, SubmissionInvHolds, PTL

----------------------------------------------------------------------------
(* No step but a restart rewinds, rewrites or drops a ticket.              *)
THEOREM NoRewindHolds == Spec => NoRewind
<1> DEFINE Kept(id) ==
      \/ book'[id] = book[id]
      \/ /\ book[id].state \in {"pending", "approved"}
         /\ book'[id] # NoTicket /\ book'[id].order = book[id].order
         /\ book'[id].expires = book[id].expires
<1> DEFINE Rewindless == restarts' # restarts \/ \A id \in Registered : Kept(id)
<1>1. TypeOK /\ Next => Rewindless
  <2> SUFFICES ASSUME TypeOK, Next PROVE Rewindless
      OBVIOUS
  <2>1. ASSUME NEW id, NEW to, NEW by \in {"human", "auto", "system"}, Transition(id, to, by)
        PROVE  Rewindless
    <3>1. book[id].state \in {"pending", "approved"} /\ book[id] \in Ticket /\ now \in 0 .. MaxTime
          BY <2>1, TransitionEffect, RegisteredTyped, AllowedTyped DEF TypeOK
    <3>2. /\ book'[id] = Moved(book[id], to, by) /\ book'[id] # NoTicket
          /\ to \in State
          BY <2>1, TransitionEffect
    <3>3. book'[id].order = book[id].order /\ book'[id].expires = book[id].expires
          BY <3>2 DEF Moved
    <3>4. Kept(id)
          BY <3>1, <3>2, <3>3
    <3> QED BY <2>1, <3>4, TransitionEffect DEF Registered
  <2>2. ASSUME NEW o \in Order, NEW w \in Windows, Create(o, w) PROVE Rewindless
        BY <2>2 DEF Create, Added, Registered, TypeOK
  <2>3. ASSUME NEW id \in Ids, Approve(id) \/ Reject(id) \/ AutoApprove(id) PROVE Rewindless
    <3>1. \E to, by : by \in {"human", "auto", "system"} /\ Transition(id, to, by)
          BY <2>3 DEF Approve, Reject, AutoApprove, Answer
    <3> QED BY <2>1, <3>1
  <2>4. ASSUME NEW id \in Ids, MarkPlaced(id) \/ MarkFailed(id) PROVE Rewindless
        BY <2>1, <2>4 DEF MarkPlaced, MarkFailed
  <2>5. ASSUME NEW id \in Ids,
               SubmitAlert(id) \/ SubmitUnfinished(id) \/ SubmitBroker(id)
        PROVE  Rewindless
        BY <2>5 DEF SubmitAlert, SubmitUnfinished, SubmitBroker
  <2>6. CASE ExpireDue
    <3>1. ASSUME NEW id \in Registered PROVE Kept(id)
      <4>1. CASE Due(book[id])
        <5>1. book'[id] = Moved(book[id], "expired", "system") /\ book[id].state = "pending"
              BY <2>6, <4>1, RegisteredTyped DEF ExpireDue, Due
        <5>2. book'[id] \in Ticket /\ book'[id].order = book[id].order
              /\ book'[id].expires = book[id].expires
              BY <5>1, RegisteredTyped, MovedTyped DEF TypeOK, State
        <5> QED BY <5>1, <5>2, NoTicketAssumption
      <4>2. CASE ~Due(book[id])
            BY <2>6, <4>2, RegisteredTyped DEF ExpireDue
      <4> QED BY <4>1, <4>2
    <3> QED BY <3>1
  <2>7. CASE Restart
    <3>1. restarts \in Int /\ restarts' = restarts + 1
          BY <2>7, TimeAssumption DEF Restart, TypeOK
    <3> QED BY <3>1
  <2>8. CASE Tick
        BY <2>8 DEF Tick
  <2> QED BY <2>2, <2>3, <2>4, <2>5, <2>6, <2>7, <2>8 DEF Next
<1>2. TypeOK /\ [Next]_vars => [Rewindless]_vars
      BY <1>1
<1> QED BY <1>2, TypeCorrect, PTL DEF Spec, NoRewind

----------------------------------------------------------------------------
(* The sweep expires exactly the pending tickets that are due.             *)
THEOREM SweepIsExactHolds == Spec => SweepIsExact
<1> DEFINE Exact == Swept # {} =>
             /\ \A id \in Swept : book[id].state = "pending" /\ now >= book[id].expires
             /\ \A id \in Registered \ Swept : book[id].state = "pending" => now < book[id].expires
<1>1. TypeOK /\ Next => Exact
  <2> SUFFICES ASSUME TypeOK, Next PROVE Exact
      OBVIOUS
  <2>1. ASSUME NEW id, NEW to, NEW by \in {"human", "auto", "system"},
               Transition(id, to, by), to # "expired"
        PROVE  Swept = {}
        BY <2>1, TransitionEffect DEF Registered, Swept
  <2>2. ASSUME NEW o \in Order, NEW w \in Windows, Create(o, w) PROVE Swept = {}
    <3>1. \A id \in Registered : book'[id] = book[id]
          BY <2>2 DEF Create, Added, Registered, TypeOK
    <3> QED BY <3>1 DEF Swept
  <2>3. ASSUME NEW id \in Ids, Approve(id) \/ Reject(id) \/ AutoApprove(id) PROVE Swept = {}
    <3>1. \E to, by : /\ by \in {"human", "auto", "system"} /\ to # "expired"
                     /\ Transition(id, to, by)
          BY <2>3 DEF Approve, Reject, AutoApprove, Answer
    <3> QED BY <2>1, <3>1
  <2>4. ASSUME NEW id \in Ids, MarkPlaced(id) \/ MarkFailed(id) PROVE Swept = {}
        BY <2>1, <2>4 DEF MarkPlaced, MarkFailed
  <2>5. ASSUME NEW id \in Ids,
               SubmitAlert(id) \/ SubmitUnfinished(id) \/ SubmitBroker(id)
        PROVE  Swept = {}
        BY <2>5 DEF SubmitAlert, SubmitUnfinished, SubmitBroker, Swept
  <2>6. CASE ExpireDue
    <3>1. \A id \in Registered : Due(book[id]) => id \in Swept
      <4> SUFFICES ASSUME NEW id \in Registered, Due(book[id]) PROVE id \in Swept
          OBVIOUS
      <4>1. book'[id] = Moved(book[id], "expired", "system") /\ book[id].state = "pending"
            BY <2>6, RegisteredTyped DEF ExpireDue, Due
      <4>2. book'[id] \in Ticket /\ book'[id].state = "expired"
            BY <4>1, RegisteredTyped, MovedTyped DEF TypeOK, State
      <4> QED BY <4>1, <4>2, NoTicketAssumption DEF Swept
    <3>2. \A id \in Registered : ~Due(book[id]) => book'[id] = book[id]
          BY <2>6, RegisteredTyped DEF ExpireDue
    <3>3. \A id \in Registered : now \in Int /\ book[id].expires \in Int
          BY RegisteredTyped, TimeAssumption DEF TypeOK, Ticket
    <3> QED BY <3>1, <3>2, <3>3 DEF Due, Swept
  <2>7. CASE Restart
        BY <2>7, RegisteredTyped DEF Restart, EmptyBook, Swept
  <2>8. CASE Tick
        BY <2>8 DEF Tick, Swept
  <2> QED BY <2>2, <2>3, <2>4, <2>5, <2>6, <2>7, <2>8 DEF Next
<1>2. TypeOK /\ [Next]_vars => [Exact]_vars
      BY <1>1
<1> QED BY <1>2, TypeCorrect, PTL DEF Spec, SweepIsExact

----------------------------------------------------------------------------
(* One ticket's transition, read as a change of the sets of tickets.       *)
LEMMA TransitionMoves ==
  ASSUME TypeOK, NEW id, NEW to, NEW by \in {"human", "auto", "system"},
         Transition(id, to, by), NEW S
  PROVE  InState(S)' = IF to \in S THEN InState(S) \cup {id} ELSE InState(S) \ {id}
BY TransitionEffect DEF InState, Registered

(* With a driver that does not resubmit, the ticket layer implements       *)
(* OrderConsent.                                                           *)
THEOREM Refinement ==
  ASSUME ~Resubmits PROVE Spec => ImplementsConsent
<1> DEFINE Agreed == InState({"approved", "placed", "failed"})
           Refused == InState({"rejected", "expired"})
           Executed == {id \in Ids : atBroker[id] > 0}
<1>1. Init => Consent!Init
      BY DEF Init, Consent!Init, InState, Registered, EmptyBook, Zero
<1>2. TypeOK /\ SubmissionInv /\ [Next]_vars => [Consent!Next]_(Consent!vars)
  <2> SUFFICES ASSUME TypeOK, SubmissionInv, [Next]_vars
               PROVE  Consent!Next \/ UNCHANGED Consent!vars
      OBVIOUS
  <2>0. \A id \in Registered : id \in Ids /\ book[id].state \in State
      BY RegisteredTyped
  <2>1. ASSUME NEW o \in Order, NEW w \in Windows, Create(o, w) PROVE UNCHANGED Consent!vars
    <3>1. now \in 0 .. MaxTime /\ TicketId(o, Day(now)) \in Ids
          BY IdTyped DEF TypeOK
    <3>2. /\ \A id \in Registered : book'[id] = book[id] /\ id \in Registered'
          /\ \A id \in Registered' \ Registered : book'[id].state = "pending"
          BY <2>1, <3>1, NewTicketTyped, NoTicketAssumption DEF Create, Added, Registered, TypeOK
    <3>3. \A S : "pending" \notin S => InState(S)' = InState(S)
          BY <3>2 DEF InState, Registered
    <3> QED BY <2>1, <3>3 DEF Create, Consent!vars
  <2>2. ASSUME NEW id \in Ids, NEW by \in {"human", "auto"}, Answer(id, "approved", by)
        PROVE  Consent!Agree(id)
    <3>1. id \in Registered /\ book[id].state = "pending"
          BY <2>2, AllowedTyped, TransitionEffect, RegisteredTyped DEF Answer
    <3>2. \A S : InState(S)' = IF "approved" \in S THEN InState(S) \cup {id} ELSE InState(S) \ {id}
          BY <2>2, TransitionMoves DEF Answer
    <3>3. \A S : "pending" \notin S => id \notin InState(S)
          BY <3>1 DEF InState
    <3>4. atBroker' = atBroker
          BY <2>2 DEF Answer
    <3> QED BY <3>2, <3>3, <3>4 DEF Consent!Agree, Consent!Open
  <2>3. ASSUME NEW id \in Ids, Reject(id) PROVE Consent!Refuse({id})
    <3>1. id \in Registered /\ book[id].state = "pending"
          BY <2>3, AllowedTyped, TransitionEffect, RegisteredTyped DEF Reject, Answer
    <3>2. \A S : InState(S)' = IF "rejected" \in S THEN InState(S) \cup {id} ELSE InState(S) \ {id}
          BY <2>3, TransitionMoves DEF Reject, Answer
    <3>3. \A S : "pending" \notin S => id \notin InState(S)
          BY <3>1 DEF InState
    <3>4. atBroker' = atBroker
          BY <2>3 DEF Reject, Answer
    <3> QED BY <3>2, <3>3, <3>4 DEF Consent!Refuse, Consent!Open
  <2>4. ASSUME NEW id \in Ids, SubmitAlert(id) \/ SubmitUnfinished(id) PROVE UNCHANGED Consent!vars
        BY <2>4 DEF SubmitAlert, SubmitUnfinished, Consent!vars, InState, Registered
  <2>5. ASSUME NEW id \in Ids, SubmitBroker(id)
        PROVE  Consent!Execute(id) \/ UNCHANGED Consent!vars
    <3>1. \A S : InState(S)' = InState(S)
          BY <2>5 DEF SubmitBroker, InState, Registered
    <3>2. id \in InState({"approved"}) /\ id \notin Submitted
          BY <2>5 DEF SubmitBroker, Submittable, Submitted, InState
    <3>3. id \in Agreed /\ id \notin InState({"placed"}) \cup InState({"failed"})
          BY <3>2 DEF InState
    <3>4. atBroker[id] = 0
          BY <3>2 DEF SubmissionInv
    <3>5. PICK k \in {0, 1} : atBroker' = [atBroker EXCEPT ![id] = @ + k]
          BY <2>5 DEF SubmitBroker
    <3>6. CASE k = 0
      <4>1. atBroker' = atBroker
            BY <3>4, <3>5, <3>6 DEF TypeOK
      <4> QED BY <3>1, <4>1 DEF Consent!vars
    <3>7. CASE k = 1
      <4>1. atBroker'[id] = 1 /\ atBroker[id] = 0
            BY <3>4, <3>5, <3>7 DEF TypeOK
      <4>2. \A other \in Ids : other # id => atBroker'[other] = atBroker[other]
            BY <3>5 DEF TypeOK
      <4>3. Executed' = Executed \cup {id} /\ id \notin Executed
            BY <4>1, <4>2
      <4> QED BY <3>1, <3>3, <4>3 DEF Consent!Execute
    <3> QED BY <3>6, <3>7
  <2>6. ASSUME NEW id \in Ids, MarkPlaced(id) PROVE Consent!RecordPlaced(id)
    <3>1. id \in InState({"approved"}) /\ id \in Executed
          BY <2>6 DEF MarkPlaced, SubmissionInv
    <3>2. \A S : InState(S)' = IF "placed" \in S THEN InState(S) \cup {id} ELSE InState(S) \ {id}
          BY <2>6, TransitionMoves DEF MarkPlaced
    <3>3. id \in Agreed /\ id \notin Refused /\ id \notin InState({"placed"}) \cup InState({"failed"})
          BY <3>1 DEF InState
    <3>4. atBroker' = atBroker
          BY <2>6 DEF MarkPlaced
    <3> QED BY <3>1, <3>2, <3>3, <3>4 DEF Consent!RecordPlaced
  <2>7. ASSUME NEW id \in Ids, MarkFailed(id) PROVE Consent!RecordFailed(id)
    <3>1. id \in InState({"approved"})
          BY <2>7 DEF MarkFailed, SubmissionInv
    <3>2. \A S : InState(S)' = IF "failed" \in S THEN InState(S) \cup {id} ELSE InState(S) \ {id}
          BY <2>7, TransitionMoves DEF MarkFailed
    <3>3. id \in Agreed /\ id \notin Refused /\ id \notin InState({"placed"}) \cup InState({"failed"})
          BY <3>1 DEF InState
    <3>4. atBroker' = atBroker
          BY <2>7 DEF MarkFailed
    <3> QED BY <3>1, <3>2, <3>3, <3>4 DEF Consent!RecordFailed
  <2>8. CASE ExpireDue
    <3> DEFINE D == {id \in Registered : Due(book[id])}
    <3>1. D \subseteq InState({"pending"})
          BY DEF Due, InState
    <3>2. \A id \in Registered :
            /\ id \in Registered'
            /\ id \in D => book'[id].state = "expired"
            /\ id \notin D => book'[id] = book[id]
      <4>1. \A id \in Registered : /\ Moved(book[id], "expired", "system").state = "expired"
                                   /\ Moved(book[id], "expired", "system") # NoTicket
            BY RegisteredTyped, MovedTyped, NoTicketAssumption DEF TypeOK, State
      <4> QED BY <2>8, <4>1 DEF ExpireDue, Registered
    <3>3. Registered' \subseteq Registered
          BY <2>8 DEF ExpireDue, Registered
    <3>4. /\ Agreed' = Agreed /\ InState({"placed"})' = InState({"placed"})
          /\ InState({"failed"})' = InState({"failed"}) /\ Refused' = Refused \cup D
          BY <3>1, <3>2, <3>3 DEF InState
    <3>5. D \subseteq Ids \ (Agreed \cup Refused)
          BY <2>0, <3>1 DEF InState
    <3>6. atBroker' = atBroker
          BY <2>8 DEF ExpireDue
    <3>7. Consent!Refuse(D)
          BY <3>4, <3>5, <3>6 DEF Consent!Refuse, Consent!Open
    <3> QED BY <3>5, <3>7 DEF Consent!Next
  <2>9. CASE Restart
    <3>1. \A S : InState(S)' = {}
          BY <2>9 DEF Restart, EmptyBook, InState, Registered
    <3>2. Executed' = {}
          BY <2>9 DEF Restart, Zero
    <3>3. Consent!Forget
          BY <3>1, <3>2 DEF Consent!Forget
    <3> QED BY <3>3 DEF Consent!Next
  <2>10. CASE Tick
        BY <2>10 DEF Tick, Consent!vars, InState, Registered
  <2>11. CASE UNCHANGED vars
        BY <2>11 DEF vars, Consent!vars, InState, Registered
  <2>12. ASSUME NEW id \in Ids, Approve(id) \/ AutoApprove(id) PROVE Consent!Agree(id)
        BY <2>2, <2>12 DEF Approve, AutoApprove
  <2> QED BY <2>1, <2>12, <2>3, <2>4, <2>5, <2>6, <2>7, <2>8, <2>9, <2>10, <2>11
          DEF Next, Consent!Next
<1> QED BY <1>1, <1>2, TypeCorrect, SubmissionInvHolds, PTL DEF Spec, ImplementsConsent, Consent!Spec
=============================================================================
