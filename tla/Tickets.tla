------------------------------ MODULE Tickets -------------------------------
(***************************************************************************)
(* Order tickets, the book that keys them, and the adapters that act on an *)
(* approved ticket (execution/tickets.py, execution/adapters.py).          *)
(*                                                                         *)
(* The package provides the lifecycle and no loop that drives it.  The     *)
(* driver is therefore external, and is modelled as the tests use it: it   *)
(* registers tickets with book.add, answers them, sweeps with expire_due,  *)
(* calls adapter.submit, and reports what came back with mark_placed or    *)
(* mark_failed.  Resubmits says whether it may instead submit again a      *)
(* ticket whose submit raised, which the still approved state allows.      *)
(***************************************************************************)
EXTENDS Orders, Sequences

CONSTANTS
  Order,          \* the orders the driver may propose
  Windows,        \* expires_at - created_at, as the driver chooses it
  SessionLength,  \* clock units in a Cairo day
  MaxTime,        \* bound on the clock
  MaxRestarts,    \* bound on process restarts
  MaxSends,       \* bound on alerts, and on resubmissions, per ticket
  Resubmits,      \* does the driver submit again a ticket whose submit raised?
  Cap,            \* max_order_egp of auto_approve
  NoTicket        \* dict.get's None

ASSUME OrderAssumption == \A o \in Order : ValidOrder(o)
ASSUME TimeAssumption ==
  /\ SessionLength \in Nat \ {0} /\ MaxTime \in Nat /\ Windows \subseteq Nat
  /\ MaxRestarts \in Nat /\ MaxSends \in Nat /\ Cap \in Nat
  /\ Resubmits \in BOOLEAN

State == {"pending", "approved", "placed", "rejected", "expired", "failed"}

(* Mutant of Allowed: a rejected ticket can be revived.                    *)
AllowedRevives(s) ==
  CASE s = "pending"  -> {"approved", "rejected", "expired"}
    [] s = "approved" -> {"placed", "failed"}
    [] s = "rejected" -> {"approved"}
    [] OTHER          -> {}

(* _ALLOWED: the only transitions that exist.                              *)
Allowed(s) ==
  CASE s = "pending"  -> {"approved", "rejected", "expired"}
    [] s = "approved" -> {"placed", "failed"}
    [] OTHER          -> {}

Adapter == {"alert", "assisted", "auto", "auto with broker"}

Day(t) == t \div SessionLength
Ids    == {TicketId(o, Day(t)) : o \in Order, t \in 0 .. MaxTime}
Event  == [when : Nat, to : State, by : {"human", "auto", "system"}]
Ticket == [order : Order, expires : Nat, state : State, history : Seq(Event)]

ASSUME NoTicketAssumption == NoTicket \notin Ticket

VARIABLES
  now,       \* the clock
  adapter,   \* the adapter in use, fixed by the configuration
  book,      \* TicketBook._tickets
  accepted,  \* tickets whose submit returned, not yet marked (driver)
  raised,    \* tickets whose submit raised, not yet marked (driver)
  sent,      \* AlertAdapter.sent: alerts emitted per ticket
  atBroker,  \* orders that reached the broker in this lifetime (history)
  restarts   \* process restarts so far

vars == <<now, adapter, book, accepted, raised, sent, atBroker, restarts>>

EmptyBook == [id \in Ids |-> NoTicket]
Zero      == [id \in Ids |-> 0]
Registered == {id \in Ids : book[id] # NoTicket}
InState(S) == {id \in Registered : book[id].state \in S}

TypeOK ==
  /\ now \in 0 .. MaxTime
  /\ adapter \in Adapter
  /\ book \in [Ids -> Ticket \cup {NoTicket}]
  /\ accepted \subseteq Ids /\ raised \subseteq Ids
  /\ sent \in [Ids -> Nat] /\ atBroker \in [Ids -> Nat]
  /\ restarts \in 0 .. MaxRestarts

Init ==
  /\ now = 0 /\ adapter \in Adapter
  /\ book = EmptyBook
  /\ accepted = {} /\ raised = {}
  /\ sent = Zero /\ atBroker = Zero /\ restarts = 0

----------------------------------------------------------------------------
(* Ticket.transition: the new state and the audit entry together.          *)
Moved(t, to, by) ==
  [order |-> t.order, expires |-> t.expires, state |-> to,
   history |-> Append(t.history, [when |-> now, to |-> to, by |-> by])]

Transition(id, to, by) ==
  /\ id \in Registered
  /\ to \in Allowed(book[id].state)
  /\ book' = [book EXCEPT ![id] = Moved(@, to, by)]

(* Mutant of NewTicket: the window is subtracted.                          *)
NewTicketBackdated(o, w) ==
  [order |-> o, expires |-> now - w, state |-> "pending", history |-> <<>>]

NewTicket(o, w) ==
  [order |-> o, expires |-> now + w, state |-> "pending", history |-> <<>>]

(* Mutant of Added: a duplicate replaces the registered ticket.            *)
AddedReplaces(o, w) == NewTicket(o, w)

(* TicketBook.add of Ticket(order, now, now + w): the ticket it returns is *)
(* the one already registered under the same id, if there is one.          *)
Added(o, w) ==
  LET id == TicketId(o, Day(now)) IN
  IF book[id] = NoTicket THEN NewTicket(o, w) ELSE book[id]

Create(o, w) ==
  /\ book' = [book EXCEPT ![TicketId(o, Day(now))] = Added(o, w)]
  /\ UNCHANGED <<now, adapter, accepted, raised, sent, atBroker, restarts>>

Answer(id, to, by) ==
  /\ Transition(id, to, by)
  /\ UNCHANGED <<now, adapter, accepted, raised, sent, atBroker, restarts>>

(* Ticket.approve and Ticket.reject: neither looks at expires_at.          *)
Approve(id) == Answer(id, "approved", "human")
Reject(id)  == Answer(id, "rejected", "human")

(* auto_approve: refuses an over-cap order and leaves the ticket pending.  *)
AutoApprove(id) ==
  /\ id \in Registered
  /\ Notional(book[id].order) <= Cap
  /\ Answer(id, "approved", "auto")

(* Mutants of Due: a strict deadline; a sweep that cancels approved tickets. *)
DueStrict(t)   == t.state = "pending" /\ now > t.expires
DueApproved(t) == t.state \in {"pending", "approved"} /\ now >= t.expires

(* Ticket.expire_if_due                                                    *)
Due(t) == t.state = "pending" /\ now >= t.expires

(* TicketBook.expire_due: one sweep over every pending ticket.             *)
ExpireDue ==
  LET due == {id \in Registered : Due(book[id])} IN
  /\ due # {}
  /\ book' = [id \in Ids |-> IF id \in due THEN Moved(book[id], "expired", "system")
                                           ELSE book[id]]
  /\ UNCHANGED <<now, adapter, accepted, raised, sent, atBroker, restarts>>

----------------------------------------------------------------------------
(* Mutant of Submittable: a failed ticket may be sent again.               *)
SubmittableFailed(id) == id \in InState({"approved", "failed"})

(* _require_approved, the first call of every adapter's submit.            *)
Submittable(id) == id \in InState({"approved"})

(* AlertAdapter.submit: emits, and leaves the ticket approved.             *)
SubmitAlert(id) ==
  /\ adapter = "alert" /\ Submittable(id) /\ sent[id] < MaxSends
  /\ sent' = [sent EXCEPT ![id] = @ + 1]
  /\ UNCHANGED <<now, adapter, book, accepted, raised, atBroker, restarts>>

(* Mutant of SubmitUnfinished: returns as if the order had been placed.    *)
SubmitUnfinishedPretends(id) ==
  /\ adapter \in {"assisted", "auto"} /\ Submittable(id)
  /\ accepted' = accepted \cup {id}
  /\ UNCHANGED <<now, adapter, book, raised, sent, atBroker, restarts>>

(* AssistedAdapter.submit, and AutoAdapter.submit without an inner adapter: *)
(* both raise NotImplementedError after the approval check.                *)
SubmitUnfinished(id) ==
  /\ adapter \in {"assisted", "auto"} /\ Submittable(id)
  /\ raised' = raised \cup {id}
  /\ UNCHANGED <<now, adapter, book, accepted, sent, atBroker, restarts>>

(* AutoAdapter.submit with an inner (external) broker adapter.  The call   *)
(* returns only if the order reached the broker; when it raises (a timeout *)
(* included) the order may have reached it all the same.                   *)
SubmitBroker(id) ==
  /\ adapter = "auto with broker" /\ Submittable(id)
  /\ id \notin accepted
  /\ id \in raised => Resubmits /\ atBroker[id] < MaxSends
  /\ \/ /\ accepted' = accepted \cup {id} /\ raised' = raised \ {id}
        /\ atBroker' = [atBroker EXCEPT ![id] = @ + 1]
     \/ /\ raised' = raised \cup {id} /\ UNCHANGED accepted
        /\ \E reached \in {0, 1} : atBroker' = [atBroker EXCEPT ![id] = @ + reached]
  /\ UNCHANGED <<now, adapter, book, sent, restarts>>

(* The driver reports the outcome of its own submit.                       *)
MarkPlaced(id) ==
  /\ id \in accepted /\ accepted' = accepted \ {id}
  /\ Transition(id, "placed", "system")
  /\ UNCHANGED <<now, adapter, raised, sent, atBroker, restarts>>

MarkFailed(id) ==
  /\ id \in raised /\ raised' = raised \ {id}
  /\ Transition(id, "failed", "system")
  /\ UNCHANGED <<now, adapter, accepted, sent, atBroker, restarts>>

----------------------------------------------------------------------------
(* The book lives in memory only: a restarted process starts an empty one. *)
Restart ==
  /\ restarts < MaxRestarts /\ restarts' = restarts + 1
  /\ book' = EmptyBook
  /\ accepted' = {} /\ raised' = {} /\ sent' = Zero /\ atBroker' = Zero
  /\ UNCHANGED <<now, adapter>>

Tick ==
  /\ now < MaxTime /\ now' = now + 1
  /\ UNCHANGED <<adapter, book, accepted, raised, sent, atBroker, restarts>>

Next ==
  \/ \E o \in Order, w \in Windows : Create(o, w)
  \/ \E id \in Ids : \/ Approve(id) \/ Reject(id) \/ AutoApprove(id)
                     \/ SubmitAlert(id) \/ SubmitUnfinished(id) \/ SubmitBroker(id)
                     \/ MarkPlaced(id) \/ MarkFailed(id)
  \/ ExpireDue
  \/ Restart
  \/ Tick

Spec == Init /\ [][Next]_vars
----------------------------------------------------------------------------
(* The ticket's audit trail, in the shape README's state diagram allows.   *)
OnPath(t) ==
  \/ t.state = "pending" /\ Len(t.history) = 0
  \/ /\ t.state \in {"approved", "rejected", "expired"}
     /\ Len(t.history) = 1 /\ t.history[1].to = t.state
  \/ /\ t.state \in {"placed", "failed"}
     /\ Len(t.history) = 2 /\ t.history[1].to = "approved" /\ t.history[2].to = t.state
     /\ t.history[1].when <= t.history[2].when

(* README's state diagram, whatever _ALLOWED says: a ticket's audit trail  *)
(* is one of its six paths, ends in the ticket's state, and goes forward   *)
(* in time up to now.                                                      *)
AuditTrailIsAPath ==
  \A id \in Registered :
    /\ OnPath(book[id])
    /\ \A i \in 1 .. Len(book[id].history) : book[id].history[i].when <= now

(* "The second attempt is a no-op rather than a second position": within   *)
(* one process lifetime an id reaches the broker at most once, even when a *)
(* submit raised after the order had got through and the same order is     *)
(* proposed again.  Not so for a driver that submits such a ticket again   *)
(* before it marks it failed (Resubmits), which the code lets it do.       *)
AtMostOneOrderPerLifetime == \A id \in Ids : atBroker[id] <= 1

(* What reached the broker was approved, and stands on the book as         *)
(* approved, placed or failed; a ticket nobody approved, or that was       *)
(* rejected or expired, has no order at the broker.                        *)
OnlyApprovedReachBroker ==
  \A id \in Ids : atBroker[id] > 0 => id \in InState({"approved", "placed", "failed"})

(* A ticket recorded as placed really is at the broker, and nothing is     *)
(* placed unless an adapter with a broker behind it is in use (alert,      *)
(* assisted and bare auto never claim a position that does not exist).     *)
PlacedIsAtBroker ==
  \A id \in InState({"placed"}) : adapter = "auto with broker" /\ atBroker[id] > 0

(* The inductive strengthening of the three properties above, for a driver *)
(* that does not resubmit: a submission in progress belongs to an approved *)
(* ticket, and an id has at most one order at the broker, and that only    *)
(* while its ticket shows a submission.                                    *)
Submitted == accepted \cup raised \cup InState({"placed", "failed"})

SubmissionInv ==
  /\ accepted \cup raised \subseteq InState({"approved"})
  /\ accepted \cap raised = {}
  /\ \A id \in Ids : atBroker[id] <= 1
  /\ \A id \in Ids \ Submitted : atBroker[id] = 0
  /\ \A id \in accepted \cup InState({"placed"}) :
       adapter = "auto with broker" /\ atBroker[id] > 0

(* "There is no path from PLACED back to PENDING": no step other than a    *)
(* restart changes a terminal ticket or drops a ticket from the book.      *)
NoRewind ==
  [][\/ restarts' # restarts
     \/ \A id \in Registered :
          \/ book'[id] = book[id]
          \/ /\ book[id].state \in {"pending", "approved"}
             /\ book'[id] # NoTicket /\ book'[id].order = book[id].order
             /\ book'[id].expires = book[id].expires]_vars

(* The tickets a step turns expired.                                       *)
Swept == {id \in Registered : /\ book[id].state # "expired"
                              /\ book'[id] # NoTicket
                              /\ book'[id].state = "expired"}

(* expire_due touches only pending tickets whose deadline has passed, and  *)
(* misses none of them.                                                    *)
SweepIsExact ==
  [][Swept # {} =>
       /\ \A id \in Swept : book[id].state = "pending" /\ now >= book[id].expires
       /\ \A id \in Registered \ Swept : book[id].state = "pending" => now < book[id].expires
     ]_vars

(* The ticket layer implements OrderConsent: agreed, refused, placed and   *)
(* failed are read off the ticket states, executed off the broker.         *)
Consent == INSTANCE OrderConsent WITH
  Proposal <- Ids,
  agreed   <- InState({"approved", "placed", "failed"}),
  refused  <- InState({"rejected", "expired"}),
  executed <- {id \in Ids : atBroker[id] > 0},
  placed   <- InState({"placed"}),
  failed   <- InState({"failed"})

(* Every step of the ticket layer answers, executes or records proposals   *)
(* as OrderConsent allows, forgets them all, or changes nothing the        *)
(* promise is about.                                                       *)
ImplementsConsent == Consent!Spec

=============================================================================
