---------------------------- MODULE OrderConsent ----------------------------
(***************************************************************************)
(* What the ticket layer promises, without tickets: each proposal is       *)
(* answered at most once, only an agreed one is executed, at most once,    *)
(* and not after its outcome has been recorded.  All of it is a promise of *)
(* one process lifetime: nothing is remembered beyond it.                  *)
(***************************************************************************)
CONSTANT Proposal

VARIABLES agreed, refused, executed, placed, failed

vars == <<agreed, refused, executed, placed, failed>>

Open == Proposal \ (agreed \cup refused)

Init == agreed = {} /\ refused = {} /\ executed = {} /\ placed = {} /\ failed = {}

Agree(p) ==
  /\ p \in Open /\ agreed' = agreed \cup {p}
  /\ UNCHANGED <<refused, executed, placed, failed>>

Refuse(S) ==
  /\ S \subseteq Open /\ refused' = refused \cup S
  /\ UNCHANGED <<agreed, executed, placed, failed>>

Execute(p) ==
  /\ p \in agreed \ (executed \cup placed \cup failed)
  /\ executed' = executed \cup {p}
  /\ UNCHANGED <<agreed, refused, placed, failed>>

RecordPlaced(p) ==
  /\ p \in executed \ (placed \cup failed) /\ placed' = placed \cup {p}
  /\ UNCHANGED <<agreed, refused, executed, failed>>

RecordFailed(p) ==
  /\ p \in agreed \ (placed \cup failed) /\ failed' = failed \cup {p}
  /\ UNCHANGED <<agreed, refused, executed, placed>>

(* A new lifetime begins.                                                  *)
Forget == agreed' = {} /\ refused' = {} /\ executed' = {} /\ placed' = {} /\ failed' = {}

Next ==
  \/ Forget
  \/ \E p \in Proposal : \/ Agree(p) \/ Execute(p)
                         \/ RecordPlaced(p) \/ RecordFailed(p)
  \/ \E S \in SUBSET Proposal : Refuse(S)

Spec == Init /\ [][Next]_vars
=============================================================================
