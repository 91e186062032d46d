----------------------------- MODULE DeskProofs -----------------------------
(***************************************************************************)
(* What the desk shows and what lives, for any number of actions, runs and *)
(* web threads.  The lock makes a run current as it begins; its thread is  *)
(* the only one to take it out of "running", and does so after the process *)
(* has ended.                                                              *)
(***************************************************************************)
EXTENDS Desk, TLAPS

(* Between the lock of start and its verdict a run has its thread.         *)
Busy(r) == run[r].pc \in {"claimed", "launch", "register", "read", "judge"}

BusyIsShown ==
  \A r \in RunId : Busy(r) =>
    /\ run[r].action \in Action /\ run[r].state = "running" /\ current[run[r].action] = r

LivingIsAttended ==
  \A r \in RunId : Alive(r) => run[r].pc \in {"register", "read"}

ReadIsRegistered ==
  \A r \in RunId : run[r].pc = "read" => procs[run[r].action] = r

RegisteredHasRead ==
  /\ \A a \in Action : procs[a] # None => run[procs[a]].pc \in {"read", "judge", "over"}
  /\ \A q \in Request : stopping[q] # None => run[stopping[q]].pc \in {"read", "judge", "over"}

(* An unused run has no thread and no action; a run with a thread has one. *)
UnusedIsBlank ==
  \A r \in RunId : run[r].action = None <=> run[r].pc = "none"

DeskInv ==
  /\ TypeOK /\ BusyIsShown /\ LivingIsAttended /\ ReadIsRegistered /\ RegisteredHasRead
  /\ UnusedIsBlank

LEMMA DeskInitially == ASSUME Init PROVE DeskInv
<1>1. TypeOK
  BY DEF Init, TypeOK, RunType, NoRun, NoChild, State
<1>2. BusyIsShown /\ LivingIsAttended /\ ReadIsRegistered /\ RegisteredHasRead /\ UnusedIsBlank
  BY DEF Init, BusyIsShown, Busy, LivingIsAttended, Alive, ReadIsRegistered, RegisteredHasRead,
     UnusedIsBlank, NoRun, NoChild
<1> QED BY <1>1, <1>2 DEF DeskInv

(* The lock: no other run of the action is busy when one begins.           *)
LEMMA StartKeeps ==
  ASSUME DeskInv, NEW a \in Action, Start(a)
  PROVE  DeskInv'
<1>1. PICK r \in RunId :
        /\ run[r].action = None /\ Status(a) # "running"
        /\ run' = [run EXCEPT ![r] = [action |-> a, state |-> "running", pc |-> "claimed",
                                      finished |-> FALSE]]
        /\ current' = [current EXCEPT ![a] = r]
        /\ UNCHANGED <<procs, child, stopping, told>>
  BY DEF Start, Startable
<1> USE DEF DeskInv
<1>2. TypeOK'
  BY <1>1 DEF TypeOK, RunType, State
<1>3. run[r].pc = "none" /\ ~Alive(r)
  BY <1>1 DEF UnusedIsBlank, LivingIsAttended
<1>4. \A e \in RunId : e # r => run'[e] = run[e]
  BY <1>1 DEF TypeOK
<1>5. run'[r].action = a /\ run'[r].state = "running" /\ run'[r].pc = "claimed"
  BY <1>1 DEF TypeOK
<1>6. \A e \in RunId : Busy(e) => run[e].action # a
  BY <1>1, DeskConstants DEF Status, BusyIsShown, DeskConstants
<1>7. BusyIsShown'
  BY <1>1, <1>4, <1>5, <1>6 DEF BusyIsShown, Busy, TypeOK
<1>8. LivingIsAttended'
  BY <1>1, <1>3, <1>4 DEF LivingIsAttended, Alive
<1>9. ReadIsRegistered'
  BY <1>1, <1>4, <1>5 DEF ReadIsRegistered
<1>10. RegisteredHasRead'
  BY <1>1, <1>3, <1>4 DEF RegisteredHasRead, TypeOK
<1>11. UnusedIsBlank'
  BY <1>1, <1>4, <1>5, DeskConstants DEF UnusedIsBlank, DeskConstants
<1> QED BY <1>2, <1>7, <1>8, <1>9, <1>10, <1>11

(* A thread's step changes its own run, and its registration.              *)
LEMMA ThreadKeeps ==
  ASSUME DeskInv, NEW r \in RunId, Thread(r)
  PROVE  DeskInv'
<1> USE DEF DeskInv
<1>0. Busy(r) => run[r].action \in Action /\ run[r].state = "running"
                 /\ current[run[r].action] = r
  BY DEF BusyIsShown
<1>1. CASE Spawn(r)
  <2>1. run[r].pc = "claimed" /\ run' = [run EXCEPT ![r].pc = "launch"]
        /\ UNCHANGED <<current, procs, child, stopping, told>>
    BY <1>1 DEF Spawn, At, Goto
  <2>2. TypeOK'
    BY <2>1 DEF TypeOK, RunType
  <2>3. BusyIsShown' /\ UnusedIsBlank' /\ LivingIsAttended' /\ ReadIsRegistered'
    BY <2>1 DEF BusyIsShown, Busy, UnusedIsBlank, LivingIsAttended, Alive, ReadIsRegistered,
       TypeOK, RunType
  <2>4. RegisteredHasRead'
    BY <2>1 DEF RegisteredHasRead, TypeOK, RunType
  <2> QED BY <2>2, <2>3, <2>4
<1>2. CASE Launch(r)
  <2>1. run[r].pc = "launch" /\ run' = [run EXCEPT ![r].pc = "register"]
        /\ child' = [child EXCEPT ![r].is = "alive"]
        /\ UNCHANGED <<current, procs, stopping, told>>
    BY <1>2 DEF Launch, At, Goto
  <2>2. TypeOK'
    BY <2>1, SMTT(30) DEF TypeOK, RunType
  <2>3. BusyIsShown' /\ UnusedIsBlank' /\ ReadIsRegistered'
    BY <2>1 DEF BusyIsShown, Busy, UnusedIsBlank, ReadIsRegistered, TypeOK, RunType
  <2>4. LivingIsAttended'
    BY <2>1 DEF LivingIsAttended, Alive, TypeOK, RunType
  <2>5. RegisteredHasRead'
    BY <2>1 DEF RegisteredHasRead, TypeOK, RunType
  <2> QED BY <2>2, <2>3, <2>4, <2>5
<1>3. CASE LaunchFails(r)
  <2>1. run[r].pc = "launch" /\ run' = [run EXCEPT ![r] = FailedToLaunch(@)]
        /\ UNCHANGED <<current, procs, child, stopping, told>>
    BY <1>3 DEF LaunchFails, At
  <2>2. /\ run'[r] = [action |-> run[r].action, state |-> "failed", pc |-> "over",
                      finished |-> run[r].finished]
        /\ \A e \in RunId : e # r => run'[e] = run[e]
    BY <2>1 DEF FailedToLaunch, TypeOK, RunType
  <2>3. TypeOK'
    BY <2>1, ZenonT(40) DEF TypeOK, RunType, State, FailedToLaunch
  <2>4. BusyIsShown' /\ UnusedIsBlank' /\ LivingIsAttended' /\ ReadIsRegistered'
    BY <2>1, <2>2 DEF BusyIsShown, Busy, UnusedIsBlank, LivingIsAttended, Alive, ReadIsRegistered
  <2>5. RegisteredHasRead'
    BY <2>1, <2>2 DEF RegisteredHasRead, TypeOK
  <2> QED BY <2>3, <2>4, <2>5
<1>4. CASE Register(r)
  <2>1. run[r].pc = "register" /\ run' = [run EXCEPT ![r].pc = "read"]
        /\ procs' = [procs EXCEPT ![run[r].action] = r]
        /\ UNCHANGED <<current, child, stopping, told>>
    BY <1>4 DEF Register, At, Goto
  <2>2. TypeOK'
    BY <2>1, ZenonT(40) DEF TypeOK, RunType
  <2>3. \A e \in RunId : run'[e].action = run[e].action /\ run'[e].state = run[e].state
                         /\ run'[e].pc = IF e = r THEN "read" ELSE run[e].pc
    BY <2>1 DEF TypeOK, RunType
  <2>4. BusyIsShown' /\ UnusedIsBlank' /\ LivingIsAttended'
    BY <2>1, <2>3 DEF BusyIsShown, Busy, UnusedIsBlank, LivingIsAttended, Alive
  <2>5. \A e \in RunId : e # r /\ run[e].pc = "read" => run[e].action # run[r].action
    BY <2>1 DEF BusyIsShown, Busy
  <2>6. run[r].action \in Action
    BY <1>0, <2>1 DEF Busy
  <2>7. ReadIsRegistered'
    BY <2>1, <2>3, <2>5, <2>6 DEF ReadIsRegistered, TypeOK, BusyIsShown, Busy
  <2>8. RegisteredHasRead'
    BY <2>1, <2>3, <2>6 DEF RegisteredHasRead, TypeOK
  <2> QED BY <2>2, <2>4, <2>7, <2>8
<1>5. CASE Collect(r)
  <2>1. run[r].pc = "read" /\ Exited(r)
        /\ run' = [run EXCEPT ![r].pc = "judge", ![r].finished = TRUE]
        /\ UNCHANGED <<current, procs, child, stopping, told>>
    BY <1>5 DEF Collect, At, Waited
  <2>2. TypeOK'
    <3>1. run' \in [RunId -> RunType]
      <4>1. run \in [RunId -> RunType] /\ [run[r] EXCEPT !.pc = "judge", !.finished = TRUE] \in RunType
        BY ZenonT(40) DEF TypeOK, RunType
      <4> QED BY <2>1, <4>1
    <3> QED BY <2>1, <3>1 DEF TypeOK
  <2>3. /\ run'[r].action = run[r].action /\ run'[r].state = run[r].state
        /\ run'[r].pc = "judge"
        /\ \A e \in RunId : e # r => run'[e] = run[e]
    BY <2>1 DEF TypeOK, RunType
  <2>4. BusyIsShown'
    <3>1. /\ run[r].action \in Action /\ run[r].state = "running"
          /\ current[run[r].action] = r
      BY <1>0, <2>1 DEF Busy
    <3>2. \A e \in RunId : e # r /\ Busy(e)' =>
            /\ run'[e].action \in Action /\ run'[e].state = "running"
            /\ current[run'[e].action] = e
      BY <2>3 DEF BusyIsShown, Busy
    <3>3. current' = current
      BY <2>1
    <3> QED BY <2>3, <3>1, <3>2, <3>3 DEF BusyIsShown
  <2>5. UnusedIsBlank'
    <3>1. run[r].action # None
      BY <2>1 DEF UnusedIsBlank
    <3>2. run'[r].action # None /\ run'[r].pc # "none"
      BY <2>3, <3>1
    <3>3. \A e \in RunId : e # r => (run'[e].action = None <=> run'[e].pc = "none")
      BY <2>3 DEF UnusedIsBlank
    <3> QED BY <3>2, <3>3 DEF UnusedIsBlank
  <2>8. ReadIsRegistered'
    BY <2>1, <2>3 DEF ReadIsRegistered
  <2>6. LivingIsAttended'
    BY <2>1, <2>3 DEF LivingIsAttended, Alive, Exited
  <2>7. RegisteredHasRead'
    BY <2>1, <2>3 DEF RegisteredHasRead, TypeOK
  <2> QED BY <2>2, <2>4, <2>5, <2>6, <2>7, <2>8
<1>6. CASE Judge(r)
  <2>1. run[r].pc = "judge"
        /\ run' = [run EXCEPT ![r].pc = "over", ![r].state = Verdict(child[r])]
        /\ UNCHANGED <<current, procs, child, stopping, told>>
    BY <1>6 DEF Judge, At
  <2>2. Verdict(child[r]) \in State
    BY DEF Verdict, State
  <2>3. TypeOK'
    <3>1. run' \in [RunId -> RunType]
      <4>1. /\ run \in [RunId -> RunType]
            /\ [run[r] EXCEPT !.pc = "over", !.state = Verdict(child[r])] \in RunType
        BY <2>2, ZenonT(40) DEF TypeOK, RunType
      <4> QED BY <2>1, <4>1
    <3> QED BY <2>1, <3>1 DEF TypeOK
  <2>4. /\ \A e \in RunId : run'[e].action = run[e].action
        /\ \A e \in RunId : e # r => run'[e] = run[e]
        /\ run'[r].pc = "over"
    BY <2>1 DEF TypeOK, RunType
  <2>5. BusyIsShown'
    BY <2>1, <2>4 DEF BusyIsShown, Busy
  <2>6. UnusedIsBlank' /\ ReadIsRegistered'
    BY <2>1, <2>4 DEF UnusedIsBlank, ReadIsRegistered
  <2>7. LivingIsAttended'
    BY <2>1, <2>4 DEF LivingIsAttended, Alive
  <2>8. RegisteredHasRead'
    BY <2>1, <2>4 DEF RegisteredHasRead, TypeOK
  <2> QED BY <2>3, <2>5, <2>6, <2>7, <2>8
<1> QED BY <1>1, <1>2, <1>3, <1>4, <1>5, <1>6 DEF Thread

(* Requests and children leave the runs and their threads alone.           *)
LEMMA OthersKeep ==
  ASSUME DeskInv,
         \/ \E a \in Action, q \in Request : StopReads(q, a)
         \/ \E q \in Request : StopTerminates(q)
         \/ \E r \in RunId : Ends(r) \/ EndsOnSignal(r)
         \/ UNCHANGED vars
  PROVE  DeskInv'
<1> USE DEF DeskInv
<1>1. ASSUME NEW a \in Action, NEW q \in Request, StopReads(q, a) PROVE DeskInv'
  <2>1. TypeOK'
    BY <1>1 DEF StopReads, TypeOK
  <2> QED BY <1>1, <2>1 DEF StopReads, BusyIsShown, Busy, LivingIsAttended, Alive,
          ReadIsRegistered, RegisteredHasRead, UnusedIsBlank, TypeOK
<1>2. ASSUME NEW q \in Request, StopTerminates(q) PROVE DeskInv'
  <2>1. TypeOK'
    BY <1>2, SMTT(30) DEF StopTerminates, Terminated, TypeOK
  <2>2. \A r \in RunId : Alive(r)' => Alive(r)
    BY <1>2 DEF StopTerminates, Terminated, TypeOK, Alive
  <2>3. UNCHANGED <<run, current, procs>>
        /\ \A e \in Request : stopping'[e] # None => stopping'[e] = stopping[e]
    BY <1>2 DEF StopTerminates, TypeOK
  <2> QED BY <2>1, <2>2, <2>3 DEF BusyIsShown, Busy, LivingIsAttended, ReadIsRegistered,
          RegisteredHasRead, UnusedIsBlank
<1>3. ASSUME NEW r \in RunId, Ends(r) \/ EndsOnSignal(r) PROVE DeskInv'
  <2>1. PICK asked \in BOOLEAN, code \in {0, 1} :
          child' = [child EXCEPT ![r] = Ended([asked |-> asked, code |-> code])]
    <3>1. Alive(r) /\ run[r].action \in Action
      BY <1>3 DEF Ends, EndsOnSignal, Alive, LivingIsAttended, BusyIsShown, Busy
    <3>2. Outcomes[run[r].action] \subseteq [asked : BOOLEAN, code : {0, 1}]
      BY <3>1, DeskConstants DEF DeskConstants
    <3>3. PICK outcome \in Outcomes[run[r].action] \cup [asked : BOOLEAN, code : {1}] :
            child' = [child EXCEPT ![r] = Ended(outcome)]
      BY <1>3 DEF Ends, EndsOnSignal
    <3>4. outcome \in [asked : BOOLEAN, code : {0, 1}]
      BY <3>2, <3>3
    <3>5. outcome.asked \in BOOLEAN /\ outcome.code \in {0, 1}
      BY <3>4
    <3>6. outcome = [asked |-> outcome.asked, code |-> outcome.code]
      BY <3>4
    <3> QED BY <3>3, <3>5, <3>6
  <2>2. UNCHANGED <<run, current, procs, stopping, told>>
    BY <1>3 DEF Ends, EndsOnSignal
  <2>3. TypeOK'
    BY <2>1, <2>2 DEF TypeOK, Ended
  <2>4. \A e \in RunId : Alive(e)' => Alive(e)
    BY <2>1 DEF TypeOK, Alive, Ended
  <2> QED BY <2>2, <2>3, <2>4 DEF BusyIsShown, Busy, LivingIsAttended, ReadIsRegistered,
          RegisteredHasRead, UnusedIsBlank
<1>4. CASE UNCHANGED vars
  BY <1>4 DEF vars, TypeOK, BusyIsShown, Busy, LivingIsAttended, Alive, ReadIsRegistered,
     RegisteredHasRead, UnusedIsBlank
<1> QED BY <1>1, <1>2, <1>3, <1>4

(* The invariant of the desk.                                              *)
THEOREM DeskInvHolds == Spec => []DeskInv
<1>1. Init => DeskInv
  BY DeskInitially
<1>2. DeskInv /\ [Next]_vars => DeskInv'
  BY StartKeeps, ThreadKeeps, OthersKeep DEF Next, Post
<1> QED BY <1>1, <1>2, PTL DEF Spec

(* The types of the desk: what its web threads and its run threads leave.  *)
THEOREM DeskTypes == Spec => []TypeOK
<1>1. DeskInv => TypeOK
  BY DEF DeskInv
<1> QED BY <1>1, DeskInvHolds, PTL

(* A living process is the one of the run its action shows as running.     *)
THEOREM LivingProcessHolds == Spec => []LivingProcessIsShown
<1>1. DeskInv => LivingProcessIsShown
  <2> SUFFICES ASSUME DeskInv, NEW r \in RunId, Alive(r)
      PROVE  /\ current[run[r].action] = r /\ run[r].state = "running"
             /\ \A e \in RunId : Alive(e) /\ run[e].action = run[r].action => e = r
    BY DEF LivingProcessIsShown
  <2>1. \A e \in RunId : Alive(e) => current[run[e].action] = e /\ run[e].state = "running"
    BY DEF DeskInv, LivingIsAttended, BusyIsShown, Busy
  <2> QED BY <2>1
<1> QED BY <1>1, DeskInvHolds, PTL

(* A signal reaches the process the desk shows, though stop acts on what   *)
(* it read before it released the lock.                                    *)
THEOREM SignalHolds == Spec => SignalReachesShown
<1>1. DeskInv /\ [Next]_vars =>
        [\A r \in RunId : child[r].is = "alive" /\ child'[r].is = "told" =>
           /\ procs[run[r].action] = r /\ current[run[r].action] = r
           /\ run[r].state = "running"]_vars
  <2> SUFFICES ASSUME DeskInv, Next, NEW r \in RunId,
                      child[r].is = "alive", child'[r].is = "told"
      PROVE  /\ procs[run[r].action] = r /\ current[run[r].action] = r
             /\ run[r].state = "running"
    OBVIOUS
  <2>1. \E q \in Request : stopping[q] = r
    <3>1. \A a \in Action : ~Start(a) /\ \A q \in Request : ~StopReads(q, a)
      BY DEF Start, StopReads
    <3>2. \A e \in RunId : ~Thread(e)
      BY DEF Thread, Spawn, Launch, LaunchFails, Register, Collect, Judge, DeskInv, TypeOK
    <3>3. \A e \in RunId : ~Ends(e) /\ ~EndsOnSignal(e)
      BY DEF Ends, EndsOnSignal, Ended, DeskInv, TypeOK
    <3>4. PICK q \in Request : StopTerminates(q)
      BY <3>1, <3>2, <3>3 DEF Next, Post
    <3>5. stopping[q] = r
      BY <3>4 DEF StopTerminates, Terminated, DeskInv, TypeOK
    <3> QED BY <3>5
  <2>2. run[r].pc \in {"register", "read"} /\ run[r].pc \in {"read", "judge", "over"}
    BY <2>1, DeskConstants DEF DeskInv, LivingIsAttended, Alive, RegisteredHasRead, DeskConstants
  <2> QED BY <2>2 DEF DeskInv, ReadIsRegistered, BusyIsShown, Busy
<1> QED BY <1>1, DeskInvHolds, PTL DEF Spec, SignalReachesShown
=============================================================================
