-------------------------------- MODULE Desk --------------------------------
(***************************************************************************)
(* The operator desk (control/actions.py behind control/server.py): web    *)
(* requests start and stop allowlisted actions; each run has a thread that *)
(* starts a child process, waits for it and settles how the run ended.     *)
(*                                                                         *)
(* The children are the package's own commands.  A child ends on its own,  *)
(* or because it was told to; what it said and its exit code are one of    *)
(* the Outcomes of its action.                                             *)
(***************************************************************************)
EXTENDS Integers, FiniteSets

CONSTANTS
  Action,        \* the allowlist, ACTIONS
  Outcomes,      \* per action: set of [asked : BOOLEAN, code : {0, 1}]
  MaxRuns,       \* bound on runs
  Request,       \* web threads that call stop
  None,
  EndsItself(_)  \* does the action's child end when nobody stops it?

RunId == 1 .. MaxRuns

ASSUME DeskConstants ==
  /\ MaxRuns \in Nat /\ None \notin RunId /\ None \notin Action
  /\ \A a \in Action : Outcomes[a] \subseteq [asked : BOOLEAN, code : {0, 1}]

VARIABLES
  run,       \* ActionRun and the thread of each run; see RunType
  current,   \* ActionRunner._runs, per action the run it holds
  procs,     \* ActionRunner._procs, per action the run whose process it holds
  child,     \* per run, its process, and how it ended
  stopping,  \* per request, the run whose process it read under the lock
  told       \* history: the runs a stop answered True for

vars == <<run, current, procs, child, stopping, told>>

State == {"idle", "running", "done", "failed", "needs_you"}

NoRun == [action |-> None, state |-> "idle", pc |-> "none", finished |-> FALSE]

NoChild == [is |-> "none", asked |-> FALSE, code |-> 0]

Ended(outcome) == [is |-> "ended", asked |-> outcome.asked, code |-> outcome.code]

Init ==
  /\ run = [r \in RunId |-> NoRun] /\ child = [r \in RunId |-> NoChild]
  /\ current = [a \in Action |-> None] /\ procs = [a \in Action |-> None]
  /\ stopping = [q \in Request |-> None] /\ told = {}

Alive(r)  == child[r].is \in {"alive", "told"}
Exited(r) == child[r].is = "ended"

(* status(name): an action never started is idle.                          *)
Status(a) == IF current[a] = None THEN "idle" ELSE run[current[a]].state

----------------------------------------------------------------------------
(* Mutant of Startable: a running action is started again.                 *)
StartableAlways(a) == TRUE

Startable(a) == Status(a) # "running"

(* start, under the lock: a running action is answered with its own run.   *)
Start(a) == \E r \in RunId :
  /\ run[r].action = None /\ \A e \in 1 .. r - 1 : run[e].action # None
  /\ Startable(a)
  /\ run' = [run EXCEPT ![r] = [action |-> a, state |-> "running", pc |-> "claimed",
                                finished |-> FALSE]]
  /\ current' = [current EXCEPT ![a] = r]
  /\ UNCHANGED <<procs, child, stopping, told>>

At(r, pc) == run[r].pc = pc
Goto(r, pc) == run' = [run EXCEPT ![r].pc = pc]

(* threading.Thread(...).start(), after the lock is released.              *)
Spawn(r) == At(r, "claimed") /\ Goto(r, "launch") /\ UNCHANGED <<current, procs, child, stopping, told>>

Launch(r) ==
  /\ At(r, "launch") /\ Goto(r, "register")
  /\ child' = [child EXCEPT ![r].is = "alive"]
  /\ UNCHANGED <<current, procs, stopping, told>>

(* Mutant of FailedToLaunch: the thread returns without a verdict.         *)
FailedToLaunchSilently(old) == [old EXCEPT !.pc = "over"]

FailedToLaunch(old) == [old EXCEPT !.pc = "over", !.state = "failed"]

(* Popen raises OSError.                                                   *)
LaunchFails(r) ==
  /\ At(r, "launch")
  /\ run' = [run EXCEPT ![r] = FailedToLaunch(@)]
  /\ UNCHANGED <<current, procs, child, stopping, told>>

Register(r) ==
  /\ At(r, "register") /\ Goto(r, "read")
  /\ procs' = [procs EXCEPT ![run[r].action] = r]
  /\ UNCHANGED <<current, child, stopping, told>>

(* Mutant of Waited: the exit code is not waited for.                      *)
WaitedNot(r) == TRUE

Waited(r) == Exited(r)

(* The output ends, proc.wait returns, finished_at is written.             *)
Collect(r) ==
  /\ At(r, "read") /\ Waited(r)
  /\ run' = [run EXCEPT ![r].pc = "judge", ![r].finished = TRUE]
  /\ UNCHANGED <<current, procs, child, stopping, told>>

(* Mutant of Verdict: a state the page does not know.                      *)
VerdictKilled(outcome) == IF outcome.code = 0 THEN "done" ELSE "killed"

(* The verdict: the exit code first, then what the child said.             *)
Verdict(outcome) ==
  CASE outcome.code = 0 -> "done"
    [] outcome.code # 0 /\ outcome.asked -> "needs_you"
    [] OTHER -> "failed"

Judge(r) ==
  /\ At(r, "judge")
  /\ run' = [run EXCEPT ![r].pc = "over", ![r].state = Verdict(child[r])]
  /\ UNCHANGED <<current, procs, child, stopping, told>>

----------------------------------------------------------------------------
(* stop, under the lock: the process the action is known by.               *)
StopReads(q, a) ==
  /\ stopping[q] = None /\ procs[a] # None
  /\ stopping' = [stopping EXCEPT ![q] = procs[a]]
  /\ UNCHANGED <<run, current, procs, child, told>>

(* Mutant of Terminated: the answer is given and no signal sent.           *)
TerminatedNot(r) == UNCHANGED child

Terminated(r) == child' = [child EXCEPT ![r].is = "told"]

(* stop, after the lock: poll, terminate, answer True; or answer False.    *)
StopTerminates(q) ==
  /\ stopping[q] # None
  /\ IF Alive(stopping[q])
     THEN Terminated(stopping[q]) /\ told' = told \cup {stopping[q]}
     ELSE UNCHANGED <<child, told>>
  /\ stopping' = [stopping EXCEPT ![q] = None]
  /\ UNCHANGED <<run, current, procs>>

(* The child ends, of itself or on the signal; one that ended of itself    *)
(* between the poll and the signal keeps its own outcome.                  *)
Ends(r) ==
  /\ child[r].is = "alive"
  /\ \E outcome \in Outcomes[run[r].action] : child' = [child EXCEPT ![r] = Ended(outcome)]
  /\ UNCHANGED <<run, current, procs, stopping, told>>

EndsOnSignal(r) ==
  /\ child[r].is = "told"
  /\ \E outcome \in Outcomes[run[r].action] \cup [asked : BOOLEAN, code : {1}] :
       child' = [child EXCEPT ![r] = Ended(outcome)]
  /\ UNCHANGED <<run, current, procs, stopping, told>>

Thread(r) == Spawn(r) \/ Launch(r) \/ LaunchFails(r) \/ Register(r) \/ Collect(r) \/ Judge(r)

(* do_POST: each request is served by a thread of its own; the token and   *)
(* the name of the action are checked before.                              *)
Post(a) == Start(a) \/ \E q \in Request : StopReads(q, a)

Next ==
  \/ \E a \in Action : Post(a)
  \/ \E q \in Request : StopTerminates(q)
  \/ \E r \in RunId : Thread(r) \/ Ends(r) \/ EndsOnSignal(r)

Spec == Init /\ [][Next]_vars

(* Threads run; a signalled child ends; a child that ends itself does so.  *)
FairSpec ==
  /\ Spec
  /\ \A r \in RunId : WF_vars(Thread(r)) /\ WF_vars(EndsOnSignal(r))
  /\ \A r \in RunId : WF_vars(run[r].action # None /\ EndsItself(run[r].action) /\ Ends(r))

----------------------------------------------------------------------------
RunType == [action : Action \cup {None}, state : State, finished : BOOLEAN,
            pc : {"none", "claimed", "launch", "register", "read", "judge", "over"}]

(* Every variable has its type.                                            *)
TypeOK ==
  /\ run \in [RunId -> RunType]
  /\ current \in [Action -> RunId \cup {None}] /\ procs \in [Action -> RunId \cup {None}]
  /\ child \in [RunId -> [is : {"none", "alive", "told", "ended"},
                           asked : BOOLEAN, code : {0, 1}]]
  /\ stopping \in [Request -> RunId \cup {None}] /\ told \subseteq RunId

(* A process that lives is the one of the run its action shows as running, *)
(* however starts, stops and the threads interleave: no two processes of   *)
(* one action, and none the desk has lost sight of (ActionRunner.start).   *)
LivingProcessIsShown ==
  \A r \in RunId : Alive(r) =>
    /\ current[run[r].action] = r /\ run[r].state = "running"
    /\ \A e \in RunId : Alive(e) /\ run[e].action = run[r].action => e = r

(* A signal reaches a process of the action the request named, and only    *)
(* while the desk shows that action running (stop, whose second half runs  *)
(* outside the lock).                                                      *)
SignalReachesShown ==
  [][\A r \in RunId : child[r].is = "alive" /\ child'[r].is = "told" =>
       /\ procs[run[r].action] = r /\ current[run[r].action] = r
       /\ run[r].state = "running"]_vars

(* A run that was stopped leaves the running state: a stop that answered   *)
(* True took effect.                                                       *)
StopTakesEffect == \A r \in RunId : (r \in told) ~> (run[r].state # "running")

(* A run of an action that ends by itself is not shown as running forever. *)
EveryRunSettles ==
  \A r \in RunId :
    (run[r].action # None /\ EndsItself(run[r].action)) ~> (run[r].state # "running")

(* A run whose child said that it needs a human ends as needs_you, which   *)
(* is what the desk tells the operator by (actions.py:189 "surface it as a *)
(* distinct state: the operator has to act").                              *)
AskedIsShown ==
  \A r \in RunId : At(r, "over") /\ child[r].asked => run[r].state = "needs_you"
=============================================================================
