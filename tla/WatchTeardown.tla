----------------------------- MODULE WatchTeardown -----------------------------
(***************************************************************************)
(* Who tears a process group's communicators down, and when                *)
(* (mojo/tmb/backend/watchdog.mojo, the abort and destroy of pg.mojo, the  *)
(* exit hook and shutdown() of distributed/process_group.py).              *)
(*                                                                         *)
(* User threads call collectives, abort() and shutdown() under the backend *)
(* mutex; the watchdog thread ("dog") polls each communicator without it,  *)
(* reports incidents, and in abort mode aborts and exits; the exit hook    *)
(* ("exit") runs watch_exit without it.  Reaper threads bound whatever may *)
(* hang: a library call, an abort, a claimed abort of another thread.      *)
(*                                                                         *)
(* A communicator's queue (WatchQueue) is one bit here: work in flight.    *)
(* Timeouts and deadlines may pass at any point.                           *)
(***************************************************************************)
EXTENDS Integers

CONSTANTS
  N,        \* the group's communicators (W_NTRACK), all watched
  Users,    \* Python threads using the group
  Actions,  \* the configurations looked at: ACTION_ABORT, ACTION_REPORT
  MaxCalls  \* bound: collectives and aborts called

Comms   == 1..N
Threads == Users \cup {"dog", "exit"}

ASSUME WatchTeardownAssumption ==
  /\ N \in Nat /\ MaxCalls \in Nat
  /\ Actions \subseteq {"abort", "report"}
  /\ "dog" \notin Users /\ "exit" \notin Users
  /\ {"free", "none", "joined"} \cap Users = {}  \* values of mutex and joiner

VARIABLES
  action,    \* wa.action
  tstate,    \* T_STATE
  unwatched, \* T_UNWATCHED
  async,     \* T_ASYNC
  broken,    \* the library recorded an asynchronous error
  inflight,  \* T_TAIL # T_HEAD
  reported,  \* the oldest collective in flight was reported
  torn,      \* the library's communicator: live, being aborted, gone
  aborts,    \* history: aborts started on it
  call,      \* W_CALL_NS, W_CALL_OP: the library call in progress
  callSeen,  \* wa.reported_call is that call
  stop, joiner,  \* W_STOP, W_JOINER
  reaper,    \* the cells armed by the dog and by the exit hook
  retained,  \* W_RETAINED
  byCall,    \* history: the reaper was left armed for a library call
  mutex, table, closing, freed,  \* pg.mojo: mutex, comms, closing, freed watch
  handle, listed, users, dead,  \* self._handle, _LIVE_WATCHDOGS and its entry
  pc, at,    \* each thread's step and the communicator it is at
  job,       \* what a loop over communicators is for
  calls, exited

ownVars    == <<tstate, unwatched>>
libVars    == <<torn, aborts>>
errVars    == <<async, broken>>
queueVars  == <<inflight, reported>>
commVars   == <<ownVars, libVars, errVars, queueVars>>
callVars   == <<call, callSeen>>
stopVars   == <<stop, joiner>>
reaperVars == <<reaper, retained, byCall>>
groupVars  == <<mutex, table, closing, freed>>
pyVars     == <<handle, listed, users, dead>>
rest       == <<action, stopVars, reaperVars, groupVars, pyVars, calls, exited>>
vars       == <<rest, commVars, callVars, pc, at, job>>

Init ==
  /\ action \in Actions
  /\ tstate = [c \in Comms |-> "LIVE"]
  /\ unwatched = [c \in Comms |-> FALSE] /\ async = [c \in Comms |-> FALSE]
  /\ broken = [c \in Comms |-> FALSE] /\ inflight = [c \in Comms |-> FALSE]
  /\ reported = [c \in Comms |-> FALSE]
  /\ torn = [c \in Comms |-> "live"] /\ aborts = [c \in Comms |-> 0]
  /\ call = "none" /\ callSeen = FALSE
  /\ stop = FALSE /\ joiner = "none"
  /\ reaper = [x \in {"dog", "exit"} |-> "off"] /\ retained = FALSE
  /\ byCall = FALSE
  /\ mutex = "free" /\ table = Comms /\ closing = FALSE /\ freed = FALSE
  /\ handle = TRUE /\ listed = TRUE /\ users = 0 /\ dead = FALSE
  /\ pc = [t \in Threads |-> "idle"] /\ at = [t \in Threads |-> 1]
  /\ job = [t \in Threads |-> "none"]
  /\ calls = 0 /\ exited = FALSE

-----------------------------------------------------------------------------
Set(f, k, v) == [f EXCEPT ![k] = v]
Step(t, from, to) == ~exited /\ pc[t] = from /\ pc' = Set(pc, t, to)
Stay == UNCHANGED <<at, job>>
Loop(t, j) == at' = Set(at, t, 1) /\ job' = Set(job, t, j)

Claimed(c) == tstate[c] \in {"CLAIMED", "RELEASED"}
AnyTearing == \E c \in Comms : tstate[c] = "CLAIMED"

\* _pending: a call, a claimed teardown, or watched work in flight.
Watched(c) == ~Claimed(c) /\ ~unwatched[c]
Pending == \/ call # "none" \/ AnyTearing
           \/ \E c \in Comms : Watched(c) /\ inflight[c]

\* What _exit_report finds not reported yet.
UnreportedCall == call # "none" /\ ~callSeen /\ ~(call = "abort" /\ AnyTearing)
UnreportedWork == {c \in Comms : Watched(c) /\ inflight[c] /\ ~reported[c]}
Unreported     == UnreportedCall \/ UnreportedWork # {}

\* _terminal: reported in error, and nobody's to tear down yet.
Terminal(c) == ~Claimed(c) /\ async[c]

-----------------------------------------------------------------------------
(* Loops over the communicators: abort()'s only one, the destroy's loop,    *)
(* _abort_all ("all"; "fail" when an exit follows), _exit_cleanup.          *)

\* Communicators a loop passes over: the destroy's snapshot leaves out those
\* aborted before it, _exit_cleanup only takes those in error.
Passed(t, c) == \/ job[t] = "destroy" /\ c \notin table
                \/ job[t] = "cleanup" /\ ~Terminal(c)


Ends(t) == at[t] > N
Onward(t) == at' = Set(at, t, IF job[t] = "abort" THEN N + 1 ELSE at[t] + 1)

Pass(t) ==
  /\ ~Ends(t) /\ Step(t, "claim", "claim") /\ Passed(t, at[t])
  /\ Onward(t)
  /\ UNCHANGED <<rest, commVars, callVars, job>>

\* Mutants: a claim that does not wait for a poll to hand the state back, and
\* one that takes over another thread's.
Bug_Claimable(c) == tstate[c] \in {"LIVE", "POLLING"}
Bug_ClaimTaken(c) == tstate[c] \in {"LIVE", "CLAIMED"}

\* watch_claim: LIVE to CLAIMED; while POLLING, retry.
Claimable(c) == tstate[c] = "LIVE"
Claim(t) ==
  /\ ~Ends(t) /\ Step(t, "claim", "call") /\ ~Passed(t, at[t])
  /\ Claimable(at[t])
  /\ tstate' = Set(tstate, at[t], "CLAIMED")
  /\ unwatched' = Set(unwatched, at[t], TRUE)
  /\ UNCHANGED <<rest, libVars, errVars, queueVars, callVars, at, job>>

\* Mutant: a claim that gives up when it meets a poll.
Bug_Lost(c) == tstate[c] # "LIVE"

Lost(c) == Claimed(c)
ClaimLost(t) ==
  /\ ~Ends(t) /\ Step(t, "claim", "claim") /\ ~Passed(t, at[t])
  /\ Lost(at[t])
  /\ unwatched' = Set(unwatched, at[t], TRUE)
  /\ Onward(t)
  /\ UNCHANGED <<rest, tstate, libVars, errVars, queueVars, callVars, job>>

\* ncclCommAbort, marked as a call in progress (InCall) by abort() and by the
\* destroy, whichever thread that runs on.
InCall(t, op) == IF t \in Users \/ job[t] = "destroy"
                 THEN call' = op /\ callSeen' = FALSE ELSE UNCHANGED callVars
Abort(t) ==
  /\ Step(t, "call", "calling")
  /\ torn' = Set(torn, at[t], "aborting")
  /\ aborts' = Set(aborts, at[t], aborts[at[t]] + 1)
  /\ InCall(t, "abort")
  /\ UNCHANGED <<rest, ownVars, errVars, queueVars>> /\ Stay

\* It may hang; once it returned, nothing is left on the device.
Aborted(t) ==
  /\ Step(t, "calling", "release")
  /\ torn' = Set(torn, at[t], "gone")
  /\ inflight' = Set(inflight, at[t], FALSE)
  /\ InCall(t, "none")
  /\ UNCHANGED <<rest, ownVars, errVars, reported, aborts>> /\ Stay

\* watch_release: store RELEASED, then look for a retained reaper.
Release(t) ==
  /\ Step(t, "release", "look")
  /\ tstate' = Set(tstate, at[t], "RELEASED")
  /\ UNCHANGED <<rest, unwatched, libVars, errVars, queueVars, callVars>> /\ Stay

\* _idle reads W_CALL_NS, then every state; what follows differs.
LookOn(t) ==
  /\ Step(t, "look", "scan") /\ retained /\ call = "none"
  /\ UNCHANGED <<rest, commVars, callVars>> /\ Stay

LookOff(t) ==
  /\ Step(t, "look", "claim") /\ ~(retained /\ call = "none")
  /\ Onward(t)
  /\ UNCHANGED <<rest, commVars, callVars, job>>

Cancel == reaper' = IF AnyTearing THEN reaper ELSE Set(reaper, "exit", "cancelled")
Scan(t) ==
  /\ Step(t, "scan", "claim") /\ Cancel /\ Onward(t)
  /\ UNCHANGED <<action, stopVars, retained, byCall, groupVars, pyVars, calls,
                 exited, commVars, callVars, job>>

LoopStep(t) ==
  \/ Pass(t) \/ Claim(t) \/ ClaimLost(t) \/ Abort(t) \/ Release(t)
  \/ LookOn(t) \/ LookOff(t) \/ Scan(t)

-----------------------------------------------------------------------------
(* The library and the device.                                              *)

Env == ~exited /\ UNCHANGED <<rest, ownVars, libVars, callVars, pc, at, job>>
Break(c) ==
  /\ Env /\ torn[c] = "live" /\ ~broken[c] /\ broken' = Set(broken, c, TRUE)
  /\ UNCHANGED <<async, queueVars>>

Complete(c) ==
  /\ Env /\ inflight[c] /\ ~broken[c]
  /\ inflight' = Set(inflight, c, FALSE) /\ reported' = Set(reported, c, FALSE)
  /\ UNCHANGED errVars

\* A reaper's deadline passes: _exit(1).
ReaperFires(x) ==
  /\ ~exited /\ reaper[x] = "armed" /\ exited' = TRUE
  /\ UNCHANGED <<action, stopVars, reaperVars, groupVars, pyVars, calls,
                 commVars, callVars, pc, at, job>>

-----------------------------------------------------------------------------
(* A user thread: a collective ...                                          *)

\* A call may have loaded self._handle before a shutdown() took it; it then
\* still enters the group until it is closing.  Nobody holds it in a __del__.
HasHandle == handle \/ ~dead

Lock(t)   == mutex = "free" /\ mutex' = t
Unlock(t) == mutex' = "free"

CollCall(t, c) ==
  /\ calls < MaxCalls /\ calls' = calls + 1
  /\ Step(t, "idle", "incoll") /\ HasHandle
  /\ Lock(t) /\ ~closing /\ c \in table
  /\ at' = Set(at, t, c) /\ InCall(t, "coll")
  /\ UNCHANGED <<action, stopVars, reaperVars, table, closing, freed, pyVars,
                 exited, commVars, job>>

\* The call returns (a blocked one whenever its communicator is aborted, or a
\* peer turns up); watch_commit drops what it enqueued on a claimed one.
CollReturn(t) ==
  /\ Step(t, "incoll", "idle")
  /\ InCall(t, "none") /\ Unlock(t)
  /\ inflight' = Set(inflight, at[t], inflight[at[t]] \/ ~Claimed(at[t]))
  /\ UNCHANGED <<action, stopVars, reaperVars, table, closing, freed, pyVars,
                 calls, exited, ownVars, libVars, errVars, reported>> /\ Stay

\* ... abort() of one communicator (tmb_pg_abort) ...
AbortCall(t, c) ==
  /\ calls < MaxCalls /\ calls' = calls + 1
  /\ Step(t, "idle", "claim") /\ HasHandle
  /\ Lock(t) /\ ~closing /\ c \in table
  /\ table' = table \ {c}
  /\ at' = Set(at, t, c) /\ job' = Set(job, t, "abort")
  /\ UNCHANGED <<action, stopVars, reaperVars, closing, freed, pyVars, exited,
                 commVars, callVars>>

AbortReturn(t) ==
  /\ Step(t, "claim", "idle") /\ job[t] = "abort" /\ Ends(t)
  /\ Unlock(t)
  /\ UNCHANGED <<action, stopVars, reaperVars, table, closing, freed, pyVars,
                 calls, exited, commVars, callVars>> /\ Stay

\* ... shutdown(), on a user thread, or by the collector on the hook's own
\* thread once no other thread uses the group (__del__).
Shutdown(t) ==
  /\ handle /\ handle' = FALSE /\ listed' = FALSE
  /\ \/ t \in Users /\ Step(t, "idle", "waitUsers") /\ dead' = dead
     \/ /\ t = "exit" /\ Step(t, "enter", "waitUsers") /\ dead' = TRUE
        /\ \A u \in Users : pc[u] = "idle"
  /\ UNCHANGED <<action, stopVars, reaperVars, groupVars, users, calls, exited,
                 commVars, callVars>> /\ Stay

\* Mutant: the exit hook's calls are not waited for.
Bug_HookAway(t) == TRUE

HookAway(t) == users = 0 \/ t = "exit"

\* tmb_pg_destroy: closing, under the mutex; the drain without it, bounded.
Close(t) ==
  /\ Step(t, "waitUsers", "drain") /\ HookAway(t) /\ mutex = "free"
  /\ closing' = TRUE
  /\ UNCHANGED <<action, stopVars, reaperVars, mutex, table, freed, pyVars, calls,
                 exited, commVars, callVars>> /\ Stay

Drained(t) ==
  /\ Step(t, "drain", "claim") /\ Lock(t) /\ Loop(t, "destroy")
  /\ UNCHANGED <<action, stopVars, reaperVars, table, closing, freed, pyVars,
                 calls, exited, commVars, callVars>>

DestroyTorn(t) ==
  /\ Step(t, "claim", "stop") /\ job[t] = "destroy" /\ Ends(t)
  /\ UNCHANGED <<rest, commVars, callVars>> /\ Stay

\* watch_stop, of the destroy or of the exit hook: the first caller joins,
\* any other waits until it has.
Stop(t) ==
  /\ Step(t, "stop", "join") /\ stop' = TRUE
  /\ joiner' = IF joiner = "none" THEN t ELSE joiner
  /\ UNCHANGED <<action, reaperVars, groupVars, pyVars, calls, exited, commVars,
                 callVars>> /\ Stay

Joins(t) == joiner = "joined" \/ (joiner = t /\ pc["dog"] = "done")
Join(t) ==
  /\ Step(t, "join", "joined") /\ Joins(t) /\ joiner' = "joined"
  /\ UNCHANGED <<action, stop, reaperVars, groupVars, pyVars, calls, exited,
                 commVars, callVars>> /\ Stay

Free(t) ==
  /\ Step(t, "joined", IF t = "exit" THEN "enter" ELSE "idle")
  /\ job[t] = "destroy"
  /\ freed' = TRUE /\ table' = {} /\ Unlock(t)
  /\ UNCHANGED <<action, stopVars, reaperVars, closing, pyVars, calls, exited,
                 commVars, callVars>> /\ Stay

CloseStep(t) ==
  \/ Shutdown(t) \/ Close(t) \/ Drained(t) \/ DestroyTorn(t) \/ Stop(t)
  \/ Join(t) \/ Free(t)

-----------------------------------------------------------------------------
(* The watchdog thread: _watch_main, _poll, _poll_tracker, _poll_async.     *)

Dog(from, to) == Step("dog", from, to)
DogStays == UNCHANGED <<rest, commVars, callVars>>

DogWakes ==
  /\ IF stop THEN Dog("idle", "done") ELSE Dog("idle", "poll")
  /\ at' = Set(at, "dog", 1) /\ DogStays /\ UNCHANGED job

\* A call blocked on the host is reported once.
OnReport(next) == IF action = "abort" THEN "fail" ELSE next
DogHost ==
  /\ call # "none" /\ ~callSeen /\ callSeen' = TRUE
  /\ Dog("poll", OnReport("tracker"))
  /\ UNCHANGED <<rest, commVars, call>> /\ Stay

DogNoHost == Dog("poll", "tracker") /\ DogStays /\ Stay

DogSkip ==
  /\ ~Ends("dog") /\ ~Watched(at["dog"])
  /\ Dog("tracker", "tracker") /\ Onward("dog")
  /\ DogStays /\ UNCHANGED job

DogLook ==
  /\ ~Ends("dog") /\ Watched(at["dog"])
  /\ Dog("tracker", "cas") /\ DogStays /\ Stay

\* Mutant: the state is stored, not exchanged.
Bug_Pollable(c) == TRUE

\* LIVE to POLLING by compare-exchange, so it fails on a claimed one.
Pollable(c) == tstate[c] = "LIVE"
DogPoll ==
  /\ Dog("cas", "query") /\ Pollable(at["dog"])
  /\ tstate' = Set(tstate, at["dog"], "POLLING")
  /\ UNCHANGED <<rest, unwatched, libVars, errVars, queueVars, callVars>> /\ Stay

DogNoPoll ==
  /\ Dog("cas", "queue") /\ ~Pollable(at["dog"])
  /\ DogStays /\ Stay

\* The library is asked while the state is POLLING ...
DogQuery ==
  /\ Dog("query", IF broken[at["dog"]] THEN "unpollErr" ELSE "unpoll")
  /\ DogStays /\ Stay

\* ... which a plain store ends.
DogUnpoll ==
  /\ Dog("unpoll", "queue") \/ Dog("unpollErr", "async")
  /\ tstate' = Set(tstate, at["dog"], "LIVE")
  /\ UNCHANGED <<rest, unwatched, libVars, errVars, queueVars, callVars>> /\ Stay

DogAsync ==
  /\ Dog("async", OnReport("unwatch"))
  /\ async' = Set(async, at["dog"], TRUE)
  /\ UNCHANGED <<rest, ownVars, libVars, broken, queueVars, callVars>> /\ Stay

DogUnwatch ==
  /\ Dog("unwatch", "tracker") /\ Onward("dog")
  /\ unwatched' = Set(unwatched, at["dog"], TRUE)
  /\ UNCHANGED <<rest, tstate, libVars, errVars, queueVars, callVars, job>>

\* The oldest collective in flight timed out: reported once.
DogTimeout ==
  /\ Dog("queue", OnReport("tracker")) /\ Onward("dog")
  /\ inflight[at["dog"]] /\ ~reported[at["dog"]]
  /\ reported' = Set(reported, at["dog"], TRUE)
  /\ UNCHANGED <<rest, ownVars, libVars, errVars, inflight, callVars, job>>

DogNext == Dog("queue", "tracker") /\ Onward("dog") /\ DogStays /\ UNCHANGED job
DogRound == Ends("dog") /\ Dog("tracker", "idle") /\ DogStays /\ Stay

\* _fail in abort mode, for the dog and for the exit hook: a reaper first
\* (without one, the process exits at once), then _abort_all, then _exit(1).
Arm(t) == reaper' = Set(reaper, t, "armed")
OnlyReaper == UNCHANGED <<action, stopVars, retained, byCall, groupVars, pyVars,
                          calls, exited>>

Exit ==
  /\ exited' = TRUE
  /\ UNCHANGED <<action, stopVars, reaperVars, groupVars, pyVars, calls, commVars,
                 callVars, at, job>>

\* Mutant: no reaper bounds the aborts.
Bug_DogFail ==
  /\ Dog("fail", "claim") /\ Loop("dog", "fail")
  /\ UNCHANGED <<rest, commVars, callVars>>

DogFail ==
  \/ /\ Dog("fail", "claim") /\ Arm("dog") /\ Loop("dog", "fail")
     /\ OnlyReaper /\ UNCHANGED <<commVars, callVars>>
  \/ Dog("fail", "fail") /\ Exit

FailExit(t) == Step(t, "claim", "claim") /\ job[t] = "fail" /\ Ends(t) /\ Exit

DogStep ==
  \/ DogWakes \/ DogHost \/ DogNoHost \/ DogSkip \/ DogLook \/ DogPoll
  \/ DogNoPoll \/ DogQuery \/ DogUnpoll \/ DogAsync \/ DogUnwatch \/ DogTimeout
  \/ DogNext \/ DogRound \/ DogFail \/ FailExit("dog")

-----------------------------------------------------------------------------
(* The exit hook (_stop_watchdogs) and watch_exit.                          *)

Hook(from, to) == Step("exit", from, to)
HookStays == UNCHANGED <<rest, commVars, callVars>>
OnlyPy == UNCHANGED <<action, stopVars, reaperVars, groupVars, handle, dead, calls,
                      exited, commVars, callVars>>

HookPick ==
  \/ Hook("idle", "enter") /\ listed /\ users' = 1 /\ UNCHANGED listed
     /\ OnlyPy /\ Stay
  \/ Hook("idle", "done") /\ ~listed /\ HookStays /\ Stay

HookEnter ==
  /\ Hook("enter", IF dead \/ freed THEN "leave" ELSE "grace")
  /\ HookStays /\ Stay

\* The grace is over, or nothing is pending: stop the thread.
ExitGrace ==
  /\ Hook("grace", "stop")
  /\ job' = Set(job, "exit", IF stop THEN "stopped" ELSE "look")
  /\ HookStays /\ UNCHANGED at

ExitLook ==
  /\ \/ job["exit"] = "stopped" /\ Hook("joined", "leave")
     \/ job["exit"] = "look" /\ Hook("joined", IF Pending THEN "report" ELSE "clean")
  /\ HookStays /\ Stay

\* Mutant: no reaper is armed before the aborts.
Bug_ArmExit(from, j) ==
  Hook(from, "claim") /\ Loop("exit", j)
  /\ UNCHANGED <<action, stopVars, reaperVars, groupVars, pyVars, calls, exited>>

\* The reaper is armed before anything is torn down; a hook that cannot start
\* one leaves the communicators alone.
ArmExit(from, j) ==
  \/ Hook(from, "claim") /\ Arm("exit") /\ Loop("exit", j) /\ OnlyReaper
  \/ /\ Hook(from, "leave") /\ UNCHANGED rest /\ Stay
     /\ j # "fail"

ExitCleanup == ArmExit("clean", "cleanup") /\ UNCHANGED <<commVars, callVars>>

\* _exit_report, and _fail at exit.
ExitReport ==
  /\ ArmExit("report", OnReport("all"))
  /\ \/ /\ UnreportedCall /\ callSeen' = TRUE
        /\ UNCHANGED <<commVars, call>>
     \/ /\ ~UnreportedCall
        /\ \E c \in UnreportedWork : /\ \A d \in UnreportedWork : c <= d
                                     /\ reported' = Set(reported, c, TRUE)
        /\ UNCHANGED <<ownVars, libVars, errVars, inflight, callVars>>

ExitNoReaper ==
  /\ Unreported /\ action = "abort" /\ Hook("report", "report") /\ Exit

ExitAbort ==
  /\ ~Unreported /\ ArmExit("report", "all") /\ UNCHANGED <<commVars, callVars>>

\* Mutant: the cell is not published before the look.
Bug_CancelRetain ==
  /\ Hook("claim", "lastLook") /\ Ends("exit") /\ job["exit"] \in {"all", "cleanup"}
  /\ HookStays /\ Stay

\* _cancel_reaper: publish the cell, then look.
CancelRetain ==
  /\ Hook("claim", "lastLook") /\ Ends("exit") /\ job["exit"] \in {"all", "cleanup"}
  /\ retained' = TRUE
  /\ UNCHANGED <<action, stopVars, reaper, byCall, groupVars, pyVars, calls, exited,
                 commVars, callVars>> /\ Stay

CancelLook ==
  /\ Hook("lastLook", IF call = "none" THEN "lastScan" ELSE "leave")
  /\ byCall' = (call = "coll")
  /\ UNCHANGED <<action, stopVars, reaper, retained, groupVars, pyVars, calls,
                 exited, commVars, callVars>> /\ Stay

CancelScan ==
  /\ Hook("lastScan", "leave") /\ Cancel
  /\ OnlyReaper /\ UNCHANGED <<commVars, callVars>> /\ Stay

HookLeave ==
  /\ Hook("leave", "done") /\ users' = 0 /\ listed' = FALSE
  /\ OnlyPy /\ Stay

HookStep ==
  \/ HookPick \/ HookEnter \/ ExitGrace \/ ExitLook \/ ExitCleanup \/ ExitReport
  \/ ExitNoReaper \/ ExitAbort \/ CancelRetain \/ CancelLook \/ CancelScan
  \/ HookLeave \/ FailExit("exit")

-----------------------------------------------------------------------------
UserStep(t) ==
  \/ \E c \in Comms : CollCall(t, c) \/ AbortCall(t, c)
  \/ CollReturn(t) \/ AbortReturn(t)

Next ==
  \/ \E t \in Users : UserStep(t)
  \/ \E t \in Users \cup {"exit"} : CloseStep(t)
  \/ \E t \in Threads : LoopStep(t) \/ Aborted(t)
  \/ DogStep \/ HookStep
  \/ \E c \in Comms : Break(c) \/ Complete(c)
  \/ \E x \in {"dog", "exit"} : ReaperFires(x)

Spec == Init /\ [][Next]_vars

\* The dog and the hook run, and a reaper's deadline passes.  A call into the
\* library need never return, and no user thread need move.
Fairness ==
  /\ WF_vars(DogStep \/ LoopStep("dog"))
  /\ WF_vars(HookStep \/ LoopStep("exit") \/ Stop("exit") \/ Join("exit"))
  /\ \A x \in {"dog", "exit"} : WF_vars(ReaperFires(x))
FairSpec == Spec /\ Fairness

-----------------------------------------------------------------------------
LoopPcs == {"claim", "call", "calling", "release", "look", "scan"}
ClosePcs == {"waitUsers", "drain", "stop", "join", "joined"}
DogPcs == {"poll", "tracker", "cas", "query", "unpoll", "unpollErr", "async",
           "unwatch", "queue", "fail"}
ExitPcs == {"enter", "grace", "report", "clean", "lastLook", "lastScan", "leave"}
Pcs == LoopPcs \cup ClosePcs \cup DogPcs \cup ExitPcs \cup {"idle", "incoll", "done"}

\* The type invariant.
TypeOK ==
  /\ action \in Actions
  /\ tstate \in [Comms -> {"LIVE", "POLLING", "CLAIMED", "RELEASED"}]
  /\ unwatched \in [Comms -> BOOLEAN] /\ async \in [Comms -> BOOLEAN]
  /\ broken \in [Comms -> BOOLEAN] /\ inflight \in [Comms -> BOOLEAN]
  /\ reported \in [Comms -> BOOLEAN]
  /\ torn \in [Comms -> {"live", "aborting", "gone"}] /\ aborts \in [Comms -> Nat]
  /\ call \in {"none", "coll", "abort"} /\ callSeen \in BOOLEAN
  /\ stop \in BOOLEAN /\ joiner \in {"none", "joined"} \cup Threads
  /\ reaper \in [{"dog", "exit"} -> {"off", "armed", "cancelled"}]
  /\ retained \in BOOLEAN /\ byCall \in BOOLEAN
  /\ mutex \in {"free"} \cup Threads /\ table \subseteq Comms
  /\ closing \in BOOLEAN /\ freed \in BOOLEAN
  /\ handle \in BOOLEAN /\ listed \in BOOLEAN /\ users \in Nat /\ dead \in BOOLEAN
  /\ pc \in [Threads -> Pcs] /\ at \in [Threads -> 1..(N + 1)]
  /\ job \in [Threads -> {"none", "abort", "destroy", "all", "fail", "cleanup",
                          "look", "stopped"}]
  /\ calls \in Nat /\ exited \in BOOLEAN

\* A communicator is torn down by one thread, once: whoever loses watch_claim
\* leaves it alone.
TornOnce == \A c \in Comms : aborts[c] <= 1

\* The watchdog asks the library only about communicators nobody has begun to
\* tear down ("they never start on a claimed communicator, and a claimer
\* retries").
QueryOnLive == pc["dog"] = "query" => torn[at["dog"]] = "live"

\* A claim stands: the plain store that ends a poll never undoes one.
ClaimStands == [][\A c \in Comms : Claimed(c) => Claimed(c)']_vars

\* Nobody is inside the watch once the destroy freed it: not the watchdog
\* (joined), not the exit hook (waited for, or on the same thread), not a
\* thread releasing a claim.
InWatch(t) ==
  \/ pc[t] \in LoopPcs \cup DogPcs \cup {"incoll", "drain", "stop", "join", "joined"}
  \/ t = "dog" /\ pc[t] = "idle"
  \/ t = "exit" /\ pc[t] \in ExitPcs \ {"enter", "leave"}
FreedUnused == freed => \A t \in Threads : ~InWatch(t)

\* The destroy leaves no communicator behind, whoever it lost claims to.
FreedAllTorn == freed => \A c \in Comms : torn[c] = "gone"

\* The exit hook's reaper never outlives what it bounds: after the hook, with
\* no claimed teardown left and no release still looking, it is cancelled --
\* unless a library call was in progress when the hook looked.
ReaperLetGo ==
  /\ reaper["exit"] = "armed" /\ pc["exit"] = "done" /\ ~AnyTearing
  /\ \A t \in Users : pc[t] \notin {"look", "scan"}
  => byCall

\* Interpreter exit is bounded, whatever hangs in the library.
ExitEnds == pc["exit"] = "grace" ~> pc["exit"] = "done" \/ exited

\* A stop stops the watchdog thread, or the process ends.
StopStops == stop ~> pc["dog"] = "done" \/ exited
=============================================================================
