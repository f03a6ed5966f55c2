------------------------- MODULE WatchTeardown_proofs -------------------------
(***************************************************************************)
(* Proofs about WatchTeardown, for any number of communicators and any set *)
(* of user threads: who may touch a communicator, and when.                *)
(***************************************************************************)
EXTENDS WatchTeardown, TLAPS

-----------------------------------------------------------------------------
(* The inductive invariant.  A claim is an owner's: between watch_claim and *)
(* watch_release exactly one thread is at the communicator.                 *)

OwnPcs  == {"call", "calling", "release"}
PollPcs == {"query", "unpoll", "unpollErr"}
CommPcs == OwnPcs \cup PollPcs \cup
             {"look", "scan", "incoll", "cas", "async", "unwatch", "queue"}

\* Threads at such a step are at a communicator.
AtComm == \A t \in Threads : pc[t] \in CommPcs => at[t] \in Comms

\* Between claim and release, the state is CLAIMED and the claim is one thread's.
OwnsClaim == \A t \in Threads : pc[t] \in OwnPcs => tstate[at[t]] = "CLAIMED"
OneOwner  == \A t, u \in Threads :
               pc[t] \in OwnPcs /\ pc[u] \in OwnPcs /\ at[t] = at[u] => t = u

\* The watchdog's poll holds the state until it stores LIVE back.
PollHeld == pc["dog"] \in PollPcs => tstate[at["dog"]] = "POLLING"

\* Nothing was done to a communicator before its owner's ncclCommAbort.
Untouched(c)  == torn[c] = "live" /\ aborts[c] = 0
UnclaimedLive == \A c \in Comms : ~Claimed(c) => Untouched(c)
ClaimedLive   == \A t \in Threads : pc[t] = "call" => Untouched(at[t])

Own == /\ AtComm /\ OwnsClaim /\ OneOwner /\ PollHeld
       /\ UnclaimedLive /\ ClaimedLive /\ TornOnce

IInv == TypeOK /\ Own

-----------------------------------------------------------------------------
(* Types.                                                                   *)

LEMMA SetType ==
  ASSUME NEW S, NEW V, NEW f \in [S -> V], NEW k, NEW v \in V
  PROVE  Set(f, k, v) \in [S -> V]
  BY DEF Set

LEMMA DogAndExit == "dog" \in Threads /\ "exit" \in Threads /\ Users \subseteq Threads
  BY DEF Threads

LEMMA NobodyIsFree == \A t \in Threads : t \notin {"free", "none", "joined"}
  BY WatchTeardownAssumption DEF Threads

\* What a step of one thread does to pc, and to at in a loop.
LEMMA StepType ==
  ASSUME TypeOK, NEW t \in Threads, NEW from, NEW to \in Pcs, Step(t, from, to)
  PROVE  pc' \in [Threads -> Pcs]
  BY DEF TypeOK, Step, Set

LEMMA OnwardType ==
  ASSUME TypeOK, NEW t \in Threads, at[t] \in Comms, Onward(t)
  PROVE  at' \in [Threads -> 1..(N + 1)]
<1>1. N + 1 \in 1..(N + 1) /\ at[t] + 1 \in 1..(N + 1)
  BY WatchTeardownAssumption DEF Comms
<1> QED BY <1>1 DEF TypeOK, Onward, Set

LEMMA LoopType ==
  ASSUME TypeOK, NEW t \in Threads,
         NEW j \in {"none", "abort", "destroy", "all", "fail", "cleanup", "look", "stopped"},
         Loop(t, j)
  PROVE  at' \in [Threads -> 1..(N + 1)] /\ job' \in
           [Threads -> {"none", "abort", "destroy", "all", "fail", "cleanup", "look", "stopped"}]
<1>1. 1 \in 1..(N + 1)  BY WatchTeardownAssumption
<1> QED BY <1>1 DEF TypeOK, Loop, Set

\* In a loop, a thread that has not reached the end is at a communicator.
LEMMA NotEnded ==
  ASSUME TypeOK, NEW t \in Threads, ~Ends(t)
  PROVE  at[t] \in Comms
  BY WatchTeardownAssumption DEF TypeOK, Ends, Comms

LEMMA TypeInit == Init => TypeOK
<1> SUFFICES ASSUME Init PROVE TypeOK
  OBVIOUS
<1>1. pc \in [Threads -> Pcs]  BY DEF Init, Pcs
<1>2. at \in [Threads -> 1..(N + 1)]
  <2>1. 1 \in 1..(N + 1)  BY WatchTeardownAssumption
  <2> QED BY <2>1 DEF Init
<1>3. /\ tstate \in [Comms -> {"LIVE", "POLLING", "CLAIMED", "RELEASED"}]
      /\ torn \in [Comms -> {"live", "aborting", "gone"}] /\ aborts \in [Comms -> Nat]
  BY DEF Init
<1>4. /\ unwatched \in [Comms -> BOOLEAN] /\ async \in [Comms -> BOOLEAN]
      /\ broken \in [Comms -> BOOLEAN] /\ inflight \in [Comms -> BOOLEAN]
      /\ reported \in [Comms -> BOOLEAN]
  BY DEF Init
<1>5. reaper \in [{"dog", "exit"} -> {"off", "armed", "cancelled"}]
  BY DEF Init
<1>6. job \in [Threads -> {"none", "abort", "destroy", "all", "fail", "cleanup",
                           "look", "stopped"}]
  BY DEF Init
<1> QED BY <1>1, <1>2, <1>3, <1>4, <1>5, <1>6 DEF Init, TypeOK

LEMMA TypeLoop ==
  ASSUME TypeOK, AtComm, NEW t \in Threads, LoopStep(t) \/ Aborted(t)
  PROVE  TypeOK'
<1> USE DEF rest, commVars, ownVars, libVars, errVars, queueVars, callVars,
            stopVars, reaperVars, groupVars, pyVars, Stay
<1> DEFINE TStates == {"LIVE", "POLLING", "CLAIMED", "RELEASED"}
<1>p. /\ "claim" \in Pcs /\ "call" \in Pcs /\ "calling" \in Pcs
      /\ "release" \in Pcs /\ "look" \in Pcs /\ "scan" \in Pcs
  BY DEF Pcs, LoopPcs
<1>1. CASE Pass(t)
  <2>1. pc' \in [Threads -> Pcs]  BY <1>1, <1>p, StepType DEF Pass
  <2>2. at' \in [Threads -> 1..(N + 1)]  BY <1>1, NotEnded, OnwardType DEF Pass
  <2> QED BY <1>1, <2>1, <2>2 DEF Pass, TypeOK
<1>2. CASE Claim(t)
  <2>1. pc' \in [Threads -> Pcs]  BY <1>2, <1>p, StepType DEF Claim
  <2>2. tstate' \in [Comms -> TStates]  BY <1>2, SetType DEF Claim, TypeOK
  <2>3. unwatched' \in [Comms -> BOOLEAN]  BY <1>2, SetType DEF Claim, TypeOK
  <2>4. UNCHANGED <<rest, libVars, errVars, queueVars, callVars, at, job>>
    BY <1>2 DEF Claim
  <2> QED BY <2>1, <2>2, <2>3, <2>4 DEF TypeOK
<1>3. CASE ClaimLost(t)
  <2>1. pc' \in [Threads -> Pcs]  BY <1>3, <1>p, StepType DEF ClaimLost
  <2>2. at' \in [Threads -> 1..(N + 1)]  BY <1>3, NotEnded, OnwardType DEF ClaimLost
  <2>3. unwatched' \in [Comms -> BOOLEAN]  BY <1>3, SetType DEF ClaimLost, TypeOK
  <2>4. UNCHANGED <<rest, tstate, libVars, errVars, queueVars, callVars, job>>
    BY <1>3 DEF ClaimLost
  <2> QED BY <2>1, <2>2, <2>3, <2>4 DEF TypeOK
<1>4. CASE Abort(t)
  <2>1. pc' \in [Threads -> Pcs]  BY <1>4, <1>p, StepType DEF Abort
  <2>2. at[t] \in Comms
    BY <1>4 DEF Abort, Step, AtComm, CommPcs, OwnPcs
  <2>3. aborts[at[t]] + 1 \in Nat  BY <2>2 DEF TypeOK
  <2>4. aborts' \in [Comms -> Nat]  BY <1>4, <2>3, SetType DEF Abort, TypeOK
  <2>5. torn' \in [Comms -> {"live", "aborting", "gone"}]
    BY <1>4, SetType DEF Abort, TypeOK
  <2>6. call' \in {"none", "coll", "abort"} /\ callSeen' \in BOOLEAN
    BY <1>4 DEF Abort, InCall, TypeOK
  <2> QED BY <1>4, <2>1, <2>4, <2>5, <2>6 DEF Abort, TypeOK
<1>5. CASE Aborted(t)
  <2>1. pc' \in [Threads -> Pcs]  BY <1>5, <1>p, StepType DEF Aborted
  <2>2. inflight' \in [Comms -> BOOLEAN]  BY <1>5, SetType DEF Aborted, TypeOK
  <2>3. torn' \in [Comms -> {"live", "aborting", "gone"}]
    BY <1>5, SetType DEF Aborted, TypeOK
  <2>4. call' \in {"none", "coll", "abort"} /\ callSeen' \in BOOLEAN
    BY <1>5 DEF Aborted, InCall, TypeOK
  <2>5. UNCHANGED <<rest, ownVars, errVars, reported, aborts, at, job>>
    BY <1>5 DEF Aborted
  <2> QED BY <2>1, <2>2, <2>3, <2>4, <2>5 DEF TypeOK
<1>6. CASE Release(t)
  <2>1. pc' \in [Threads -> Pcs]  BY <1>6, <1>p, StepType DEF Release
  <2>2. tstate' \in [Comms -> TStates]  BY <1>6, SetType DEF Release, TypeOK
  <2> QED BY <1>6, <2>1, <2>2 DEF Release, TypeOK
<1>7. CASE LookOn(t)
  <2>1. pc' \in [Threads -> Pcs]  BY <1>7, <1>p, StepType DEF LookOn
  <2> QED BY <1>7, <2>1 DEF LookOn, TypeOK
<1>8. CASE LookOff(t)
  <2>1. pc' \in [Threads -> Pcs]  BY <1>8, <1>p, StepType DEF LookOff
  <2>2. at[t] \in Comms
    BY <1>8 DEF LookOff, Step, AtComm, CommPcs
  <2>3. at' \in [Threads -> 1..(N + 1)]  BY <1>8, <2>2, OnwardType DEF LookOff
  <2> QED BY <1>8, <2>1, <2>3 DEF LookOff, TypeOK
<1>9. CASE Scan(t)
  <2>1. pc' \in [Threads -> Pcs]  BY <1>9, <1>p, StepType DEF Scan
  <2>2. at[t] \in Comms
    BY <1>9 DEF Scan, Step, AtComm, CommPcs
  <2>3. at' \in [Threads -> 1..(N + 1)]  BY <1>9, <2>2, OnwardType DEF Scan
  <2>4. reaper' \in [{"dog", "exit"} -> {"off", "armed", "cancelled"}]
    BY <1>9, SetType DEF Scan, Cancel, TypeOK
  <2> QED BY <1>9, <2>1, <2>3, <2>4 DEF Scan, TypeOK
<1> QED BY <1>1, <1>2, <1>3, <1>4, <1>5, <1>6, <1>7, <1>8, <1>9 DEF LoopStep

LEMMA TypeUser ==
  ASSUME TypeOK, NEW t \in Users, UserStep(t)
  PROVE  TypeOK'
<1> USE DEF rest, commVars, ownVars, libVars, errVars, queueVars, callVars,
            stopVars, reaperVars, groupVars, pyVars, Stay
<1>p. t \in Threads /\ "idle" \in Pcs /\ "claim" \in Pcs /\ "incoll" \in Pcs
  BY DEF Pcs, LoopPcs, Threads
<1>c. \A c \in Comms : c \in 1..(N + 1)
  BY WatchTeardownAssumption DEF Comms
<1>1. ASSUME NEW c \in Comms, CollCall(t, c) PROVE TypeOK'
  <2>1. pc' \in [Threads -> Pcs]  BY <1>1, <1>p, StepType DEF CollCall
  <2>2. at' \in [Threads -> 1..(N + 1)]  BY <1>1, <1>c, SetType DEF CollCall, TypeOK
  <2>3. mutex' \in {"free"} \cup Threads /\ calls' \in Nat
    BY <1>1, <1>p DEF CollCall, Lock, TypeOK
  <2>4. call' \in {"none", "coll", "abort"} /\ callSeen' \in BOOLEAN
    BY <1>1 DEF CollCall, InCall
  <2>5. UNCHANGED <<action, stopVars, reaperVars, table, closing, freed, pyVars,
                    exited, commVars, job>>
    BY <1>1 DEF CollCall
  <2> QED BY <2>1, <2>2, <2>3, <2>4, <2>5 DEF TypeOK
<1>2. ASSUME NEW c \in Comms, AbortCall(t, c) PROVE TypeOK'
  <2>1. pc' \in [Threads -> Pcs]  BY <1>2, <1>p, StepType DEF AbortCall
  <2>2. at' \in [Threads -> 1..(N + 1)]  BY <1>2, <1>c, SetType DEF AbortCall, TypeOK
  <2>3. mutex' \in {"free"} \cup Threads /\ calls' \in Nat
    BY <1>2, <1>p DEF AbortCall, Lock, TypeOK
  <2>4. job' \in [Threads -> {"none", "abort", "destroy", "all", "fail", "cleanup",
                             "look", "stopped"}]
    BY <1>2, SetType DEF AbortCall, TypeOK
  <2>5. table' \subseteq Comms  BY <1>2 DEF AbortCall, TypeOK
  <2>6. UNCHANGED <<action, stopVars, reaperVars, closing, freed, pyVars, exited,
                    commVars, callVars>>
    BY <1>2 DEF AbortCall
  <2> QED BY <2>1, <2>2, <2>3, <2>4, <2>5, <2>6 DEF TypeOK
<1>3. CASE CollReturn(t)
  <2>1. pc' \in [Threads -> Pcs]  BY <1>3, <1>p, StepType DEF CollReturn
  <2>2. inflight' \in [Comms -> BOOLEAN]
    <3> DEFINE v == inflight[at[t]] \/ ~Claimed(at[t])
    <3>1. v \in BOOLEAN  OBVIOUS
    <3>2. inflight' = Set(inflight, at[t], v)  BY <1>3 DEF CollReturn
    <3> HIDE DEF v
    <3> QED BY <3>1, <3>2, SetType DEF TypeOK
  <2>3. mutex' \in {"free"} \cup Threads  BY <1>3 DEF CollReturn, Unlock
  <2>4. call' \in {"none", "coll", "abort"} /\ callSeen' \in BOOLEAN
    BY <1>3 DEF CollReturn, InCall
  <2>5. UNCHANGED <<action, stopVars, reaperVars, table, closing, freed, pyVars,
                    calls, exited, ownVars, libVars, errVars, reported, at, job>>
    BY <1>3 DEF CollReturn
  <2> QED BY <2>1, <2>2, <2>3, <2>4, <2>5 DEF TypeOK
<1>4. CASE AbortReturn(t)
  <2>1. pc' \in [Threads -> Pcs]  BY <1>4, <1>p, StepType DEF AbortReturn
  <2>2. mutex' \in {"free"} \cup Threads  BY <1>4 DEF AbortReturn, Unlock
  <2>3. UNCHANGED <<action, stopVars, reaperVars, table, closing, freed, pyVars,
                    calls, exited, commVars, callVars, at, job>>
    BY <1>4 DEF AbortReturn
  <2> QED BY <2>1, <2>2, <2>3 DEF TypeOK
<1> QED BY <1>1, <1>2, <1>3, <1>4 DEF UserStep

LEMMA TypeClose ==
  ASSUME TypeOK, NEW t \in Users \cup {"exit"}, CloseStep(t)
  PROVE  TypeOK'
<1> USE DEF rest, commVars, ownVars, libVars, errVars, queueVars, callVars,
            stopVars, reaperVars, groupVars, pyVars, Stay
<1>p. /\ t \in Threads /\ "idle" \in Pcs /\ "claim" \in Pcs /\ "waitUsers" \in Pcs
      /\ "drain" \in Pcs /\ "stop" \in Pcs /\ "join" \in Pcs /\ "joined" \in Pcs
      /\ "enter" \in Pcs
  BY DEF Pcs, LoopPcs, ClosePcs, ExitPcs, Threads
<1>1. CASE Shutdown(t)
  <2>1. pc' \in [Threads -> Pcs]  BY <1>1, <1>p, StepType DEF Shutdown
  <2>2. handle' \in BOOLEAN /\ listed' \in BOOLEAN /\ dead' \in BOOLEAN
    BY <1>1 DEF Shutdown, TypeOK
  <2>3. UNCHANGED <<action, stopVars, reaperVars, groupVars, users, calls, exited,
                    commVars, callVars, at, job>>
    BY <1>1 DEF Shutdown
  <2> QED BY <2>1, <2>2, <2>3 DEF TypeOK
<1>2. CASE Close(t)
  <2>1. pc' \in [Threads -> Pcs]  BY <1>2, <1>p, StepType DEF Close
  <2> QED BY <1>2, <2>1 DEF Close, TypeOK
<1>3. CASE Drained(t)
  <2>1. pc' \in [Threads -> Pcs]  BY <1>3, <1>p, StepType DEF Drained
  <2>2. /\ at' \in [Threads -> 1..(N + 1)]
        /\ job' \in [Threads -> {"none", "abort", "destroy", "all", "fail", "cleanup",
                                "look", "stopped"}]
    BY <1>3, <1>p, LoopType DEF Drained
  <2>3. mutex' \in {"free"} \cup Threads  BY <1>3, <1>p DEF Drained, Lock
  <2> QED BY <1>3, <2>1, <2>2, <2>3 DEF Drained, TypeOK
<1>4. CASE DestroyTorn(t)
  <2>1. pc' \in [Threads -> Pcs]  BY <1>4, <1>p, StepType DEF DestroyTorn
  <2> QED BY <1>4, <2>1 DEF DestroyTorn, TypeOK
<1>5. CASE Stop(t)
  <2>1. pc' \in [Threads -> Pcs]  BY <1>5, <1>p, StepType DEF Stop
  <2>2. joiner' \in {"none", "joined"} \cup Threads  BY <1>5, <1>p DEF Stop, TypeOK
  <2> QED BY <1>5, <2>1, <2>2 DEF Stop, TypeOK
<1>6. CASE Join(t)
  <2>1. pc' \in [Threads -> Pcs]  BY <1>6, <1>p, StepType DEF Join
  <2> QED BY <1>6, <2>1 DEF Join, TypeOK
<1>7. CASE Free(t)
  <2>1. (IF t = "exit" THEN "enter" ELSE "idle") \in Pcs  BY <1>p
  <2>2. pc' \in [Threads -> Pcs]  BY <1>7, <1>p, <2>1, StepType DEF Free
  <2> QED BY <1>7, <2>2 DEF Free, Unlock, TypeOK
<1> QED BY <1>1, <1>2, <1>3, <1>4, <1>5, <1>6, <1>7 DEF CloseStep

LEMMA TypeDog ==
  ASSUME TypeOK, AtComm, DogStep
  PROVE  TypeOK'
<1> USE DogAndExit
        DEF rest, commVars, ownVars, libVars, errVars, queueVars, callVars,
            stopVars, reaperVars, groupVars, pyVars, Stay, DogStays, Dog
<1>p. DogPcs \cup {"idle", "done", "claim"} \subseteq Pcs
  BY DEF Pcs, LoopPcs
<1>q. \A p \in Pcs : OnReport(p) \in Pcs
  BY <1>p DEF OnReport, DogPcs
<1>a. ASSUME pc["dog"] \in {"query", "unpoll", "unpollErr", "cas", "async", "unwatch", "queue"}
      PROVE  at["dog"] \in Comms
  BY <1>a DEF AtComm, CommPcs, PollPcs
<1>1. CASE DogWakes
  <2>1. pc' \in [Threads -> Pcs]
    <3>1. ASSUME Step("dog", "idle", "done") PROVE pc' \in [Threads -> Pcs]
      BY <3>1, <1>p, StepType
    <3>2. ASSUME Step("dog", "idle", "poll") PROVE pc' \in [Threads -> Pcs]
      BY <3>2, <1>p, StepType DEF DogPcs
    <3> QED BY <1>1, <3>1, <3>2 DEF DogWakes
  <2>2. 1 \in 1..(N + 1)  BY WatchTeardownAssumption
  <2>3. at' \in [Threads -> 1..(N + 1)]  BY <1>1, <2>2, SetType DEF DogWakes, TypeOK
  <2> QED BY <1>1, <2>1, <2>3 DEF DogWakes, TypeOK
<1>2. CASE DogHost
  <2>1. OnReport("tracker") \in Pcs  BY <1>p, <1>q DEF DogPcs
  <2>2. pc' \in [Threads -> Pcs]  BY <1>2, <2>1, StepType DEF DogHost
  <2> QED BY <1>2, <2>2 DEF DogHost, TypeOK
<1>3. CASE DogNoHost
  <2>1. pc' \in [Threads -> Pcs]  BY <1>3, <1>p, StepType DEF DogNoHost, DogPcs
  <2> QED BY <1>3, <2>1 DEF DogNoHost, TypeOK
<1>4. CASE DogSkip
  <2>1. pc' \in [Threads -> Pcs]  BY <1>4, <1>p, StepType DEF DogSkip, DogPcs
  <2>2. at' \in [Threads -> 1..(N + 1)]  BY <1>4, NotEnded, OnwardType DEF DogSkip
  <2> QED BY <1>4, <2>1, <2>2 DEF DogSkip, TypeOK
<1>5. CASE DogLook
  <2>1. pc' \in [Threads -> Pcs]  BY <1>5, <1>p, StepType DEF DogLook, DogPcs
  <2> QED BY <1>5, <2>1 DEF DogLook, TypeOK
<1>6. CASE DogPoll
  <2>1. pc' \in [Threads -> Pcs]  BY <1>6, <1>p, StepType DEF DogPoll, DogPcs
  <2>2. tstate' \in [Comms -> {"LIVE", "POLLING", "CLAIMED", "RELEASED"}]
    BY <1>6, SetType DEF DogPoll, TypeOK
  <2> QED BY <1>6, <2>1, <2>2 DEF DogPoll, TypeOK
<1>7. CASE DogNoPoll
  <2>1. pc' \in [Threads -> Pcs]  BY <1>7, <1>p, StepType DEF DogNoPoll, DogPcs
  <2> QED BY <1>7, <2>1 DEF DogNoPoll, TypeOK
<1>8. CASE DogQuery
  <2>1. (IF broken[at["dog"]] THEN "unpollErr" ELSE "unpoll") \in Pcs
    BY <1>p DEF DogPcs
  <2>2. pc' \in [Threads -> Pcs]  BY <1>8, <2>1, StepType DEF DogQuery
  <2>3. UNCHANGED <<rest, commVars, callVars, at, job>>  BY <1>8 DEF DogQuery
  <2> QED BY <2>2, <2>3 DEF TypeOK
<1>9. CASE DogUnpoll
  <2>1. pc' \in [Threads -> Pcs]
    <3>1. ASSUME Step("dog", "unpoll", "queue") PROVE pc' \in [Threads -> Pcs]
      BY <3>1, <1>p, StepType DEF DogPcs
    <3>2. ASSUME Step("dog", "unpollErr", "async") PROVE pc' \in [Threads -> Pcs]
      BY <3>2, <1>p, StepType DEF DogPcs
    <3> QED BY <1>9, <3>1, <3>2 DEF DogUnpoll
  <2>2. tstate' \in [Comms -> {"LIVE", "POLLING", "CLAIMED", "RELEASED"}]
    BY <1>9, SetType DEF DogUnpoll, TypeOK
  <2> QED BY <1>9, <2>1, <2>2 DEF DogUnpoll, TypeOK
<1>10. CASE DogAsync
  <2>1. OnReport("unwatch") \in Pcs  BY <1>p, <1>q DEF DogPcs
  <2>2. pc' \in [Threads -> Pcs]  BY <1>10, <2>1, StepType DEF DogAsync
  <2>3. async' \in [Comms -> BOOLEAN]  BY <1>10, SetType DEF DogAsync, TypeOK
  <2>4. UNCHANGED <<rest, ownVars, libVars, broken, queueVars, callVars, at, job>>
    BY <1>10 DEF DogAsync
  <2> QED BY <2>2, <2>3, <2>4 DEF TypeOK
<1>11. CASE DogUnwatch
  <2>1. pc' \in [Threads -> Pcs]  BY <1>11, <1>p, StepType DEF DogUnwatch, DogPcs
  <2>2. at' \in [Threads -> 1..(N + 1)]
    BY <1>11, <1>a, OnwardType DEF DogUnwatch, Step
  <2>3. unwatched' \in [Comms -> BOOLEAN]  BY <1>11, SetType DEF DogUnwatch, TypeOK
  <2>4. UNCHANGED <<rest, tstate, libVars, errVars, queueVars, callVars, job>>
    BY <1>11 DEF DogUnwatch
  <2> QED BY <2>1, <2>2, <2>3, <2>4 DEF TypeOK
<1>12. CASE DogTimeout
  <2>1. OnReport("tracker") \in Pcs  BY <1>p, <1>q DEF DogPcs
  <2>2. pc' \in [Threads -> Pcs]  BY <1>12, <2>1, StepType DEF DogTimeout
  <2>3. at' \in [Threads -> 1..(N + 1)]
    BY <1>12, <1>a, OnwardType DEF DogTimeout, Step
  <2>4. reported' \in [Comms -> BOOLEAN]  BY <1>12, SetType DEF DogTimeout, TypeOK
  <2>5. UNCHANGED <<rest, ownVars, libVars, errVars, inflight, callVars, job>>
    BY <1>12 DEF DogTimeout
  <2> QED BY <2>2, <2>3, <2>4, <2>5 DEF TypeOK
<1>13. CASE DogNext
  <2>1. pc' \in [Threads -> Pcs]  BY <1>13, <1>p, StepType DEF DogNext, DogPcs
  <2>2. at' \in [Threads -> 1..(N + 1)]
    BY <1>13, <1>a, OnwardType DEF DogNext, Step
  <2> QED BY <1>13, <2>1, <2>2 DEF DogNext, TypeOK
<1>14. CASE DogRound
  <2>1. pc' \in [Threads -> Pcs]  BY <1>14, <1>p, StepType DEF DogRound
  <2> QED BY <1>14, <2>1 DEF DogRound, TypeOK
<1>15. CASE DogFail
  <2>1. CASE Dog("fail", "claim") /\ Arm("dog") /\ Loop("dog", "fail")
             /\ OnlyReaper /\ UNCHANGED <<commVars, callVars>>
    <3>1. pc' \in [Threads -> Pcs]  BY <2>1, <1>p, StepType
    <3>2. /\ at' \in [Threads -> 1..(N + 1)]
          /\ job' \in [Threads -> {"none", "abort", "destroy", "all", "fail", "cleanup",
                                  "look", "stopped"}]
      BY <2>1, LoopType
    <3>3. reaper' \in [{"dog", "exit"} -> {"off", "armed", "cancelled"}]
      BY <2>1, SetType DEF Arm, TypeOK
    <3> QED BY <2>1, <3>1, <3>2, <3>3 DEF OnlyReaper, TypeOK
  <2>2. CASE Dog("fail", "fail") /\ Exit
    <3>1. pc' \in [Threads -> Pcs]  BY <2>2, <1>p, StepType DEF DogPcs
    <3> QED BY <2>2, <3>1 DEF Exit, TypeOK
  <2> QED BY <1>15, <2>1, <2>2 DEF DogFail
<1>16. CASE FailExit("dog")
  <2>1. pc' \in [Threads -> Pcs]  BY <1>16, <1>p, StepType DEF FailExit
  <2> QED BY <1>16, <2>1 DEF FailExit, Exit, TypeOK
<1> QED BY <1>1, <1>2, <1>3, <1>4, <1>5, <1>6, <1>7, <1>8, <1>9, <1>10, <1>11,
           <1>12, <1>13, <1>14, <1>15, <1>16 DEF DogStep

\* Arming the exit hook's reaper before a loop.
LEMMA TypeArm ==
  ASSUME TypeOK, NEW from,
         NEW j \in {"none", "abort", "destroy", "all", "fail", "cleanup", "look", "stopped"},
         ArmExit(from, j)
  PROVE  /\ pc' \in [Threads -> Pcs] /\ at' \in [Threads -> 1..(N + 1)]
         /\ job' \in [Threads -> {"none", "abort", "destroy", "all", "fail", "cleanup",
                                 "look", "stopped"}]
         /\ reaper' \in [{"dog", "exit"} -> {"off", "armed", "cancelled"}]
         /\ UNCHANGED <<action, stopVars, retained, byCall, groupVars, pyVars, calls,
                       exited>>
<1>p. "claim" \in Pcs /\ "leave" \in Pcs /\ "exit" \in Threads
  BY DogAndExit DEF Pcs, LoopPcs, ExitPcs
<1>1. CASE Hook(from, "claim") /\ Arm("exit") /\ Loop("exit", j) /\ OnlyReaper
  <2>1. pc' \in [Threads -> Pcs]  BY <1>1, <1>p, StepType DEF Hook
  <2>2. /\ at' \in [Threads -> 1..(N + 1)]
        /\ job' \in [Threads -> {"none", "abort", "destroy", "all", "fail", "cleanup",
                                "look", "stopped"}]
    BY <1>1, <1>p, LoopType
  <2>3. reaper' \in [{"dog", "exit"} -> {"off", "armed", "cancelled"}]
    BY <1>1, SetType DEF Arm, TypeOK
  <2> QED BY <1>1, <2>1, <2>2, <2>3 DEF OnlyReaper
<1>2. CASE Hook(from, "leave") /\ UNCHANGED rest /\ Stay /\ j # "fail"
  <2>1. pc' \in [Threads -> Pcs]  BY <1>2, <1>p, StepType DEF Hook
  <2> QED BY <1>2, <2>1 DEF rest, stopVars, reaperVars, groupVars, pyVars, Stay, TypeOK
<1> QED BY <1>1, <1>2 DEF ArmExit

LEMMA TypeHook ==
  ASSUME TypeOK, HookStep
  PROVE  TypeOK'
<1> USE DogAndExit
        DEF rest, commVars, ownVars, libVars, errVars, queueVars, callVars,
            stopVars, reaperVars, groupVars, pyVars, Stay, HookStays, Hook, OnlyPy
<1>p. ExitPcs \cup {"idle", "done", "stop"} \subseteq Pcs
  BY DEF Pcs, ClosePcs
<1>1. CASE HookPick
  <2>1. pc' \in [Threads -> Pcs]
    <3>1. ASSUME Step("exit", "idle", "enter") PROVE pc' \in [Threads -> Pcs]
      BY <3>1, <1>p, StepType DEF ExitPcs
    <3>2. ASSUME Step("exit", "idle", "done") PROVE pc' \in [Threads -> Pcs]
      BY <3>2, <1>p, StepType
    <3> QED BY <1>1, <3>1, <3>2 DEF HookPick
  <2>2. listed' \in BOOLEAN /\ users' \in Nat  BY <1>1 DEF HookPick, TypeOK
  <2> QED BY <1>1, <2>1, <2>2 DEF HookPick, TypeOK
<1>2. CASE HookEnter
  <2>1. (IF dead \/ freed THEN "leave" ELSE "grace") \in Pcs  BY <1>p DEF ExitPcs
  <2>2. pc' \in [Threads -> Pcs]  BY <1>2, <2>1, StepType DEF HookEnter
  <2>3. UNCHANGED <<rest, commVars, callVars, at, job>>  BY <1>2 DEF HookEnter
  <2> QED BY <2>2, <2>3 DEF TypeOK
<1>3. CASE ExitGrace
  <2>1. pc' \in [Threads -> Pcs]  BY <1>3, <1>p, StepType DEF ExitGrace
  <2>2. job' \in [Threads -> {"none", "abort", "destroy", "all", "fail", "cleanup",
                             "look", "stopped"}]
    BY <1>3, SetType DEF ExitGrace, TypeOK
  <2> QED BY <1>3, <2>1, <2>2 DEF ExitGrace, TypeOK
<1>4. CASE ExitLook
  <2>1. pc' \in [Threads -> Pcs]
    <3>1. ASSUME Step("exit", "joined", "leave") PROVE pc' \in [Threads -> Pcs]
      BY <3>1, <1>p, StepType DEF ExitPcs
    <3>2. (IF Pending THEN "report" ELSE "clean") \in Pcs  BY <1>p DEF ExitPcs
    <3>3. ASSUME Step("exit", "joined", IF Pending THEN "report" ELSE "clean")
          PROVE pc' \in [Threads -> Pcs]
      BY <3>2, <3>3, StepType
    <3> QED BY <1>4, <3>1, <3>3 DEF ExitLook
  <2>2. UNCHANGED <<rest, commVars, callVars, at, job>>  BY <1>4 DEF ExitLook
  <2> QED BY <2>1, <2>2 DEF TypeOK
<1>5. CASE ExitCleanup
  BY <1>5, TypeArm DEF ExitCleanup, TypeOK
<1>6. CASE ExitReport
  <2>1. OnReport("all") \in {"all", "fail"}  BY DEF OnReport
  <2>2. ArmExit("report", OnReport("all"))  BY <1>6 DEF ExitReport
  <2>3. /\ call' \in {"none", "coll", "abort"} /\ callSeen' \in BOOLEAN
        /\ reported' \in [Comms -> BOOLEAN]
        /\ UNCHANGED <<ownVars, libVars, errVars, inflight>>
    <3>1. CASE callSeen' = TRUE /\ UNCHANGED <<commVars, call>>
      BY <3>1 DEF TypeOK
    <3>2. ASSUME NEW c \in UnreportedWork, reported' = Set(reported, c, TRUE),
                 UNCHANGED <<ownVars, libVars, errVars, inflight, callVars>>
          PROVE  /\ call' \in {"none", "coll", "abort"} /\ callSeen' \in BOOLEAN
                 /\ reported' \in [Comms -> BOOLEAN]
      <4>1. reported' \in [Comms -> BOOLEAN]  BY <3>2, SetType DEF TypeOK
      <4> QED BY <3>2, <4>1 DEF TypeOK
    <3> QED BY <1>6, <3>1, <3>2 DEF ExitReport
  <2> QED BY <2>1, <2>2, <2>3, TypeArm DEF TypeOK
<1>7. CASE ExitNoReaper
  <2>1. pc' \in [Threads -> Pcs]  BY <1>7, <1>p, StepType DEF ExitNoReaper, ExitPcs
  <2> QED BY <1>7, <2>1 DEF ExitNoReaper, Exit, TypeOK
<1>8. CASE ExitAbort
  BY <1>8, TypeArm DEF ExitAbort, TypeOK
<1>9. CASE CancelRetain
  <2>1. pc' \in [Threads -> Pcs]  BY <1>9, <1>p, StepType DEF CancelRetain, ExitPcs
  <2> QED BY <1>9, <2>1 DEF CancelRetain, TypeOK
<1>10. CASE CancelLook
  <2>1. (IF call = "none" THEN "lastScan" ELSE "leave") \in Pcs  BY <1>p DEF ExitPcs
  <2>2. pc' \in [Threads -> Pcs]  BY <1>10, <2>1, StepType DEF CancelLook
  <2>3. byCall' \in BOOLEAN  BY <1>10 DEF CancelLook
  <2>4. UNCHANGED <<action, stopVars, reaper, retained, groupVars, pyVars, calls, exited,
                    commVars, callVars, at, job>>
    BY <1>10 DEF CancelLook
  <2> QED BY <2>2, <2>3, <2>4 DEF TypeOK
<1>11. CASE CancelScan
  <2>1. pc' \in [Threads -> Pcs]  BY <1>11, <1>p, StepType DEF CancelScan, ExitPcs
  <2>2. reaper' \in [{"dog", "exit"} -> {"off", "armed", "cancelled"}]
    BY <1>11, SetType DEF CancelScan, Cancel, TypeOK
  <2> QED BY <1>11, <2>1, <2>2 DEF CancelScan, OnlyReaper, TypeOK
<1>12. CASE HookLeave
  <2>1. pc' \in [Threads -> Pcs]  BY <1>12, <1>p, StepType DEF HookLeave
  <2>2. listed' \in BOOLEAN /\ users' \in Nat  BY <1>12 DEF HookLeave
  <2>3. UNCHANGED <<action, stopVars, reaperVars, groupVars, handle, dead, calls,
                    exited, commVars, callVars, at, job>>
    BY <1>12 DEF HookLeave
  <2> QED BY <2>1, <2>2, <2>3 DEF TypeOK
<1>13. CASE FailExit("exit")
  <2>1. "claim" \in Pcs  BY DEF Pcs, LoopPcs
  <2>2. pc' \in [Threads -> Pcs]  BY <1>13, <2>1, StepType DEF FailExit
  <2> QED BY <1>13, <2>2 DEF FailExit, Exit, TypeOK
<1> QED BY <1>1, <1>2, <1>3, <1>4, <1>5, <1>6, <1>7, <1>8, <1>9, <1>10, <1>11,
           <1>12, <1>13 DEF HookStep

LEMMA TypeEnv ==
  ASSUME TypeOK,
         \/ \E c \in Comms : Break(c) \/ Complete(c)
         \/ \E x \in {"dog", "exit"} : ReaperFires(x)
  PROVE  TypeOK'
<1> USE DEF rest, commVars, ownVars, libVars, errVars, queueVars, callVars,
            stopVars, reaperVars, groupVars, pyVars, Env
<1>1. ASSUME NEW c \in Comms, Break(c) PROVE TypeOK'
  <2>1. broken' \in [Comms -> BOOLEAN]  BY <1>1, SetType DEF Break, TypeOK
  <2>2. UNCHANGED <<rest, ownVars, libVars, callVars, pc, at, job, async, queueVars>>
    BY <1>1 DEF Break
  <2> QED BY <2>1, <2>2 DEF TypeOK
<1>2. ASSUME NEW c \in Comms, Complete(c) PROVE TypeOK'
  <2>1. inflight' \in [Comms -> BOOLEAN] /\ reported' \in [Comms -> BOOLEAN]
    BY <1>2, SetType DEF Complete, TypeOK
  <2>2. UNCHANGED <<rest, ownVars, libVars, callVars, pc, at, job, errVars>>
    BY <1>2 DEF Complete
  <2> QED BY <2>1, <2>2 DEF TypeOK
<1>3. ASSUME NEW x, ReaperFires(x) PROVE TypeOK'
  BY <1>3 DEF ReaperFires, TypeOK
<1> QED BY <1>1, <1>2, <1>3

LEMMA TypeStep == TypeOK /\ AtComm /\ [Next]_vars => TypeOK'
<1> SUFFICES ASSUME TypeOK, AtComm, [Next]_vars PROVE TypeOK'
  OBVIOUS
<1>1. CASE UNCHANGED vars
  BY <1>1 DEF vars, rest, commVars, ownVars, libVars, errVars, queueVars, callVars,
              stopVars, reaperVars, groupVars, pyVars, TypeOK
<1> QED BY <1>1, TypeUser, TypeClose, TypeLoop, TypeDog, TypeHook, TypeEnv DEF Next

-----------------------------------------------------------------------------
(* Ownership.                                                               *)

LEMMA OwnInit == Init => Own
  BY WatchTeardownAssumption
  DEF Init, Own, AtComm, OwnsClaim, OneOwner, PollHeld, UnclaimedLive, ClaimedLive,
      TornOnce, Untouched, CommPcs, OwnPcs, PollPcs, Threads

\* Most steps touch no communicator's state and take no claim.
LEMMA OwnMove ==
  ASSUME TypeOK, Own, NEW t \in Threads, NEW from, NEW to, Step(t, from, to),
         UNCHANGED <<tstate, torn, aborts>>,
         \A u \in Threads : u # t => at'[u] = at[u],
         to \notin OwnPcs,
         to \in CommPcs => at'[t] \in Comms,
         to \in PollPcs => from \in PollPcs /\ at'[t] = at[t]
  PROVE  Own'
<1>1. /\ pc[t] = from /\ pc'[t] = to
      /\ \A u \in Threads : u # t => pc'[u] = pc[u] /\ at'[u] = at[u]
  BY DEF Step, Set, TypeOK
<1>2. \A u \in Threads : pc'[u] \in OwnPcs => pc[u] \in OwnPcs /\ pc'[u] = pc[u] /\ at'[u] = at[u]
  BY <1>1
<1>3. AtComm'  BY <1>1 DEF Own, AtComm, CommPcs, OwnPcs, PollPcs
<1>4. OwnsClaim'  BY <1>2 DEF Own, OwnsClaim
<1>5. OneOwner'  BY <1>2 DEF Own, OneOwner
<1>6. PollHeld'  BY <1>1, DogAndExit DEF Own, PollHeld
<1>7. UnclaimedLive' /\ TornOnce'
  BY DEF Own, UnclaimedLive, TornOnce, Claimed, Untouched
<1>8. ClaimedLive'  BY <1>2 DEF Own, ClaimedLive, Untouched, OwnPcs
<1> QED BY <1>3, <1>4, <1>5, <1>6, <1>7, <1>8 DEF Own

LEMMA OwnSame ==
  ASSUME Own, UNCHANGED <<tstate, torn, aborts, pc, at>>
  PROVE  Own'
  BY DEF Own, AtComm, OwnsClaim, OneOwner, PollHeld, UnclaimedLive, ClaimedLive,
         TornOnce, Claimed, Untouched

\* A claim is taken from a LIVE state: nobody owns it, nobody polls.
LEMMA OwnClaim ==
  ASSUME TypeOK, Own, NEW t \in Threads, Claim(t)
  PROVE  Own'
<1> DEFINE c == at[t]
<1>1. c \in Comms  BY NotEnded DEF Claim
<1>2. /\ pc' = [pc EXCEPT ![t] = "call"] /\ tstate' = [tstate EXCEPT ![c] = "CLAIMED"]
      /\ tstate[c] = "LIVE" /\ UNCHANGED <<torn, aborts, at>>
  BY DEF Claim, Step, Set, Claimable, libVars
<1>3. /\ pc'[t] = "call" /\ \A u \in Threads : u # t => pc'[u] = pc[u]
      /\ tstate'[c] = "CLAIMED" /\ \A d \in Comms : d # c => tstate'[d] = tstate[d]
  BY <1>1, <1>2 DEF TypeOK
<1>4. \A u \in Threads : pc[u] \in OwnPcs => at[u] # c
  BY <1>2 DEF Own, OwnsClaim
<1>5. Untouched(c)  BY <1>1, <1>2 DEF Own, UnclaimedLive, Claimed
<1>6. AtComm'  BY <1>1, <1>2, <1>3 DEF Own, AtComm
<1>7. OwnsClaim'
  BY <1>2, <1>3, <1>4, <1>6 DEF Own, OwnsClaim, AtComm, CommPcs
<1>8. OneOwner'  BY <1>2, <1>3, <1>4 DEF Own, OneOwner
<1>9. PollHeld'
  <2>1. pc["dog"] \in PollPcs => at["dog"] \in Comms /\ at["dog"] # c
    BY <1>2, DogAndExit DEF Own, PollHeld, AtComm, CommPcs
  <2> QED BY <2>1, <1>2, <1>3, DogAndExit DEF Own, PollHeld, PollPcs
<1>10. UnclaimedLive' /\ TornOnce'
  BY <1>2, <1>3 DEF Own, UnclaimedLive, TornOnce, Claimed, Untouched
<1>11. ClaimedLive'
  BY <1>2, <1>3, <1>5 DEF Own, ClaimedLive, Untouched
<1> QED BY <1>6, <1>7, <1>8, <1>9, <1>10, <1>11 DEF Own

\* The owner's abort, its return and the release touch the owner's communicator.
LEMMA OwnAbort ==
  ASSUME TypeOK, Own, NEW t \in Threads, Abort(t) \/ Aborted(t)
  PROVE  Own'
<1> DEFINE c == at[t]
<1>1. pc[t] \in OwnPcs  BY DEF Abort, Aborted, Step, OwnPcs
<1>2. c \in Comms /\ tstate[c] = "CLAIMED"
  BY <1>1 DEF Own, AtComm, OwnsClaim, CommPcs
<1>3. /\ pc'[t] \in {"calling", "release"}
      /\ \A u \in Threads : u # t => pc'[u] = pc[u]
      /\ UNCHANGED <<tstate, at>>
  BY DEF Abort, Aborted, Step, Set, Stay, TypeOK, ownVars
<1>4. /\ aborts'[c] <= 1
      /\ \A d \in Comms : d # c => torn'[d] = torn[d] /\ aborts'[d] = aborts[d]
  <2>1. CASE Abort(t)
    <3>1. aborts[c] = 0  BY <2>1 DEF Own, ClaimedLive, Untouched, Abort, Step
    <3> QED BY <2>1, <1>2, <3>1 DEF Abort, Set, TypeOK
  <2>2. CASE Aborted(t)
    BY <2>2, <1>2 DEF Aborted, Set, TypeOK, Own, TornOnce
  <2> QED BY <2>1, <2>2
<1>5. AtComm' /\ OwnsClaim' /\ OneOwner'
  BY <1>1, <1>2, <1>3 DEF Own, AtComm, OwnsClaim, OneOwner, CommPcs, OwnPcs
<1>6. PollHeld'  BY <1>3, DogAndExit DEF Own, PollHeld, PollPcs
<1>7. UnclaimedLive' /\ TornOnce'
  BY <1>2, <1>3, <1>4 DEF Own, UnclaimedLive, TornOnce, Claimed, Untouched
<1>8. ClaimedLive'
  <2> SUFFICES ASSUME NEW u \in Threads, pc'[u] = "call" PROVE Untouched(at[u])'
    BY DEF ClaimedLive
  <2>1. u # t /\ pc[u] = "call"  BY <1>3
  <2>2. at[u] \in Comms /\ at[u] # c
    BY <1>1, <2>1 DEF Own, AtComm, OneOwner, CommPcs, OwnPcs
  <2> QED BY <2>1, <2>2, <1>3, <1>4 DEF Own, ClaimedLive, Untouched
<1> QED BY <1>5, <1>6, <1>7, <1>8 DEF Own

LEMMA OwnRelease ==
  ASSUME TypeOK, Own, NEW t \in Threads, Release(t)
  PROVE  Own'
<1> DEFINE c == at[t]
<1>1. pc[t] \in OwnPcs  BY DEF Release, Step, OwnPcs
<1>2. c \in Comms /\ tstate[c] = "CLAIMED"
  BY <1>1 DEF Own, AtComm, OwnsClaim, CommPcs
<1>3. /\ pc'[t] = "look" /\ \A u \in Threads : u # t => pc'[u] = pc[u]
      /\ tstate'[c] = "RELEASED" /\ \A d \in Comms : d # c => tstate'[d] = tstate[d]
      /\ UNCHANGED <<torn, aborts, at>>
  BY <1>2 DEF Release, Step, Set, Stay, TypeOK, libVars
<1>4. \A u \in Threads : pc'[u] \in OwnPcs =>
        pc'[u] = pc[u] /\ at[u] \in Comms /\ at[u] # c
  BY <1>1, <1>3 DEF Own, AtComm, OneOwner, CommPcs, OwnPcs
<1>5. AtComm'  BY <1>2, <1>3 DEF Own, AtComm
<1>6. OwnsClaim' /\ OneOwner'  BY <1>3, <1>4 DEF Own, OwnsClaim, OneOwner
<1>7. PollHeld'
  <2>1. pc["dog"] \in PollPcs => at["dog"] \in Comms /\ at["dog"] # c
    BY <1>2, DogAndExit DEF Own, PollHeld, AtComm, CommPcs
  <2> QED BY <2>1, <1>3, DogAndExit DEF Own, PollHeld, PollPcs
<1>8. UnclaimedLive' /\ TornOnce'
  BY <1>2, <1>3 DEF Own, UnclaimedLive, TornOnce, Claimed, Untouched
<1>9. ClaimedLive'  BY <1>3 DEF Own, ClaimedLive, Untouched
<1> QED BY <1>5, <1>6, <1>7, <1>8, <1>9 DEF Own

\* The watchdog's poll takes a LIVE state and gives it back.
LEMMA OwnPoll ==
  ASSUME TypeOK, Own, DogPoll \/ DogUnpoll
  PROVE  Own'
<1> DEFINE c == at["dog"]
<1>1. c \in Comms
  BY DogAndExit DEF DogPoll, DogUnpoll, Dog, Step, Own, AtComm, CommPcs, PollPcs
<1>2. tstate[c] \in {"LIVE", "POLLING"}
  BY DEF DogPoll, DogUnpoll, Dog, Step, Pollable, Own, PollHeld, PollPcs
<1>3. /\ pc'["dog"] \in {"query", "queue", "async"}
      /\ pc'["dog"] = "query" => tstate'[c] = "POLLING"
      /\ \A u \in Threads : u # "dog" => pc'[u] = pc[u]
      /\ tstate'[c] \in {"LIVE", "POLLING"}
      /\ \A d \in Comms : d # c => tstate'[d] = tstate[d]
      /\ UNCHANGED <<torn, aborts, at>>
  BY <1>1, DogAndExit DEF DogPoll, DogUnpoll, Dog, Step, Set, Stay, TypeOK, libVars
<1>4. \A u \in Threads : pc'[u] \in OwnPcs =>
        pc'[u] = pc[u] /\ at[u] \in Comms /\ at[u] # c
  BY <1>2, <1>3 DEF Own, AtComm, OwnsClaim, CommPcs, OwnPcs
<1>5. AtComm'  BY <1>1, <1>3 DEF Own, AtComm
<1>6. OwnsClaim' /\ OneOwner'  BY <1>3, <1>4 DEF Own, OwnsClaim, OneOwner
<1>7. PollHeld'  BY <1>3 DEF PollHeld, PollPcs
<1>8. UnclaimedLive' /\ TornOnce'
  BY <1>1, <1>2, <1>3 DEF Own, UnclaimedLive, TornOnce, Claimed, Untouched
<1>9. ClaimedLive'  BY <1>3 DEF Own, ClaimedLive, Untouched
<1> QED BY <1>5, <1>6, <1>7, <1>8, <1>9 DEF Own

\* The other steps of each thread, one by one.
LEMMA OwnLoop ==
  ASSUME TypeOK, Own, NEW t \in Threads, LoopStep(t) \/ Aborted(t)
  PROVE  Own'
<1> USE DEF rest, commVars, ownVars, libVars, errVars, queueVars, callVars, Stay,
            CommPcs, OwnPcs, PollPcs
<1>1. ASSUME Onward(t) PROVE \A u \in Threads : u # t => at'[u] = at[u]
  BY <1>1 DEF Onward, Set, TypeOK
<1>2. CASE Pass(t)
  BY <1>1, <1>2, OwnMove DEF Pass
<1>3. CASE ClaimLost(t)
  BY <1>1, <1>3, OwnMove DEF ClaimLost
<1>4. CASE LookOn(t)
  <2>1. at[t] \in Comms  BY <1>4 DEF LookOn, Step, Own, AtComm
  <2> QED BY <1>4, <2>1, OwnMove DEF LookOn
<1>5. CASE LookOff(t)
  BY <1>1, <1>5, OwnMove DEF LookOff
<1>6. CASE Scan(t)
  BY <1>1, <1>6, OwnMove DEF Scan
<1> QED BY <1>2, <1>3, <1>4, <1>5, <1>6, OwnClaim, OwnAbort, OwnRelease DEF LoopStep

LEMMA OwnUser ==
  ASSUME TypeOK, Own, NEW t \in Users, UserStep(t)
  PROVE  Own'
<1> USE DEF rest, commVars, ownVars, libVars, errVars, queueVars, callVars, Stay,
            CommPcs, OwnPcs, PollPcs
<1>t. t \in Threads  BY DogAndExit
<1>1. ASSUME NEW c, at' = Set(at, t, c)
      PROVE  at'[t] = c /\ \A u \in Threads : u # t => at'[u] = at[u]
  BY <1>t, <1>1 DEF Set, TypeOK
<1>2. ASSUME NEW c \in Comms, CollCall(t, c) PROVE Own'
  BY <1>t, <1>1, <1>2, OwnMove DEF CollCall
<1>3. ASSUME NEW c \in Comms, AbortCall(t, c) PROVE Own'
  BY <1>t, <1>1, <1>3, OwnMove DEF AbortCall
<1>4. CASE CollReturn(t)
  BY <1>t, <1>4, OwnMove DEF CollReturn
<1>5. CASE AbortReturn(t)
  BY <1>t, <1>5, OwnMove DEF AbortReturn
<1> QED BY <1>2, <1>3, <1>4, <1>5 DEF UserStep

LEMMA OwnClose ==
  ASSUME TypeOK, Own, NEW t \in Users \cup {"exit"}, CloseStep(t)
  PROVE  Own'
<1> USE DEF rest, commVars, ownVars, libVars, errVars, queueVars, callVars, Stay,
            CommPcs, OwnPcs, PollPcs
<1>t. t \in Threads  BY DogAndExit
<1>1. CASE Shutdown(t)
  BY <1>t, <1>1, OwnMove DEF Shutdown
<1>2. CASE Close(t)
  BY <1>t, <1>2, OwnMove DEF Close
<1>3. CASE Drained(t)
  <2>1. \A u \in Threads : u # t => at'[u] = at[u]
    BY <1>3 DEF Drained, Loop, Set, TypeOK
  <2> QED BY <1>t, <1>3, <2>1, OwnMove DEF Drained
<1>4. CASE DestroyTorn(t)
  BY <1>t, <1>4, OwnMove DEF DestroyTorn
<1>5. CASE Stop(t)
  BY <1>t, <1>5, OwnMove DEF Stop
<1>6. CASE Join(t)
  BY <1>t, <1>6, OwnMove DEF Join
<1>7. CASE Free(t)
  BY <1>t, <1>7, OwnMove DEF Free
<1> QED BY <1>1, <1>2, <1>3, <1>4, <1>5, <1>6, <1>7 DEF CloseStep

LEMMA OwnDog ==
  ASSUME TypeOK, Own, DogStep
  PROVE  Own'
<1> USE DogAndExit
        DEF rest, commVars, ownVars, libVars, errVars, queueVars, callVars, Stay,
            DogStays, Dog, CommPcs, OwnPcs, PollPcs
<1>a. ASSUME pc["dog"] \in CommPcs PROVE at["dog"] \in Comms
  BY <1>a DEF Own, AtComm
<1>b. ASSUME Onward("dog") PROVE \A u \in Threads : u # "dog" => at'[u] = at[u]
  BY <1>b DEF Onward, Set, TypeOK
<1>1. CASE DogWakes
  <2>1. \A u \in Threads : u # "dog" => at'[u] = at[u]
    BY <1>1 DEF DogWakes, Set, TypeOK
  <2>2. Step("dog", "idle", "done") \/ Step("dog", "idle", "poll")
    BY <1>1 DEF DogWakes
  <2> QED BY <1>1, <2>1, <2>2, OwnMove DEF DogWakes
<1>2. CASE DogHost
  BY <1>2, OwnMove DEF DogHost, OnReport
<1>3. CASE DogNoHost
  BY <1>3, OwnMove DEF DogNoHost
<1>4. CASE DogSkip
  BY <1>b, <1>4, OwnMove DEF DogSkip
<1>5. CASE DogLook
  <2>1. at["dog"] \in Comms  BY <1>5, NotEnded DEF DogLook
  <2> QED BY <1>5, <2>1, OwnMove DEF DogLook
<1>6. CASE DogNoPoll
  BY <1>a, <1>6, OwnMove DEF DogNoPoll, Step
<1>7. CASE DogQuery
  <2>1. at["dog"] \in Comms  BY <1>a, <1>7 DEF DogQuery, Step
  <2>2. PICK to \in {"unpollErr", "unpoll"} : Step("dog", "query", to)
    BY <1>7 DEF DogQuery
  <2> QED BY <1>7, <2>1, <2>2, OwnMove DEF DogQuery
<1>8. CASE DogAsync
  <2>1. at["dog"] \in Comms  BY <1>a, <1>8 DEF DogAsync, Step
  <2> QED BY <1>8, <2>1, OwnMove DEF DogAsync, OnReport
<1>9. CASE DogUnwatch
  BY <1>b, <1>9, OwnMove DEF DogUnwatch
<1>10. CASE DogTimeout
  BY <1>b, <1>10, OwnMove DEF DogTimeout, OnReport
<1>11. CASE DogNext
  BY <1>b, <1>11, OwnMove DEF DogNext
<1>12. CASE DogRound
  BY <1>12, OwnMove DEF DogRound
<1>13. CASE DogFail
  <2>1. CASE Dog("fail", "claim") /\ Loop("dog", "fail") /\ UNCHANGED <<commVars, callVars>>
    <3>1. \A u \in Threads : u # "dog" => at'[u] = at[u]
      BY <2>1 DEF Loop, Set, TypeOK
    <3> QED BY <2>1, <3>1, OwnMove
  <2>2. CASE Dog("fail", "fail") /\ Exit
    BY <2>2, OwnMove DEF Exit
  <2> QED BY <1>13, <2>1, <2>2 DEF DogFail
<1>14. CASE FailExit("dog")
  BY <1>14, OwnMove DEF FailExit, Exit
<1> QED BY <1>1, <1>2, <1>3, <1>4, <1>5, <1>6, <1>7, <1>8, <1>9, <1>10, <1>11,
           <1>12, <1>13, <1>14, OwnPoll DEF DogStep

LEMMA OwnArm ==
  ASSUME TypeOK, Own, NEW from, NEW j, ArmExit(from, j), UNCHANGED <<tstate, torn, aborts>>
  PROVE  Own'
<1>1. CASE Hook(from, "claim") /\ Loop("exit", j)
  <2>1. \A u \in Threads : u # "exit" => at'[u] = at[u]
    BY <1>1 DEF Loop, Set, TypeOK
  <2> QED BY <1>1, <2>1, DogAndExit, OwnMove DEF Hook, CommPcs, OwnPcs, PollPcs
<1>2. CASE Hook(from, "leave") /\ Stay
  BY <1>2, DogAndExit, OwnMove DEF Hook, Stay, CommPcs, OwnPcs, PollPcs
<1> QED BY <1>1, <1>2 DEF ArmExit

LEMMA OwnHook ==
  ASSUME TypeOK, Own, HookStep
  PROVE  Own'
<1> USE DogAndExit
        DEF rest, commVars, ownVars, libVars, errVars, queueVars, callVars, Stay,
            HookStays, Hook, OnlyPy, CommPcs, OwnPcs, PollPcs
<1>1. CASE HookPick
  <2>1. Step("exit", "idle", "enter") \/ Step("exit", "idle", "done")
    BY <1>1 DEF HookPick
  <2> QED BY <1>1, <2>1, OwnMove DEF HookPick
<1>2. CASE HookEnter
  <2>1. PICK to \in {"leave", "grace"} : Step("exit", "enter", to)
    BY <1>2 DEF HookEnter
  <2> QED BY <1>2, <2>1, OwnMove DEF HookEnter
<1>3. CASE ExitGrace
  BY <1>3, OwnMove DEF ExitGrace
<1>4. CASE ExitLook
  <2>1. PICK to \in {"leave", "report", "clean"} : Step("exit", "joined", to)
    BY <1>4 DEF ExitLook
  <2> QED BY <1>4, <2>1, OwnMove DEF ExitLook
<1>5. CASE ExitCleanup
  BY <1>5, OwnArm DEF ExitCleanup
<1>6. CASE ExitReport
  BY <1>6, OwnArm DEF ExitReport
<1>7. CASE ExitNoReaper
  BY <1>7, OwnMove DEF ExitNoReaper, Exit
<1>8. CASE ExitAbort
  BY <1>8, OwnArm DEF ExitAbort
<1>9. CASE CancelRetain
  BY <1>9, OwnMove DEF CancelRetain
<1>10. CASE CancelLook
  <2>1. PICK to \in {"lastScan", "leave"} : Step("exit", "lastLook", to)
    BY <1>10 DEF CancelLook
  <2> QED BY <1>10, <2>1, OwnMove DEF CancelLook
<1>11. CASE CancelScan
  BY <1>11, OwnMove DEF CancelScan
<1>12. CASE HookLeave
  BY <1>12, OwnMove DEF HookLeave
<1>13. CASE FailExit("exit")
  BY <1>13, OwnMove DEF FailExit, Exit
<1> QED BY <1>1, <1>2, <1>3, <1>4, <1>5, <1>6, <1>7, <1>8, <1>9, <1>10, <1>11,
           <1>12, <1>13 DEF HookStep

LEMMA OwnStep == TypeOK /\ Own /\ [Next]_vars => Own'
<1> SUFFICES ASSUME TypeOK, Own, [Next]_vars PROVE Own'
  OBVIOUS
<1>1. CASE UNCHANGED vars
  BY <1>1, OwnSame DEF vars, commVars, ownVars, libVars
<1>2. ASSUME NEW c \in Comms, Break(c) \/ Complete(c) PROVE Own'
  BY <1>2, OwnSame DEF Break, Complete, Env, ownVars, libVars
<1>3. ASSUME NEW x, ReaperFires(x) PROVE Own'
  BY <1>3, OwnSame DEF ReaperFires, commVars, ownVars, libVars
<1> QED BY <1>1, <1>2, <1>3, OwnUser, OwnClose, OwnLoop, OwnDog, OwnHook DEF Next

-----------------------------------------------------------------------------
(* Closing a group: where each thread may be, who holds the mutex, and who   *)
(* is destroying the group.                                                  *)

EndPcs == {"stop", "join", "joined"}
\* In the destroy of the group, from shutdown() to the free.
Destroying(t) == \/ pc[t] \in {"waitUsers", "drain"}
                 \/ job[t] = "destroy" /\ pc[t] \in LoopPcs \cup EndPcs
\* Inside a call that holds the backend mutex.
Holds(t) == \/ pc[t] = "incoll"
            \/ job[t] \in {"abort", "destroy"} /\ pc[t] \in LoopPcs \cup EndPcs

\* What each thread runs, and for what.
UserPlace(u) == /\ pc[u] \in {"idle", "incoll"} \cup LoopPcs \cup ClosePcs
                /\ pc[u] \in LoopPcs => job[u] \in {"abort", "destroy"}
                /\ pc[u] \in EndPcs => job[u] = "destroy"
DogPlace  == /\ pc["dog"] \in {"idle", "done"} \cup DogPcs \cup LoopPcs
             /\ job["dog"] \in {"none", "fail"}
ExitPlace == /\ pc["exit"] \in {"idle", "done"} \cup ExitPcs \cup LoopPcs \cup ClosePcs
             /\ job["exit"] # "abort"
Place(t) == /\ t \in Users => UserPlace(t)
            /\ t = "dog" => DogPlace
            /\ t = "exit" => ExitPlace
Places == \A t \in Threads : Place(t)

MutexHeld  == \A t \in Threads : Holds(t) => mutex = t
OneDestroy == \A t, u \in Threads : Destroying(t) /\ Destroying(u) => t = u

\* The destroy took the handle; past its wait for the hook's calls it has closed
\* the group, and the hook is on no other thread.
HookGone == pc["exit"] \in {"idle", "done"}
Took(t)  == Destroying(t) =>
  /\ ~handle /\ ~freed
  /\ pc[t] # "waitUsers" => closing /\ (t \in Users => HookGone)
DestroyTook == \A t \in Threads : Took(t)
HookCounted == (users = 0 => HookGone) /\ (~handle => ~listed)

\* A join has seen the watchdog end.
Joined == /\ joiner = "joined" => pc["dog"] = "done"
          /\ \A t \in Threads : pc[t] = "joined" => joiner = "joined"

\* After the free nobody is left, and nobody comes.
HookOut == pc["exit"] \in {"idle", "done", "enter", "leave"}
Quiet == freed => /\ ~handle /\ closing /\ pc["dog"] = "done" /\ HookOut
                  /\ \A u \in Users : pc[u] = "idle"

Closing == /\ Places /\ MutexHeld /\ OneDestroy /\ DestroyTook /\ HookCounted
           /\ Joined /\ Quiet

LEMMA ClosingInit == Init => Closing
  BY WatchTeardownAssumption
  DEF Init, Closing, Places, Place, UserPlace, DogPlace, ExitPlace, MutexHeld, Holds,
      OneDestroy, Destroying, DestroyTook, Took, HookCounted, HookGone, Joined, Quiet,
      Threads, LoopPcs, EndPcs, ClosePcs

\* Most steps take no mutex, start no destroy and touch none of its variables.
LEMMA ClosingMove ==
  ASSUME TypeOK, Closing, NEW t \in Threads, NEW from, NEW to, Step(t, from, to),
         UNCHANGED <<mutex, closing, freed, handle, listed, users, joiner>>,
         \A u \in Threads : u # t => job'[u] = job[u],
         Place(t)', Holds(t)' => Holds(t),
         Destroying(t)' => Destroying(t) /\ from # "waitUsers",
         to = "joined" => from = "joined",
         t = "dog" => from # "done",
         t \in Users => from # "idle",
         t = "exit" => (from \in {"idle", "done"} => to = "done")
                       /\ (from \in {"enter", "leave"} /\ freed => to \in {"leave", "done"})
  PROVE  Closing'
<1>1. /\ pc[t] = from /\ pc'[t] = to
      /\ \A u \in Threads : u # t => pc'[u] = pc[u] /\ job'[u] = job[u]
  BY DEF Step, Set, TypeOK
<1>2. \A u \in Threads : u # t => /\ Holds(u)' = Holds(u)
                                  /\ Destroying(u)' = Destroying(u)
  BY <1>1 DEF Holds, Destroying
<1>3. Places'
  <2>1. \A u \in Threads : u # t => Place(u)'
    BY <1>1, DogAndExit DEF Closing, Places, Place, UserPlace, DogPlace, ExitPlace
  <2> QED BY <2>1 DEF Places
<1>4. MutexHeld'  BY <1>2 DEF Closing, MutexHeld
<1>5. OneDestroy'  BY <1>2 DEF Closing, OneDestroy
<1>6. HookGone => HookGone'
  BY <1>1, DogAndExit DEF HookGone
<1>7. DestroyTook'
  BY <1>1, <1>2, <1>6 DEF Closing, DestroyTook, Took
<1>8. HookCounted'  BY <1>6 DEF Closing, HookCounted
<1>9. Joined'  BY <1>1, DogAndExit DEF Closing, Joined
<1>10. Quiet'
  <2> SUFFICES ASSUME freed PROVE Quiet'
    BY DEF Quiet
  <2>1. t \notin Users  BY <1>1 DEF Closing, Quiet
  <2>2. t # "dog"  BY <1>1 DEF Closing, Quiet
  <2>3. t = "exit"  BY <2>1, <2>2 DEF Threads
  <2>4. HookOut'  BY <1>1, <2>3 DEF Closing, Quiet, HookOut
  <2>5. "dog" # t /\ \A u \in Users : u # t  BY <2>1, <2>2
  <2> QED BY <1>1, <2>4, <2>5, DogAndExit DEF Closing, Quiet
<1> QED BY <1>3, <1>4, <1>5, <1>7, <1>8, <1>9, <1>10 DEF Closing

LEMMA ClosingSame ==
  ASSUME Closing,
         UNCHANGED <<mutex, closing, freed, handle, listed, users, joiner, pc, job>>
  PROVE  Closing'
  BY DEF Closing, Places, Place, UserPlace, DogPlace, ExitPlace, MutexHeld, Holds,
         OneDestroy, Destroying, DestroyTook, Took, HookCounted, HookGone, Joined, Quiet,
         HookOut

\* Within a loop over the communicators nothing of this changes.
LEMMA ClosingWithin ==
  ASSUME TypeOK, Closing, NEW t \in Threads, NEW from \in LoopPcs, NEW to \in LoopPcs,
         Step(t, from, to), UNCHANGED job,
         UNCHANGED <<mutex, closing, freed, handle, listed, users, joiner>>
  PROVE  Closing'
<1>1. pc[t] = from /\ pc'[t] = to /\ \A u \in Threads : u # t => pc'[u] = pc[u]
  BY DEF Step, Set, TypeOK
<1>2. LoopPcs \cap ({"joined", "done", "idle", "enter", "leave", "waitUsers", "drain", "incoll"}
                    \cup EndPcs) = {}
  BY DEF LoopPcs, EndPcs
<1>3. Place(t)'
  BY <1>1, <1>2, DogAndExit
  DEF Closing, Places, Place, UserPlace, DogPlace, ExitPlace
<1>4. (Holds(t)' => Holds(t)) /\ (Destroying(t)' => Destroying(t))
  BY <1>1, <1>2 DEF Holds, Destroying
<1> QED BY <1>2, <1>3, <1>4, ClosingMove

LEMMA ClosingLoop ==
  ASSUME TypeOK, Closing, NEW t \in Threads, LoopStep(t) \/ Aborted(t)
  PROVE  Closing'
<1> USE DEF rest, groupVars, pyVars, stopVars, Stay
<1>1. {"claim", "call", "calling", "release", "look", "scan"} \subseteq LoopPcs
  BY DEF LoopPcs
<1>2. PICK from \in LoopPcs, to \in LoopPcs : Step(t, from, to)
  BY <1>1 DEF LoopStep, Pass, Claim, ClaimLost, Abort, Aborted, Release, LookOn, LookOff, Scan
<1>3. UNCHANGED <<mutex, closing, freed, handle, listed, users, joiner, job>>
  BY DEF LoopStep, Pass, Claim, ClaimLost, Abort, Aborted, Release, LookOn, LookOff, Scan
<1> QED BY <1>2, <1>3, ClosingWithin

\* A user thread's calls take and release the mutex.
LEMMA ClosingUser ==
  ASSUME TypeOK, Closing, NEW t \in Users, UserStep(t)
  PROVE  Closing'
<1> USE DEF Stay, pyVars, stopVars
<1>t. t \in Threads /\ t # "dog" /\ t # "exit"
  BY DogAndExit, WatchTeardownAssumption
<1>0. UNCHANGED <<closing, freed, handle, listed, users, joiner>>
  BY DEF UserStep, CollCall, AbortCall, CollReturn, AbortReturn
<1>1. PICK from, to : Step(t, from, to) /\ <<from, to>> \in
        {<<"idle", "incoll">>, <<"idle", "claim">>, <<"incoll", "idle">>, <<"claim", "idle">>}
  BY DEF UserStep, CollCall, AbortCall, CollReturn, AbortReturn
<1>2. /\ pc[t] = from /\ pc'[t] = to /\ \A u \in Threads : u # t => pc'[u] = pc[u]
      /\ \A u \in Threads : u # t => job'[u] = job[u]
      /\ from = "idle" => ~closing /\ mutex = "free" /\ mutex' = t
      /\ to = "idle" => mutex' = "free" /\ job'[t] = job[t]
      /\ to = "claim" => job'[t] = "abort"
      /\ from = "claim" => job[t] = "abort"
  BY <1>t, <1>1 DEF UserStep, CollCall, AbortCall, CollReturn, AbortReturn, Step, Set, Lock,
                    Unlock, TypeOK
<1>3. \A u \in Threads : u # t => /\ Holds(u)' = Holds(u)
                                  /\ Destroying(u)' = Destroying(u)
  BY <1>2 DEF Holds, Destroying
<1>4. Places'
  <2>1. \A u \in Threads : u # t => Place(u)'
    BY <1>2, <1>t, DogAndExit DEF Closing, Places, Place, UserPlace, DogPlace, ExitPlace
  <2>2. Place(t)'
    BY <1>1, <1>2, <1>t DEF Place, UserPlace, LoopPcs, EndPcs
  <2> QED BY <2>1, <2>2 DEF Places
<1>5. MutexHeld'
  <2>1. CASE from = "idle"
    <3>1. \A u \in Threads : ~Holds(u)
      BY <2>1, <1>2, NobodyIsFree DEF Closing, MutexHeld
    <3> QED BY <2>1, <3>1, <1>2, <1>3 DEF MutexHeld
  <2>2. CASE to = "idle"
    <3>1. Holds(t)  BY <2>2, <1>1, <1>2 DEF Holds, LoopPcs
    <3>2. \A u \in Threads : u # t => ~Holds(u)  BY <3>1, <1>t DEF Closing, MutexHeld
    <3>3. ~Holds(t)'  BY <2>2, <1>2 DEF Holds, LoopPcs, EndPcs
    <3> QED BY <3>2, <3>3, <1>3 DEF MutexHeld
  <2> QED BY <2>1, <2>2, <1>1
<1>6. ~Destroying(t)'  BY <1>1, <1>2 DEF Destroying, LoopPcs, EndPcs
<1>7. OneDestroy'  BY <1>3, <1>6 DEF Closing, OneDestroy
<1>8. DestroyTook' /\ HookCounted'
  BY <1>0, <1>2, <1>3, <1>6, <1>t, DogAndExit DEF Closing, DestroyTook, Took, HookCounted, HookGone
<1>9. Joined'
  BY <1>0, <1>1, <1>2, <1>t, DogAndExit DEF Closing, Joined
<1>10. Quiet'
  <2>1. ~freed  BY <1>1, <1>2 DEF Closing, Quiet
  <2> QED BY <2>1, <1>0 DEF Quiet
<1> QED BY <1>4, <1>5, <1>7, <1>8, <1>9, <1>10 DEF Closing

\* shutdown(), and the destroy up to the free.
LEMMA ClosingShutdown ==
  ASSUME TypeOK, Closing, NEW t \in Users \cup {"exit"}, Shutdown(t)
  PROVE  Closing'
<1>t. t \in Threads /\ t # "dog"
  BY DogAndExit, WatchTeardownAssumption
<1>1. /\ handle /\ ~handle' /\ ~listed'
      /\ UNCHANGED <<mutex, closing, freed, users, joiner, job>>
      /\ t \in Users => pc[t] = "idle"
      /\ t = "exit" => pc[t] = "enter"
      /\ pc'[t] = "waitUsers" /\ \A u \in Threads : u # t => pc'[u] = pc[u]
  BY <1>t, WatchTeardownAssumption DEF Shutdown, Step, Set, Stay, groupVars, stopVars, TypeOK
<1>2. \A u \in Threads : ~Destroying(u)  BY <1>1 DEF Closing, DestroyTook, Took
<1>3. ~freed  BY <1>1 DEF Closing, Quiet
<1>4. \A u \in Threads : u # t => /\ Holds(u)' = Holds(u)
                                  /\ Destroying(u)' = Destroying(u)
  BY <1>1 DEF Holds, Destroying
<1>5. Places'
  <2>1. \A u \in Threads : u # t => Place(u)'
    BY <1>1, DogAndExit DEF Closing, Places, Place, UserPlace, DogPlace, ExitPlace
  <2>2. Place(t)'
    BY <1>1, <1>t, DogAndExit
    DEF Closing, Places, Place, UserPlace, ExitPlace, LoopPcs, EndPcs, ClosePcs
  <2> QED BY <2>1, <2>2 DEF Places
<1>6. ~Holds(t)'  BY <1>1 DEF Holds, LoopPcs, EndPcs
<1>7. MutexHeld' /\ OneDestroy'
  BY <1>1, <1>2, <1>4, <1>6 DEF Closing, MutexHeld, OneDestroy
<1>8. DestroyTook'  BY <1>1, <1>2, <1>3, <1>4 DEF DestroyTook, Took
<1>9. HookCounted'
  BY <1>1, <1>t, DogAndExit DEF Closing, HookCounted, HookGone
<1>10. Joined'  BY <1>1, <1>t, DogAndExit DEF Closing, Joined
<1>11. Quiet'  BY <1>1, <1>3 DEF Quiet
<1> QED BY <1>5, <1>7, <1>8, <1>9, <1>10, <1>11 DEF Closing

LEMMA ClosingClose ==
  ASSUME TypeOK, Closing, NEW t \in Users \cup {"exit"}, Close(t)
  PROVE  Closing'
<1>t. t \in Threads /\ t # "dog"
  BY DogAndExit, WatchTeardownAssumption
<1>1. /\ pc[t] = "waitUsers" /\ closing' /\ (users = 0 \/ t = "exit")
      /\ UNCHANGED <<mutex, freed, handle, listed, users, joiner, job>>
      /\ pc'[t] = "drain" /\ \A u \in Threads : u # t => pc'[u] = pc[u]
  BY <1>t DEF Close, HookAway, Step, Set, Stay, pyVars, stopVars, TypeOK
<1>2. Destroying(t) /\ ~freed /\ ~handle
  BY <1>1, <1>t DEF Destroying, Closing, DestroyTook, Took
<1>4. \A u \in Threads : Holds(u)' = Holds(u) /\ Destroying(u)' = Destroying(u)
  BY <1>1 DEF Holds, Destroying, LoopPcs, EndPcs
<1>5. Places'
  <2>1. \A u \in Threads : u # t => Place(u)'
    BY <1>1, DogAndExit DEF Closing, Places, Place, UserPlace, DogPlace, ExitPlace
  <2>2. Place(t)'
    BY <1>1, <1>t, DogAndExit
    DEF Closing, Places, Place, UserPlace, ExitPlace, LoopPcs, EndPcs, ClosePcs
  <2> QED BY <2>1, <2>2 DEF Places
<1>6. MutexHeld' /\ OneDestroy'  BY <1>1, <1>4 DEF Closing, MutexHeld, OneDestroy
<1>7. HookGone' = HookGone
  BY <1>1, DogAndExit DEF HookGone, Closing, HookCounted
<1>8. t \in Users => HookGone
  BY <1>1, WatchTeardownAssumption DEF Closing, HookCounted
<1>9. DestroyTook'
  BY <1>1, <1>2, <1>4, <1>7, <1>8, <1>t DEF Closing, DestroyTook, Took, OneDestroy
<1>10. HookCounted'  BY <1>1, <1>7 DEF Closing, HookCounted
<1>11. Joined'  BY <1>1, <1>t, DogAndExit DEF Closing, Joined
<1>12. Quiet'  BY <1>1, <1>2 DEF Quiet
<1> QED BY <1>5, <1>6, <1>9, <1>10, <1>11, <1>12 DEF Closing

LEMMA ClosingDrained ==
  ASSUME TypeOK, Closing, NEW t \in Users \cup {"exit"}, Drained(t)
  PROVE  Closing'
<1>t. t \in Threads /\ t # "dog"
  BY DogAndExit, WatchTeardownAssumption
<1>1. /\ pc[t] = "drain" /\ mutex = "free" /\ mutex' = t
      /\ UNCHANGED <<closing, freed, handle, listed, users, joiner>>
      /\ pc'[t] = "claim" /\ \A u \in Threads : u # t => pc'[u] = pc[u]
      /\ job'[t] = "destroy" /\ \A u \in Threads : u # t => job'[u] = job[u]
  BY <1>t DEF Drained, Lock, Loop, Step, Set, pyVars, stopVars, TypeOK
<1>2. Destroying(t) /\ Destroying(t)'
  BY <1>1 DEF Destroying, LoopPcs
<1>3. ~freed /\ ~handle
  BY <1>2, <1>t DEF Closing, DestroyTook, Took
<1>4. \A u \in Threads : u # t => /\ Holds(u)' = Holds(u)
                                  /\ Destroying(u)' = Destroying(u)
  BY <1>1 DEF Holds, Destroying
<1>5. Places'
  <2>1. \A u \in Threads : u # t => Place(u)'
    BY <1>1, DogAndExit DEF Closing, Places, Place, UserPlace, DogPlace, ExitPlace
  <2>2. Place(t)'
    BY <1>1, <1>t, DogAndExit DEF Place, UserPlace, ExitPlace, LoopPcs, EndPcs
  <2> QED BY <2>1, <2>2 DEF Places
<1>6. MutexHeld'
  <2>1. \A u \in Threads : ~Holds(u)  BY <1>1, NobodyIsFree DEF Closing, MutexHeld
  <2> QED BY <2>1, <1>1, <1>4 DEF MutexHeld
<1>7. OneDestroy'  BY <1>2, <1>4, <1>t DEF Closing, OneDestroy
<1>8. HookGone' = HookGone \/ t = "exit"  BY <1>1, DogAndExit DEF HookGone
<1>9. DestroyTook'
  <2> SUFFICES ASSUME NEW u \in Threads, Destroying(u)' PROVE Took(u)'
    BY DEF DestroyTook, Took
  <2>1. u = t  BY <1>2, <1>7, <1>t DEF OneDestroy
  <2>2. closing /\ (t \in Users => HookGone /\ t # "exit")
    BY <1>1, <1>2, <1>t, WatchTeardownAssumption DEF Closing, DestroyTook, Took
  <2> QED BY <2>1, <2>2, <1>1, <1>3, <1>8 DEF Took
<1>10. HookCounted'
  BY <1>1, <1>t, DogAndExit DEF Closing, HookCounted, HookGone
<1>11. Joined'  BY <1>1, <1>t, DogAndExit DEF Closing, Joined
<1>12. Quiet'  BY <1>1, <1>3 DEF Quiet
<1> QED BY <1>5, <1>6, <1>7, <1>9, <1>10, <1>11, <1>12 DEF Closing

\* Stop, join and free: of the destroy, and of the hook's own watch_exit.
LEMMA ClosingStop ==
  ASSUME TypeOK, Closing, NEW t \in Users \cup {"exit"}, DestroyTorn(t) \/ Stop(t) \/ Join(t)
  PROVE  Closing'
<1>t. t \in Threads /\ t # "dog"
  BY DogAndExit, WatchTeardownAssumption
<1> USE DEF rest, groupVars, pyVars, stopVars, Stay
<1>1. /\ UNCHANGED <<mutex, closing, freed, handle, listed, users, job>>
      /\ pc[t] \in {"claim", "stop", "join"} /\ pc'[t] \in EndPcs
      /\ pc[t] = "claim" => job[t] = "destroy"
      /\ \A u \in Threads : u # t => pc'[u] = pc[u]
  BY <1>t DEF DestroyTorn, Stop, Join, Step, Set, TypeOK, EndPcs
<1>2. /\ joiner' = "joined" => pc["dog"] = "done"
      /\ joiner = "joined" => joiner' = "joined"
      /\ pc'[t] = "joined" => joiner' = "joined"
  <2>1. CASE DestroyTorn(t)
    BY <2>1, <1>t DEF DestroyTorn, Step, Set, Closing, Joined, TypeOK
  <2>2. CASE Stop(t)
    BY <2>2, <1>t, NobodyIsFree DEF Stop, Step, Set, Closing, Joined, TypeOK
  <2>3. CASE Join(t)
    BY <2>3, <1>t DEF Join, Joins, Step, Set, Closing, Joined, TypeOK
  <2> QED BY <2>1, <2>2, <2>3
<1>3. \A u \in Threads : Holds(u)' = Holds(u) /\ Destroying(u)' = Destroying(u)
  BY <1>1 DEF Holds, Destroying, LoopPcs, EndPcs
<1>4. Places'
  <2>1. \A u \in Threads : u # t => Place(u)'
    BY <1>1, DogAndExit DEF Closing, Places, Place, UserPlace, DogPlace, ExitPlace
  <2>2. Place(t)'
    BY <1>1, <1>t, DogAndExit
    DEF Closing, Places, Place, UserPlace, ExitPlace, LoopPcs, EndPcs, ClosePcs
  <2> QED BY <2>1, <2>2 DEF Places
<1>5. MutexHeld' /\ OneDestroy'  BY <1>1, <1>3 DEF Closing, MutexHeld, OneDestroy
<1>6. HookGone' = HookGone
  BY <1>1, DogAndExit DEF HookGone, EndPcs
<1>7. DestroyTook'
  BY <1>1, <1>3, <1>6 DEF Closing, DestroyTook, Took, EndPcs
<1>8. HookCounted'  BY <1>1, <1>6 DEF Closing, HookCounted
<1>9. Joined'  BY <1>1, <1>2, <1>t, DogAndExit DEF Closing, Joined
<1>10. Quiet'
  <2>1. ~freed  BY <1>1, <1>t DEF Closing, Quiet, HookOut, LoopPcs, EndPcs
  <2> QED BY <2>1, <1>1 DEF Quiet
<1> QED BY <1>4, <1>5, <1>7, <1>8, <1>9, <1>10 DEF Closing

LEMMA ClosingFree ==
  ASSUME TypeOK, Closing, NEW t \in Users \cup {"exit"}, Free(t)
  PROVE  Closing'
<1>t. t \in Threads /\ t # "dog"
  BY DogAndExit, WatchTeardownAssumption
<1>1. /\ UNCHANGED <<closing, handle, listed, users, joiner, job>>
      /\ pc[t] = "joined" /\ job[t] = "destroy" /\ mutex' = "free" /\ freed'
      /\ pc'[t] = IF t = "exit" THEN "enter" ELSE "idle"
      /\ \A u \in Threads : u # t => pc'[u] = pc[u]
  BY <1>t DEF Free, Unlock, Stay, pyVars, stopVars, Step, Set, TypeOK
<1>2. Destroying(t) /\ Holds(t)  BY <1>1 DEF Destroying, Holds, EndPcs
<1>3. \A u \in Threads : u # t => ~Destroying(u) /\ ~Holds(u)
  BY <1>2, <1>t DEF Closing, OneDestroy, MutexHeld
<1>4. \A u \in Threads : u # t => /\ Holds(u)' = Holds(u)
                                  /\ Destroying(u)' = Destroying(u)
  BY <1>1 DEF Holds, Destroying
<1>5. ~Destroying(t)' /\ ~Holds(t)'
  BY <1>1 DEF Destroying, Holds, LoopPcs, EndPcs
<1>6. \A u \in Threads : ~Destroying(u)' /\ ~Holds(u)'
  BY <1>3, <1>4, <1>5
<1>7. Places'
  <2>1. \A u \in Threads : u # t => Place(u)'
    BY <1>1, DogAndExit DEF Closing, Places, Place, UserPlace, DogPlace, ExitPlace
  <2>2. Place(t)'
    BY <1>1, <1>t, DogAndExit, WatchTeardownAssumption
    DEF Place, UserPlace, ExitPlace, LoopPcs, EndPcs, ExitPcs
  <2> QED BY <2>1, <2>2 DEF Places
<1>8. MutexHeld' /\ OneDestroy' /\ DestroyTook'
  BY <1>6 DEF MutexHeld, OneDestroy, DestroyTook, Took
<1>9. ~handle /\ closing /\ (t \in Users => HookGone)
  BY <1>1, <1>2, <1>t DEF Closing, DestroyTook, Took
<1>10. HookCounted'
  <2>1. t = "exit" => users # 0
    BY <1>1 DEF Closing, HookCounted, HookGone
  <2>2. t # "exit" => HookGone' = HookGone  BY <1>1, DogAndExit DEF HookGone
  <2> QED BY <2>1, <2>2, <1>1 DEF Closing, HookCounted
<1>11. Joined'  BY <1>1, <1>t, DogAndExit DEF Closing, Joined
<1>12. Quiet'
  <2>1. pc["dog"] = "done"  BY <1>1, <1>t DEF Closing, Joined
  <2>2. pc'["exit"] \in {"idle", "done", "enter", "leave"}
    BY <1>1, <1>9, <1>t, DogAndExit, WatchTeardownAssumption DEF HookGone
  <2>3. \A u \in Users : pc'[u] = "idle"
    <3> SUFFICES ASSUME NEW u \in Users PROVE pc'[u] = "idle"
      OBVIOUS
    <3>1. u \in Threads /\ u # "exit"  BY DogAndExit, WatchTeardownAssumption
    <3>2. u # t => pc[u] = "idle"
      BY <1>3, <3>1 DEF Closing, Places, Place, UserPlace, Destroying, Holds, ClosePcs, EndPcs
    <3> QED BY <1>1, <3>1, <3>2
  <2> QED BY <2>1, <2>2, <2>3, <1>1, <1>9, <1>t, DogAndExit DEF Quiet, HookOut
<1> QED BY <1>7, <1>8, <1>10, <1>11, <1>12 DEF Closing

\* The watchdog has no part in this but to end.
LEMMA ClosingDog ==
  ASSUME TypeOK, Closing, DogStep
  PROVE  Closing'
<1> USE DEF rest, groupVars, pyVars, stopVars, Stay, DogStays, Dog
<1>0. UNCHANGED <<mutex, closing, freed, handle, listed, users, joiner>>
  BY DEF DogStep, DogWakes, DogHost, DogNoHost, DogSkip, DogLook, DogPoll, DogNoPoll, DogQuery,
         DogUnpoll, DogAsync, DogUnwatch, DogTimeout, DogNext, DogRound, DogFail, FailExit,
         OnlyReaper, Exit
<1>1. PICK from \in {"idle"} \cup DogPcs \cup LoopPcs, to \in {"idle", "done"} \cup DogPcs \cup LoopPcs :
        Step("dog", from, to)
  BY DEF DogStep, DogWakes, DogHost, DogNoHost, DogSkip, DogLook, DogPoll, DogNoPoll, DogQuery,
         DogUnpoll, DogAsync, DogUnwatch, DogTimeout, DogNext, DogRound, DogFail, FailExit,
         OnReport, DogPcs, LoopPcs
<1>2. /\ job'["dog"] \in {"none", "fail"}
      /\ \A u \in Threads : u # "dog" => job'[u] = job[u]
  <2>1. CASE UNCHANGED job  BY <2>1, DogAndExit DEF Closing, Places, Place, DogPlace
  <2>2. CASE Loop("dog", "fail")  BY <2>2, DogAndExit DEF Loop, Set, TypeOK
  <2> QED BY <2>1, <2>2
      DEF DogStep, DogWakes, DogHost, DogNoHost, DogSkip, DogLook, DogPoll, DogNoPoll, DogQuery,
          DogUnpoll, DogAsync, DogUnwatch, DogTimeout, DogNext, DogRound, DogFail, FailExit, Exit
<1>3. pc["dog"] = from /\ pc'["dog"] = to  BY <1>1, DogAndExit DEF Step, Set, TypeOK
<1>4. from # "done" /\ to \notin {"joined", "waitUsers", "drain", "incoll"} \cup EndPcs
  BY <1>1 DEF DogPcs, LoopPcs, EndPcs
<1>5. Place("dog")'
  BY <1>1, <1>2, <1>3, WatchTeardownAssumption DEF Place, DogPlace
<1>6. ~Holds("dog")' /\ ~Destroying("dog")'
  BY <1>2, <1>3, <1>4 DEF Holds, Destroying
<1> QED BY <1>0, <1>1, <1>2, <1>4, <1>5, <1>6, DogAndExit, WatchTeardownAssumption, ClosingMove

\* The exit hook enters while the group is listed, and is counted until it left.
LEMMA ClosingHookStep ==
  ASSUME TypeOK, Closing, NEW from, NEW to, Step("exit", from, to),
         UNCHANGED <<mutex, closing, freed, handle, joiner>>,
         \A u \in Threads : u # "exit" => job'[u] = job[u],
         job'["exit"] = job["exit"] \/ job'["exit"] \notin {"abort", "destroy"},
         to \in LoopPcs => job'["exit"] \notin {"abort", "destroy"},
         to \in {"done", "stop"} \cup ExitPcs \cup LoopPcs,
         from \in {"idle", "done"} => to = "done" \/ listed,
         from \in {"enter", "leave"} => to \in {"leave", "done"} \/ ~freed,
         to = "stop" => job'["exit"] # "destroy",
         users' = 0 => to = "done" \/ (users = 0 /\ from \notin {"idle", "done"}),
         listed' => listed
  PROVE  Closing'
<1>t. "exit" \notin Users /\ "exit" # "dog"  BY WatchTeardownAssumption
<1>1. /\ pc["exit"] = from /\ pc'["exit"] = to
      /\ \A u \in Threads : u # "exit" => pc'[u] = pc[u]
  BY DogAndExit DEF Step, Set, TypeOK
<1>2. \A u \in Threads : u # "exit" => /\ Holds(u)' = Holds(u)
                                       /\ Destroying(u)' = Destroying(u)
  BY <1>1 DEF Holds, Destroying
<1>3. to \notin {"waitUsers", "drain", "incoll", "join", "joined"}
  BY DEF ExitPcs, LoopPcs
<1>5. ~Destroying("exit")'
  BY <1>1, <1>3 DEF Destroying, EndPcs
<1>6. ~Holds("exit")'
  BY <1>1, <1>3, DogAndExit DEF Holds, EndPcs, Closing, Places, Place, ExitPlace
<1>7. Places'
  <2>1. \A u \in Threads : u # "exit" => Place(u)'
    BY <1>1, DogAndExit DEF Closing, Places, Place, UserPlace, DogPlace, ExitPlace
  <2>2. Place("exit")'
    BY <1>1, <1>t, DogAndExit DEF Closing, Places, Place, ExitPlace, ClosePcs
  <2> QED BY <2>1, <2>2 DEF Places
<1>8. MutexHeld' /\ OneDestroy'  BY <1>2, <1>5, <1>6 DEF Closing, MutexHeld, OneDestroy
<1>9. ~handle => (HookGone => HookGone')
  BY <1>1 DEF HookGone, Closing, HookCounted
<1>10. DestroyTook'
  BY <1>1, <1>2, <1>5, <1>9 DEF Closing, DestroyTook, Took
<1>11. HookCounted'
  BY <1>1, <1>3 DEF Closing, HookCounted, HookGone
<1>12. Joined'  BY <1>1, <1>3, <1>t, DogAndExit DEF Closing, Joined
<1>13. Quiet'
  <2> SUFFICES ASSUME freed PROVE Quiet'
    BY DEF Quiet
  <2>1. ~listed  BY DEF Closing, Quiet, HookCounted
  <2>2. HookOut'  BY <2>1, <1>1 DEF Closing, Quiet, HookOut
  <2> QED BY <2>2, <1>1, <1>t, DogAndExit DEF Closing, Quiet
<1> QED BY <1>7, <1>8, <1>10, <1>11, <1>12, <1>13 DEF Closing

LEMMA ClosingHook ==
  ASSUME TypeOK, Closing, HookStep
  PROVE  Closing'
<1> USE DogAndExit
        DEF rest, groupVars, pyVars, stopVars, Stay, HookStays, Hook, OnlyPy, OnlyReaper,
            ExitPcs, LoopPcs
<1> DEFINE Others == \A u \in Threads : u # "exit" => job'[u] = job[u]
<1>1. CASE HookPick
  <2>1. PICK to \in {"enter", "done"} : Step("exit", "idle", to) /\ (to = "enter" => listed)
    BY <1>1 DEF HookPick
  <2>2. /\ UNCHANGED <<mutex, closing, freed, handle, joiner, job>> /\ listed' = listed
        /\ to = "enter" => users' = 1
        /\ to = "done" => users' = users
    BY <1>1, <2>1 DEF HookPick, Step, Set, TypeOK
  <2> QED BY <2>1, <2>2, ClosingHookStep
<1>2. CASE HookEnter
  <2>1. PICK to \in {"leave", "grace"} : Step("exit", "enter", to) /\ (freed => to = "leave")
    BY <1>2 DEF HookEnter
  <2> QED BY <1>2, <2>1, ClosingHookStep DEF HookEnter
<1>3. CASE ExitGrace
  <2>1. job'["exit"] \in {"stopped", "look"} /\ Others
    BY <1>3 DEF ExitGrace, Set, TypeOK
  <2> QED BY <1>3, <2>1, ClosingHookStep DEF ExitGrace
<1>4. CASE ExitLook
  <2>1. PICK to \in {"leave", "report", "clean"} : Step("exit", "joined", to)
    BY <1>4 DEF ExitLook
  <2> QED BY <1>4, <2>1, ClosingHookStep DEF ExitLook
<1>5. ASSUME NEW from \in {"report", "clean"}, NEW j \in {"all", "fail", "cleanup"},
             ArmExit(from, j)
      PROVE  Closing'
  <2>1. CASE Hook(from, "claim") /\ Loop("exit", j) /\ OnlyReaper
    <3>1. job'["exit"] = j /\ Others  BY <2>1 DEF Loop, Set, TypeOK
    <3> QED BY <2>1, <3>1, ClosingHookStep
  <2>2. CASE Hook(from, "leave") /\ UNCHANGED rest /\ Stay
    BY <2>2, ClosingHookStep
  <2> QED BY <1>5, <2>1, <2>2 DEF ArmExit
<1>6. CASE ExitCleanup \/ ExitReport \/ ExitAbort
  BY <1>5, <1>6 DEF ExitCleanup, ExitReport, ExitAbort, OnReport
<1>7. CASE ExitNoReaper
  BY <1>7, ClosingHookStep DEF ExitNoReaper, Exit
<1>8. CASE CancelRetain
  BY <1>8, ClosingHookStep DEF CancelRetain
<1>9. CASE CancelLook
  <2>1. PICK to \in {"lastScan", "leave"} : Step("exit", "lastLook", to)
    BY <1>9 DEF CancelLook
  <2> QED BY <1>9, <2>1, ClosingHookStep DEF CancelLook
<1>10. CASE CancelScan
  BY <1>10, ClosingHookStep DEF CancelScan
<1>11. CASE HookLeave
  BY <1>11, ClosingHookStep DEF HookLeave
<1>12. CASE FailExit("exit")
  BY <1>12, ClosingHookStep DEF FailExit, Exit
<1> QED BY <1>1, <1>2, <1>3, <1>4, <1>6, <1>7, <1>8, <1>9, <1>10, <1>11, <1>12 DEF HookStep

LEMMA ClosingStep == TypeOK /\ Closing /\ [Next]_vars => Closing'
<1> SUFFICES ASSUME TypeOK, Closing, [Next]_vars PROVE Closing'
  OBVIOUS
<1> USE DEF rest, groupVars, pyVars, stopVars
<1>1. CASE UNCHANGED vars
  BY <1>1, ClosingSame DEF vars
<1>2. ASSUME NEW c \in Comms, Break(c) \/ Complete(c) PROVE Closing'
  BY <1>2, ClosingSame DEF Break, Complete, Env
<1>3. ASSUME NEW x, ReaperFires(x) PROVE Closing'
  BY <1>3, ClosingSame DEF ReaperFires
<1> QED BY <1>1, <1>2, <1>3, ClosingUser, ClosingShutdown, ClosingClose, ClosingDrained,
           ClosingStop, ClosingFree, ClosingLoop, ClosingDog, ClosingHook
        DEF Next, CloseStep

-----------------------------------------------------------------------------
(* What the destroy leaves behind: nothing.                                  *)

\* A claimed communicator is gone, or its owner is on the way to tear it; who
\* releases a claim has torn it.
OwnedBy(t, c) == pc[t] \in {"call", "calling"} /\ at[t] = c
Gone(c)       == torn[c] = "gone"
ClaimedGoes   == \A c \in Comms : Claimed(c) => Gone(c) \/ \E t \in Threads : OwnedBy(t, c)
ReleasesGone  == \A t \in Threads : pc[t] = "release" => Gone(at[t])

\* A communicator leaves the table with the abort() that is about to claim it.
Aborting(u, c) == pc[u] = "claim" /\ job[u] = "abort" /\ at[u] = c
LeftFor(c)     == c \in table \/ Claimed(c) \/ \E u \in Users : Aborting(u, c)
TableTaken     == freed \/ \A c \in Comms : LeftFor(c)

\* The destroy's loop has found or made a claim on all it passed.
Swept(t) == Destroying(t) =>
  /\ pc[t] \in LoopPcs => \A c \in Comms : c < at[t] => Claimed(c)
  /\ pc[t] \in {"look", "scan"} => Claimed(at[t])
  /\ pc[t] \in EndPcs => \A c \in Comms : Claimed(c)
Sweeping == \A t \in Threads : Swept(t)

Tearing == ClaimedGoes /\ ReleasesGone /\ TableTaken /\ Sweeping /\ FreedAllTorn

LEMMA TearingInit == Init => Tearing
  BY DEF Init, Tearing, ClaimedGoes, ReleasesGone, TableTaken, LeftFor, Sweeping, Swept,
         Destroying, FreedAllTorn, Claimed, LoopPcs, EndPcs

\* A step that keeps what was claimed and torn.
LEMMA TearingMove ==
  ASSUME TypeOK, Own, Tearing, NEW t \in Threads, NEW from, NEW to, Step(t, from, to),
         UNCHANGED <<table, freed>>,
         \A u \in Threads : u # t => job'[u] = job[u] /\ at'[u] = at[u],
         \A c \in Comms : Claimed(c) => Claimed(c)',
         \A c \in Comms : Claimed(c)' => Claimed(c) \/ OwnedBy(t, c)',
         \A c \in Comms : Gone(c) => Gone(c)',
         \A c \in Comms : OwnedBy(t, c) => OwnedBy(t, c)' \/ Gone(c)',
         to = "release" => Gone(at[t])',
         t \in Users => \A c \in Comms : Aborting(t, c) => Aborting(t, c)' \/ Claimed(c)',
         Swept(t)'
  PROVE  Tearing'
<1>1. /\ pc'[t] = to
      /\ \A u \in Threads : u # t => pc'[u] = pc[u] /\ job'[u] = job[u] /\ at'[u] = at[u]
  BY DEF Step, Set, TypeOK
<1>2. \A u \in Threads, c \in Comms : OwnedBy(u, c) => OwnedBy(u, c)' \/ Gone(c)'
  BY <1>1 DEF OwnedBy
<1>3. ClaimedGoes'  BY <1>2 DEF Tearing, ClaimedGoes
<1>4. ReleasesGone'
  <2> SUFFICES ASSUME NEW u \in Threads, pc'[u] = "release" PROVE Gone(at[u])'
    BY DEF ReleasesGone
  <2>1. CASE u = t  BY <2>1, <1>1
  <2>2. CASE u # t
    <3>1. at[u] \in Comms /\ Gone(at[u])
      BY <1>1, <2>2 DEF Own, AtComm, CommPcs, OwnPcs, Tearing, ReleasesGone
    <3>2. Gone(at[u])' = (torn'[at'[u]] = "gone")  BY DEF Gone
    <3> QED BY <1>1, <2>2, <3>1 DEF Gone
  <2> QED BY <2>1, <2>2
<1>5. TableTaken'
  <2> SUFFICES ASSUME ~freed, NEW c \in Comms PROVE LeftFor(c)'
    BY DEF TableTaken
  <2>1. LeftFor(c)  BY DEF Tearing, TableTaken
  <2>2. \A u \in Users : Aborting(u, c) => Aborting(u, c)' \/ Claimed(c)'
    BY <1>1, DogAndExit DEF Aborting
  <2> QED BY <2>1, <2>2 DEF LeftFor
<1>6. Sweeping'
  <2> SUFFICES ASSUME NEW u \in Threads, u # t PROVE Swept(u)'
    BY DEF Sweeping
  <2>1. /\ Destroying(u)' = Destroying(u)
        /\ pc'[u] = pc[u] /\ at'[u] = at[u]
    BY <1>1 DEF Destroying
  <2>2. pc[u] \in {"look", "scan"} => at[u] \in Comms
    BY DEF Own, AtComm, CommPcs
  <2>3. Swept(u)  BY DEF Tearing, Sweeping
  <2>4. pc[u] \in {"look", "scan"} /\ Claimed(at[u]) => Claimed(at[u])'
    BY <2>1, <2>2 DEF Claimed
  <2> QED BY <2>1, <2>3, <2>4 DEF Swept
<1>7. FreedAllTorn'  BY DEF Tearing, FreedAllTorn, Gone
<1> QED BY <1>3, <1>4, <1>5, <1>6, <1>7 DEF Tearing

\* A step that changes no state word and tears nothing.
LEMMA TearingStill ==
  ASSUME TypeOK, Own, Closing, Tearing, NEW t \in Threads, NEW from, NEW to, Step(t, from, to),
         UNCHANGED <<table, freed, torn>>,
         \A c \in Comms : Claimed(c)' = Claimed(c),
         \A u \in Threads : u # t => job'[u] = job[u] /\ at'[u] = at[u],
         from \notin {"call", "calling"}, to \notin {"release", "call", "calling"},
         t \in Users /\ from = "claim" => Ends(t) \/ Claimed(at[t]) \/ job[t] # "abort",
         Swept(t)'
  PROVE  Tearing'
<1>1. pc[t] = from  BY DEF Step
<1>2. \A c \in Comms : ~OwnedBy(t, c)  BY <1>1 DEF OwnedBy
<1>3. t \in Users => \A c \in Comms : Aborting(t, c) => Claimed(c)'
  BY <1>1, WatchTeardownAssumption DEF Aborting, Ends, Comms
<1>4. \A c \in Comms : Gone(c)' = Gone(c)  BY DEF Gone
<1> QED BY <1>2, <1>3, <1>4, TearingMove

LEMMA TearingLoop ==
  ASSUME TypeOK, Own, Closing, Tearing, NEW t \in Threads, LoopStep(t) \/ Aborted(t)
  PROVE  Tearing'
<1> USE DEF rest, groupVars, commVars, ownVars, libVars, Stay
<1>0. /\ UNCHANGED <<table, freed, job>>
      /\ ~freed \/ t # "dog"
      /\ Destroying(t) => ~freed
  BY DEF LoopStep, Pass, Claim, ClaimLost, Abort, Aborted, Release, LookOn, LookOff, Scan,
         Closing, DestroyTook, Took, Quiet, Step, LoopPcs
<1>1. ASSUME Onward(t)
      PROVE  \A u \in Threads : u # t => job'[u] = job[u] /\ at'[u] = at[u]
  BY <1>0, <1>1 DEF Onward, Set, TypeOK
<1>2. ASSUME UNCHANGED at PROVE \A u \in Threads : u # t => job'[u] = job[u] /\ at'[u] = at[u]
  BY <1>0, <1>2
<1>3. ASSUME Onward(t), job[t] = "destroy", at[t] \in Comms
      PROVE  \A c \in Comms : c < at'[t] => c < at[t] \/ c = at[t]
  BY <1>3 DEF Onward, Set, TypeOK, Comms
<1>4. Destroying(t) /\ pc[t] \in LoopPcs => job[t] = "destroy"
  BY DEF Destroying, LoopPcs
<1>s. Swept(t)  BY DEF Tearing, Sweeping
<1>5. CASE Pass(t)
  <2>1. /\ pc[t] = "claim" /\ pc'[t] = "claim" /\ at[t] \in Comms /\ UNCHANGED <<tstate, torn>>
    BY <1>5, NotEnded DEF Pass, Step, Set, TypeOK
  <2>2. job[t] \in {"destroy", "cleanup"} /\ (job[t] = "destroy" => at[t] \notin table)
    BY <1>5 DEF Pass, Passed
  <2>3. ASSUME job[t] = "destroy" PROVE Claimed(at[t])
    <3>1. Destroying(t) /\ Holds(t)  BY <2>1, <2>3 DEF Destroying, Holds, LoopPcs
    <3>2. ~freed  BY <1>0, <3>1
    <3>3. LeftFor(at[t])  BY <2>1, <3>2 DEF Tearing, TableTaken
    <3>4. \A u \in Users : ~Aborting(u, at[t])
      <4> SUFFICES ASSUME NEW u \in Users, Aborting(u, at[t]) PROVE FALSE
        OBVIOUS
      <4>1. Holds(u) /\ u \in Threads  BY DogAndExit DEF Aborting, Holds, LoopPcs
      <4>2. u = t  BY <3>1, <4>1 DEF Closing, MutexHeld
      <4> QED BY <2>3, <4>2 DEF Aborting
    <3> QED BY <2>2, <2>3, <3>3, <3>4 DEF LeftFor
  <2>4. Swept(t)'
    <3>1. job'[t] = "destroy" => \A c \in Comms : c < at'[t] => Claimed(c)
      BY <1>0, <1>3, <1>5, <1>s, <2>1, <2>3 DEF Pass, Swept, Destroying, LoopPcs
    <3> QED BY <2>1, <3>1 DEF Swept, Destroying, LoopPcs, EndPcs, Claimed
  <2>5. \A c \in Comms : Claimed(c)' = Claimed(c)  BY <2>1 DEF Claimed
  <2> QED BY <1>0, <1>1, <1>5, <2>1, <2>2, <2>4, <2>5, TearingStill DEF Pass
<1>6. CASE ClaimLost(t)
  <2>1. /\ pc[t] = "claim" /\ pc'[t] = "claim" /\ at[t] \in Comms /\ UNCHANGED <<tstate, torn>>
        /\ Claimed(at[t])
    BY <1>6, NotEnded DEF ClaimLost, Lost, Step, Set, TypeOK
  <2>2. Swept(t)'
    <3>1. job'[t] = "destroy" => \A c \in Comms : c < at'[t] => Claimed(c)
      BY <1>0, <1>3, <1>6, <1>s, <2>1 DEF ClaimLost, Swept, Destroying, LoopPcs
    <3> QED BY <2>1, <3>1 DEF Swept, Destroying, LoopPcs, EndPcs, Claimed
  <2>3. \A c \in Comms : Claimed(c)' = Claimed(c)  BY <2>1 DEF Claimed
  <2> QED BY <1>0, <1>1, <1>6, <2>1, <2>2, <2>3, TearingStill DEF ClaimLost
<1>7. CASE Claim(t)
  <2>1. /\ pc[t] = "claim" /\ pc'[t] = "call" /\ at[t] \in Comms /\ UNCHANGED <<at, torn>>
        /\ tstate'[at[t]] = "CLAIMED" /\ \A c \in Comms : c # at[t] => tstate'[c] = tstate[c]
    BY <1>7, NotEnded DEF Claim, Step, Set, TypeOK
  <2>2. /\ \A c \in Comms : Claimed(c) => Claimed(c)'
        /\ \A c \in Comms : Claimed(c)' => Claimed(c) \/ OwnedBy(t, c)'
        /\ \A c \in Comms : Aborting(t, c) => Claimed(c)'
        /\ \A c \in Comms : ~OwnedBy(t, c)
    BY <2>1 DEF Claimed, OwnedBy, Aborting
  <2>3. Swept(t)'
    BY <1>0, <1>s, <2>1, <2>2 DEF Swept, Destroying, LoopPcs, EndPcs
  <2>4. \A c \in Comms : Gone(c) => Gone(c)'  BY <2>1 DEF Gone
  <2> QED BY <1>0, <1>2, <1>7, <2>1, <2>2, <2>3, <2>4, TearingMove DEF Claim
<1>8. CASE Abort(t) \/ Aborted(t)
  <2>1. /\ pc[t] \in {"call", "calling"} /\ pc'[t] \in {"calling", "release"} /\ at[t] \in Comms
        /\ UNCHANGED <<at, tstate>> /\ \A c \in Comms : c # at[t] => torn'[c] = torn[c]
        /\ pc'[t] = "calling" => pc[t] = "call"
        /\ pc'[t] = "release" => torn'[at[t]] = "gone"
    BY <1>8 DEF Abort, Aborted, Step, Set, TypeOK, Own, AtComm, CommPcs, OwnPcs
  <2>2. \A c \in Comms : Claimed(c)' = Claimed(c)  BY <2>1 DEF Claimed
  <2>3. \A c \in Comms : Gone(c) => Gone(c)'
    BY <2>1 DEF Gone, Own, ClaimedLive, Untouched
  <2>4. \A c \in Comms : OwnedBy(t, c) => OwnedBy(t, c)' \/ Gone(c)'
    BY <2>1 DEF OwnedBy, Gone
  <2>5. Swept(t)'
    BY <1>0, <1>s, <2>1, <2>2 DEF Swept, Destroying, LoopPcs, EndPcs
  <2>6. PICK from, to : Step(t, from, to) /\ to = pc'[t]
    BY <1>8 DEF Abort, Aborted, Step, Set, TypeOK
  <2>7. (\A c \in Comms : ~Aborting(t, c)) /\ (to = "release" => Gone(at[t])')
    BY <2>1, <2>6 DEF Aborting, Gone
  <2> QED BY <1>0, <1>2, <2>1, <2>2, <2>3, <2>4, <2>5, <2>6, <2>7, TearingMove
<1>9. CASE Release(t)
  <2>1. /\ pc[t] = "release" /\ pc'[t] = "look" /\ at[t] \in Comms /\ UNCHANGED <<at, torn>>
        /\ tstate[at[t]] = "CLAIMED" /\ tstate'[at[t]] = "RELEASED"
        /\ \A c \in Comms : c # at[t] => tstate'[c] = tstate[c]
    BY <1>9 DEF Release, Step, Set, TypeOK, Own, AtComm, OwnsClaim, CommPcs, OwnPcs
  <2>2. \A c \in Comms : Claimed(c)' = Claimed(c)  BY <2>1 DEF Claimed
  <2>3. Swept(t)'
    BY <1>0, <1>s, <2>1, <2>2 DEF Swept, Destroying, LoopPcs, EndPcs, Claimed
  <2> QED BY <1>0, <1>2, <1>9, <2>1, <2>2, <2>3, TearingStill DEF Release
<1>10. CASE LookOn(t)
  <2>1. pc[t] = "look" /\ pc'[t] = "scan" /\ UNCHANGED <<at, torn, tstate>>
    BY <1>10 DEF LookOn, Step, Set, TypeOK
  <2>2. \A c \in Comms : Claimed(c)' = Claimed(c)  BY <2>1 DEF Claimed
  <2>3. Swept(t)'
    BY <1>0, <1>s, <2>1, <2>2 DEF Swept, Destroying, LoopPcs, EndPcs, Claimed
  <2> QED BY <1>0, <1>2, <1>10, <2>1, <2>2, <2>3, TearingStill DEF LookOn
<1>11. CASE LookOff(t) \/ Scan(t)
  <2>1. /\ pc[t] \in {"look", "scan"} /\ pc'[t] = "claim" /\ at[t] \in Comms
        /\ Onward(t) /\ UNCHANGED <<torn, tstate>>
    BY <1>11 DEF LookOff, Scan, Step, Set, TypeOK, Own, AtComm, CommPcs
  <2>2. \A c \in Comms : Claimed(c)' = Claimed(c)  BY <2>1 DEF Claimed
  <2>3. job'[t] = "destroy" => \A c \in Comms : c < at'[t] => Claimed(c)
    BY <1>0, <1>3, <1>s, <2>1 DEF Swept, Destroying, LoopPcs
  <2>4. Swept(t)'
    BY <1>0, <1>s, <2>1, <2>2, <2>3 DEF Swept, Destroying, LoopPcs, EndPcs
  <2>5. PICK from : Step(t, from, "claim") /\ from \in {"look", "scan"}
    BY <1>11 DEF LookOff, Scan
  <2> QED BY <1>0, <1>1, <2>1, <2>2, <2>4, <2>5, TearingStill
<1> QED BY <1>5, <1>6, <1>7, <1>8, <1>9, <1>10, <1>11 DEF LoopStep

LEMMA TearingUser ==
  ASSUME TypeOK, Own, Closing, Tearing, NEW t \in Users, UserStep(t)
  PROVE  Tearing'
<1> USE DEF commVars, ownVars, libVars, pyVars, stopVars, Stay
<1>t. t \in Threads  BY DogAndExit
<1>1. PICK from, to : Step(t, from, to) /\ <<from, to>> \in
        {<<"idle", "incoll">>, <<"idle", "claim">>, <<"incoll", "idle">>, <<"claim", "idle">>}
  BY DEF UserStep, CollCall, AbortCall, CollReturn, AbortReturn
<1>2. /\ UNCHANGED <<tstate, torn, freed>>
      /\ \A u \in Threads : u # t => job'[u] = job[u] /\ at'[u] = at[u]
      /\ from = "claim" => Ends(t)
      /\ to = "claim" => job'[t] = "abort"
  BY <1>t, <1>1 DEF UserStep, CollCall, AbortCall, CollReturn, AbortReturn, Step, Set, TypeOK
<1>3. \A c \in Comms : Claimed(c)' = Claimed(c)  BY <1>2 DEF Claimed
<1>4. pc[t] = from /\ pc'[t] = to /\ \A u \in Threads : u # t => pc'[u] = pc[u]
  BY <1>t, <1>1 DEF Step, Set, TypeOK
<1>5. Swept(t)'  BY <1>1, <1>2, <1>4 DEF Swept, Destroying, LoopPcs, EndPcs
<1>6. CASE UNCHANGED table
  BY <1>t, <1>1, <1>2, <1>3, <1>5, <1>6, TearingStill
<1>7. ASSUME NEW c \in Comms, AbortCall(t, c) PROVE Tearing'
  <2>1. /\ table' = table \ {c} /\ pc[t] = "idle" /\ pc'[t] = "claim" /\ at'[t] = c
        /\ job'[t] = "abort"
    BY <1>t, <1>7 DEF AbortCall, Step, Set, TypeOK
  <2>2. \A u \in Threads, d \in Comms : OwnedBy(u, d)' = OwnedBy(u, d)
    BY <1>2, <1>4, <2>1 DEF OwnedBy
  <2>3. \A d \in Comms : Gone(d)' = Gone(d)  BY <1>2 DEF Gone
  <2>4. ClaimedGoes'  BY <1>3, <2>2, <2>3 DEF Tearing, ClaimedGoes
  <2>5. ReleasesGone'
    BY <1>2, <1>4, <2>1 DEF Tearing, ReleasesGone, Gone
  <2>6. TableTaken'
    <3> SUFFICES ASSUME ~freed, NEW d \in Comms PROVE LeftFor(d)'
      BY <1>2 DEF TableTaken
    <3>1. CASE d = c  BY <2>1, <3>1 DEF LeftFor, Aborting
    <3>2. CASE d # c
      <4>1. LeftFor(d)  BY DEF Tearing, TableTaken
      <4>2. \A u \in Users : Aborting(u, d) => Aborting(u, d)'
        BY <1>2, <1>4, <2>1, DogAndExit DEF Aborting
      <4> QED BY <2>1, <3>2, <4>1, <4>2, <1>3 DEF LeftFor
    <3> QED BY <3>1, <3>2
  <2>7. Sweeping'
    <3> SUFFICES ASSUME NEW u \in Threads, u # t PROVE Swept(u)'
      BY <1>5 DEF Sweeping
    <3>1. /\ Destroying(u)' = Destroying(u) /\ Swept(u)
          /\ pc'[u] = pc[u] /\ at'[u] = at[u] /\ UNCHANGED tstate
      BY <1>2, <1>4 DEF Destroying, Tearing, Sweeping
    <3> QED BY <3>1 DEF Swept, Claimed
  <2>8. FreedAllTorn'  BY <1>2 DEF Tearing, FreedAllTorn
  <2> QED BY <2>4, <2>5, <2>6, <2>7, <2>8 DEF Tearing
<1> QED BY <1>6, <1>7 DEF UserStep, CollCall, CollReturn, AbortReturn

LEMMA TearingClose ==
  ASSUME TypeOK, Own, Closing, Closing', Tearing, NEW t \in Users \cup {"exit"}, CloseStep(t)
  PROVE  Tearing'
<1> USE DEF rest, groupVars, commVars, ownVars, libVars, pyVars, stopVars, Stay
<1>t. t \in Threads  BY DogAndExit
<1>s. Swept(t)  BY <1>t DEF Tearing, Sweeping
<1>c. UNCHANGED <<tstate, torn>>
  BY DEF CloseStep, Shutdown, Close, Drained, DestroyTorn, Stop, Join, Free
<1>k. \A c \in Comms : Claimed(c)' = Claimed(c)  BY <1>c DEF Claimed
<1>1. CASE Shutdown(t) \/ Close(t)
  <2>1. PICK from \in {"idle", "enter", "waitUsers"}, to \in {"waitUsers", "drain"} :
          Step(t, from, to)
    BY <1>1 DEF Shutdown, Close
  <2>2. pc'[t] = to  BY <1>t, <2>1 DEF Step, Set, TypeOK
  <2>3. Swept(t)'  BY <2>2 DEF Swept, LoopPcs, EndPcs
  <2> QED BY <1>1, <1>c, <1>k, <1>t, <2>1, <2>3, TearingStill DEF Shutdown, Close
<1>2. CASE Drained(t)
  <2>1. /\ pc'[t] = "claim" /\ at'[t] = 1
        /\ \A u \in Threads : u # t => job'[u] = job[u] /\ at'[u] = at[u]
    BY <1>2, <1>t DEF Drained, Loop, Step, Set, TypeOK
  <2>2. \A c \in Comms : ~(c < 1)  BY DEF Comms
  <2>3. Swept(t)'  BY <2>1, <2>2 DEF Swept, LoopPcs, EndPcs
  <2> QED BY <1>2, <1>c, <1>k, <1>t, <2>1, <2>3, TearingStill DEF Drained
<1>3. CASE DestroyTorn(t)
  <2>1. /\ pc[t] = "claim" /\ pc'[t] = "stop" /\ job[t] = "destroy" /\ at[t] > N
        /\ UNCHANGED <<at, job>>
    BY <1>3, <1>t DEF DestroyTorn, Ends, Step, Set, TypeOK
  <2>2. \A c \in Comms : c < at[t]
    BY <2>1, <1>t, WatchTeardownAssumption DEF Comms, TypeOK
  <2>3. \A c \in Comms : Claimed(c)  BY <2>1, <2>2, <1>s DEF Swept, Destroying, LoopPcs
  <2>4. Swept(t)'  BY <2>1, <2>3, <1>k DEF Swept, LoopPcs, EndPcs
  <2> QED BY <1>3, <1>c, <1>k, <1>t, <2>1, <2>4, TearingStill DEF DestroyTorn
<1>4. CASE Stop(t) \/ Join(t)
  <2>1. PICK from \in {"stop", "join"}, to \in {"join", "joined"} : Step(t, from, to)
    BY <1>4 DEF Stop, Join
  <2>2. pc[t] = from /\ pc'[t] = to  BY <1>t, <2>1 DEF Step, Set, TypeOK
  <2>3. Swept(t)'
    BY <1>4, <1>s, <1>k, <2>2 DEF Stop, Join, Swept, Destroying, LoopPcs, EndPcs
  <2> QED BY <1>4, <1>c, <1>k, <1>t, <2>1, <2>3, TearingStill DEF Stop, Join
<1>5. CASE Free(t)
  <2>1. /\ pc[t] = "joined" /\ job[t] = "destroy" /\ freed' /\ UNCHANGED <<at, job>>
        /\ \A u \in Threads : u # t => pc'[u] = pc[u]
        /\ pc'[t] \in {"idle", "enter"}
    BY <1>5, <1>t DEF Free, Step, Set, TypeOK
  <2>2. \A u \in Threads : pc'[u] \in {"idle", "done", "enter", "leave"}
    BY <2>1 DEF Closing, Quiet, HookOut, Threads
  <2>3. \A u \in Threads : pc[u] \notin {"call", "calling", "release"}
    BY <2>1, <2>2
  <2>4. \A c \in Comms : Claimed(c)
    BY <2>1, <1>s DEF Swept, Destroying, EndPcs, LoopPcs
  <2>5. \A c \in Comms : Gone(c)
    BY <2>3, <2>4 DEF Tearing, ClaimedGoes, OwnedBy
  <2>6. \A c \in Comms : Gone(c)'  BY <2>5, <1>c DEF Gone
  <2>7. ClaimedGoes' /\ FreedAllTorn'  BY <2>6 DEF ClaimedGoes, FreedAllTorn, Gone
  <2>8. ReleasesGone'  BY <2>2 DEF ReleasesGone
  <2>9. TableTaken'  BY <2>1 DEF TableTaken
  <2>10. Sweeping'  BY <2>2 DEF Sweeping, Swept, LoopPcs, EndPcs
  <2> QED BY <2>7, <2>8, <2>9, <2>10 DEF Tearing
<1> QED BY <1>1, <1>2, <1>3, <1>4, <1>5 DEF CloseStep

LEMMA TearingDog ==
  ASSUME TypeOK, Own, Closing, Closing', Tearing, DogStep
  PROVE  Tearing'
<1> USE DEF rest, groupVars, commVars, ownVars, libVars, Stay, DogStays, Dog
<1>t. "dog" \in Threads /\ "dog" \notin Users  BY DogAndExit, WatchTeardownAssumption
<1>1. PICK from \in {"idle", "claim"} \cup DogPcs, to \in {"idle", "done", "claim"} \cup DogPcs :
        Step("dog", from, to)
  BY DEF DogStep, DogWakes, DogHost, DogNoHost, DogSkip, DogLook, DogPoll, DogNoPoll, DogQuery,
         DogUnpoll, DogAsync, DogUnwatch, DogTimeout, DogNext, DogRound, DogFail, FailExit,
         OnReport, DogPcs
<1>2. UNCHANGED <<table, freed, torn>>
  BY DEF DogStep, DogWakes, DogHost, DogNoHost, DogSkip, DogLook, DogPoll, DogNoPoll, DogQuery,
         DogUnpoll, DogAsync, DogUnwatch, DogTimeout, DogNext, DogRound, DogFail, FailExit,
         OnlyReaper, Exit
<1>3. \A u \in Threads : u # "dog" => job'[u] = job[u] /\ at'[u] = at[u]
  <2>1. CASE UNCHANGED <<at, job>>  BY <2>1
  <2>2. CASE Loop("dog", "fail")  BY <2>2 DEF Loop, Set, TypeOK
  <2>3. CASE (Onward("dog") \/ at' = Set(at, "dog", 1)) /\ UNCHANGED job
    BY <2>3 DEF Onward, Set, TypeOK
  <2> QED BY <2>1, <2>2, <2>3
      DEF DogStep, DogWakes, DogHost, DogNoHost, DogSkip, DogLook, DogPoll, DogNoPoll, DogQuery,
          DogUnpoll, DogAsync, DogUnwatch, DogTimeout, DogNext, DogRound, DogFail, FailExit, Exit
<1>4. \A c \in Comms : Claimed(c)' = Claimed(c)
  <2>1. CASE UNCHANGED tstate  BY <2>1 DEF Claimed
  <2>2. CASE DogPoll \/ DogUnpoll
    <3>1. tstate[at["dog"]] \in {"LIVE", "POLLING"}
      BY <2>2, <1>t DEF DogPoll, DogUnpoll, Pollable, Step, Own, PollHeld, PollPcs
    <3>2. PICK v \in {"LIVE", "POLLING"} : tstate' = Set(tstate, at["dog"], v)
      BY <2>2 DEF DogPoll, DogUnpoll
    <3> QED BY <3>1, <3>2 DEF Claimed, Set, TypeOK
  <2> QED BY <2>1, <2>2
      DEF DogStep, DogWakes, DogHost, DogNoHost, DogSkip, DogLook, DogNoPoll, DogQuery,
          DogAsync, DogUnwatch, DogTimeout, DogNext, DogRound, DogFail, FailExit, Exit
<1>5. Swept("dog")'
  BY <1>t DEF Swept, Destroying, Closing, Places, Place, DogPlace, DogPcs, LoopPcs
<1>6. from \notin {"call", "calling"} /\ to \notin {"release", "call", "calling"}
  BY DEF DogPcs
<1> QED BY <1>t, <1>1, <1>2, <1>3, <1>4, <1>5, <1>6, TearingStill

LEMMA TearingHook ==
  ASSUME TypeOK, Own, Closing, Tearing, HookStep
  PROVE  Tearing'
<1> USE DEF rest, groupVars, commVars, ownVars, libVars, Stay, HookStays, Hook, OnlyPy, OnlyReaper
<1>t. "exit" \in Threads /\ "exit" \notin Users  BY DogAndExit, WatchTeardownAssumption
<1>1. PICK from \in {"idle", "claim", "joined"} \cup ExitPcs,
           to \in {"done", "claim", "stop"} \cup ExitPcs : Step("exit", from, to)
  <2>1. CASE ExitCleanup \/ ExitReport \/ ExitAbort
    BY <2>1 DEF ExitCleanup, ExitReport, ExitAbort, ArmExit, ExitPcs
  <2> QED BY <2>1 DEF HookStep, HookPick, HookEnter, ExitGrace, ExitLook, ExitNoReaper,
          CancelRetain, CancelLook, CancelScan, HookLeave, FailExit, ExitPcs
<1>2. UNCHANGED <<table, freed, torn, tstate>>
  BY DEF HookStep, HookPick, HookEnter, ExitGrace, ExitLook, ExitCleanup, ExitReport,
         ExitNoReaper, ExitAbort, ArmExit, CancelRetain, CancelLook, CancelScan, HookLeave,
         FailExit, Exit
<1>p. pc["exit"] = from /\ pc'["exit"] = to  BY <1>1, <1>t DEF Step, Set, TypeOK
\* Its own loops and stop are never the destroy's.
<1> DEFINE Its == /\ \A u \in Threads : u # "exit" => job'[u] = job[u] /\ at'[u] = at[u]
                  /\ job'["exit"] = "destroy" => to \in {"done"} \cup ExitPcs
<1>3. Its
  <2>1. CASE UNCHANGED <<at, job>> /\ to \in {"done"} \cup ExitPcs  BY <2>1
  <2>2. ASSUME NEW j \in {"all", "fail", "cleanup"}, Loop("exit", j) PROVE Its
    BY <2>2, <1>t DEF Loop, Set, TypeOK
  <2>3. CASE ExitGrace  BY <2>3, <1>t DEF ExitGrace, Set, TypeOK
  <2>4. ASSUME NEW at0 \in {"report", "clean"}, NEW j \in {"all", "fail", "cleanup"},
               ArmExit(at0, j)
        PROVE  Its
    <3>1. CASE Hook(at0, "leave") /\ Stay
      BY <3>1, <2>1, <1>p, <1>t DEF Step, Set, TypeOK, ExitPcs
    <3> QED BY <2>2, <2>4, <3>1 DEF ArmExit
  <2>5. CASE ExitCleanup \/ ExitReport \/ ExitAbort
    BY <2>4, <2>5 DEF ExitCleanup, ExitReport, ExitAbort, OnReport
  <2>6. CASE FailExit("exit")
    BY <2>6, <1>t DEF FailExit, Exit
  <2>7. CASE HookPick \/ HookEnter \/ ExitLook \/ ExitNoReaper \/ CancelRetain \/ CancelLook
             \/ CancelScan \/ HookLeave
    <3>1. UNCHANGED <<at, job>>
      BY <2>7 DEF HookPick, HookEnter, ExitLook, ExitNoReaper, CancelRetain, CancelLook,
                  CancelScan, HookLeave, Exit
    <3>2. pc'["exit"] \in {"done"} \cup ExitPcs
      BY <2>7, <1>t
      DEF HookPick, HookEnter, ExitLook, ExitNoReaper, CancelRetain, CancelLook,
          CancelScan, HookLeave, ExitPcs, Step, Set, TypeOK
    <3> QED BY <2>1, <3>1, <3>2, <1>p
  <2> QED BY <2>3, <2>5, <2>6, <2>7 DEF HookStep
<1>4. \A c \in Comms : Claimed(c)' = Claimed(c)  BY <1>2 DEF Claimed
<1>5. Swept("exit")'
  BY <1>3, <1>p DEF Swept, Destroying, ExitPcs, LoopPcs, EndPcs
<1>6. from \notin {"call", "calling"} /\ to \notin {"release", "call", "calling"}
  BY DEF ExitPcs
<1> QED BY <1>t, <1>1, <1>2, <1>3, <1>4, <1>5, <1>6, TearingStill

\* The library, the device and a reaper leave claims and threads alone.
LEMMA TearingSame ==
  ASSUME Tearing, UNCHANGED <<tstate, torn, table, freed, pc, at, job>>
  PROVE  Tearing'
  BY DEF Tearing, ClaimedGoes, ReleasesGone, TableTaken, LeftFor, Aborting, OwnedBy, Gone, Claimed,
         Sweeping, Swept, Destroying, FreedAllTorn

LEMMA TearingStep == TypeOK /\ Own /\ Closing /\ Tearing /\ [Next]_vars => Tearing'
<1> SUFFICES ASSUME TypeOK, Own, Closing, Tearing, [Next]_vars PROVE Tearing'
  OBVIOUS
<1> USE DEF rest, groupVars, commVars, ownVars, libVars
<1>0. Closing'  BY ClosingStep
<1>1. CASE UNCHANGED vars
  BY <1>1, TearingSame DEF vars
<1>2. ASSUME NEW c \in Comms, Break(c) \/ Complete(c) PROVE Tearing'
  BY <1>2, TearingSame DEF Break, Complete, Env
<1>3. ASSUME NEW x, ReaperFires(x) PROVE Tearing'
  BY <1>3, TearingSame DEF ReaperFires
<1> QED BY <1>0, <1>1, <1>2, <1>3, TearingUser, TearingClose, TearingLoop, TearingDog, TearingHook
        DEF Next

-----------------------------------------------------------------------------
(* The exit hook's reaper: armed once the watchdog has ended, and cancelled  *)
(* by whoever ends what it bounds last.                                      *)

\* A call in progress is a user's or a destroy's, a claim not released yet
\* somebody's.
Calling(u)  == \/ pc[u] = "incoll" /\ call = "coll"
               \/ pc[u] = "calling" /\ call = "abort"
Owner(t, c) == pc[t] \in OwnPcs /\ at[t] = c
Marking(u)  == u \in Users \/ job[u] = "destroy"
CallsHeld   == call # "none" => \E u \in Threads : Marking(u) /\ Calling(u)
ClaimsOwned == \A c \in Comms : tstate[c] = "CLAIMED" => \E t \in Threads : Owner(t, c)
Held        == CallsHeld /\ ClaimsOwned

\* The hook tears down, or looks at what it leaves, once the watchdog has ended;
\* its cell is published before it looks.
HookTears == \/ job["exit"] \in {"all", "cleanup", "fail"} /\ pc["exit"] \in LoopPcs
             \/ pc["exit"] \in {"lastLook", "lastScan"}
HookOver  == pc["exit"] \in {"leave", "done"}
Armed     == reaper["exit"] = "armed"
ReaperTimed ==
  /\ HookTears \/ pc["exit"] \in {"report", "clean"} => pc["dog"] = "done"
  /\ pc["exit"] \in {"lastLook", "lastScan"} => retained
  /\ Armed => pc["dog"] = "done" /\ (HookTears \/ (HookOver /\ retained))

\* A reaper the hook left armed is a releasing thread's to cancel, but one left
\* for a library call.
Releasing(u) == pc[u] \in OwnPcs \cup {"look", "scan"}
ReaperKept   == Armed /\ HookOver => byCall \/ \E u \in Users : Releasing(u)

Reaping == Held /\ ReaperTimed /\ ReaperKept

LEMMA ReapingInit == Init => Reaping
  BY DEF Init, Reaping, Held, CallsHeld, ClaimsOwned, ReaperTimed, ReaperKept, HookTears, Armed,
         LoopPcs, Threads

\* A step that keeps calls and claims with their threads.
LEMMA HeldMove ==
  ASSUME TypeOK, Held, NEW t \in Threads, NEW from, NEW to, Step(t, from, to),
         \A u \in Threads : u # t => at'[u] = at[u] /\ job'[u] = job[u],
         call' \in {call, "none"} \/ (Marking(t) /\ Calling(t))',
         Marking(t) /\ Calling(t) => (Marking(t) /\ Calling(t))' \/ call' = "none",
         \A c \in Comms : tstate'[c] = "CLAIMED" => tstate[c] = "CLAIMED" \/ Owner(t, c)',
         \A c \in Comms : Owner(t, c) => Owner(t, c)' \/ tstate'[c] # "CLAIMED"
  PROVE  Held'
<1>1. \A u \in Threads : u # t => pc'[u] = pc[u] /\ at'[u] = at[u] /\ job'[u] = job[u]
  BY DEF Step, Set, TypeOK
<1>2. CallsHeld'
  <2>1. CASE call' = call /\ call # "none"
    <3>1. PICK u \in Threads : Marking(u) /\ Calling(u)  BY <2>1 DEF Held, CallsHeld
    <3>2. (Marking(u) /\ Calling(u))'  BY <1>1, <2>1, <3>1 DEF Calling, Marking
    <3> QED BY <3>2 DEF CallsHeld
  <2>2. CASE (Marking(t) /\ Calling(t))'  BY <2>2 DEF CallsHeld
  <2> QED BY <2>1, <2>2 DEF CallsHeld
<1>3. ClaimsOwned'
  <2> SUFFICES ASSUME NEW c \in Comms, tstate'[c] = "CLAIMED"
               PROVE  \E u \in Threads : Owner(u, c)'
    BY DEF ClaimsOwned
  <2>1. CASE tstate[c] = "CLAIMED"
    <3>1. PICK u \in Threads : Owner(u, c)  BY <2>1 DEF Held, ClaimsOwned
    <3>2. Owner(u, c)'  BY <1>1, <3>1 DEF Owner
    <3> QED BY <3>2
  <2> QED BY <2>1
<1> QED BY <1>2, <1>3 DEF Held

LEMMA HeldStill ==
  ASSUME TypeOK, Held, NEW t \in Threads, NEW from, NEW to, Step(t, from, to),
         \A u \in Threads : u # t => at'[u] = at[u] /\ job'[u] = job[u],
         from \notin OwnPcs \cup {"incoll"}, UNCHANGED call,
         \A c \in Comms : tstate'[c] = "CLAIMED" => tstate[c] = "CLAIMED"
  PROVE  Held'
<1>1. ~Calling(t) /\ \A c \in Comms : ~Owner(t, c)
  BY DEF Step, Calling, Owner, OwnPcs
<1> QED BY <1>1, HeldMove

\* A step of another thread than the hook's.
LEMMA ReaperAside ==
  ASSUME TypeOK, ReaperTimed, ReaperKept, NEW t \in Threads, NEW from, NEW to, Step(t, from, to),
         t # "exit", t = "dog" => from # "done", UNCHANGED <<retained, byCall>>,
         reaper'["exit"] \in {reaper["exit"], "cancelled"}, job'["exit"] = job["exit"],
         t \in Users /\ Armed' /\ Armed /\ HookOver /\ Releasing(t) => Releasing(t)'
  PROVE  ReaperTimed' /\ ReaperKept'
<1>1. /\ pc[t] = from /\ \A u \in Threads : u # t => pc'[u] = pc[u]
      /\ pc'["exit"] = pc["exit"]
  BY DogAndExit DEF Step, Set, TypeOK
<1>2. HookTears' = HookTears /\ HookOver' = HookOver /\ (Armed' => Armed)
  BY <1>1 DEF HookTears, HookOver, Armed
<1>3. pc["dog"] = "done" => pc'["dog"] = "done"  BY <1>1, DogAndExit
<1>4. ReaperTimed'  BY <1>1, <1>2, <1>3 DEF ReaperTimed
<1>5. \A u \in Users : u # t /\ Releasing(u) => Releasing(u)'
  BY <1>1, DogAndExit DEF Releasing
<1>6. ReaperKept'  BY <1>2, <1>5 DEF ReaperKept
<1> QED BY <1>4, <1>6

\* Steps of the hook: at what its reaper bounds, and with its reaper off.
LEMMA ReaperHook ==
  ASSUME TypeOK, ReaperTimed, NEW from, NEW to, Step("exit", from, to),
         reaper'["exit"] = "armed" => HookTears', HookTears' => pc["dog"] = "done",
         to \in {"report", "clean"} => pc["dog"] = "done",
         to \in {"lastLook", "lastScan"} => retained'
  PROVE  ReaperTimed' /\ ReaperKept'
<1>1. pc'["exit"] = to /\ pc'["dog"] = pc["dog"]
  BY DogAndExit, WatchTeardownAssumption DEF Step, Set, TypeOK
<1>2. HookTears' => ~HookOver'  BY DEF HookTears, HookOver, LoopPcs
<1>3. ReaperTimed'  BY <1>1 DEF ReaperTimed, Armed
<1>4. ReaperKept'  BY <1>2 DEF ReaperKept, Armed
<1> QED BY <1>3, <1>4

\* With the hook's reaper armed, no other thread's: the releasing threads are
\* users, and one at a time.
LEMMA OneReleasing ==
  ASSUME Closing, NEW t \in Users, Releasing(t), NEW u \in Users,
         Releasing(u) \/ pc[u] \in {"incoll", "calling"}
  PROVE  u = t
<1>1. Holds(t) /\ Holds(u)
  BY DogAndExit DEF Closing, Places, Place, UserPlace, Holds, Releasing, OwnPcs, LoopPcs
<1> QED BY <1>1, DogAndExit DEF Closing, MutexHeld

LEMMA ReapingLoop ==
  ASSUME TypeOK, Own, Closing, Reaping, NEW t \in Threads, LoopStep(t) \/ Aborted(t)
  PROVE  Reaping'
<1> USE DEF rest, reaperVars, callVars, commVars, ownVars, libVars, Stay
<1>1. /\ pc[t] \in LoopPcs /\ pc'[t] \in LoopPcs
      /\ UNCHANGED <<retained, byCall, job>>
      /\ reaper'["exit"] \in {reaper["exit"], "cancelled"}
  BY DEF LoopStep, Pass, Claim, ClaimLost, Abort, Aborted, Release, LookOn, LookOff, Scan, Cancel,
         Step, Set, TypeOK, LoopPcs
<1>2. PICK from \in LoopPcs, to \in LoopPcs : Step(t, from, to)
  BY DEF LoopStep, Pass, Claim, ClaimLost, Abort, Aborted, Release, LookOn, LookOff, Scan, LoopPcs
<1>3. ASSUME Onward(t) \/ UNCHANGED at
      PROVE  \A u \in Threads : u # t => at'[u] = at[u] /\ job'[u] = job[u]
  BY <1>1, <1>3 DEF Onward, Set, TypeOK
<1>4. Held'
  <2>1. CASE Pass(t) \/ ClaimLost(t) \/ LookOn(t) \/ LookOff(t) \/ Scan(t)
    <3>1. pc[t] \in {"claim", "look", "scan"}
      BY <2>1 DEF Pass, ClaimLost, LookOn, LookOff, Scan, Step
    <3>2. Onward(t) \/ UNCHANGED at
      BY <2>1 DEF Pass, ClaimLost, LookOn, LookOff, Scan
    <3>3. UNCHANGED <<tstate, call>>
      BY <2>1 DEF Pass, ClaimLost, LookOn, LookOff, Scan
    <3>4. from \notin OwnPcs \cup {"incoll"}  BY <1>2, <3>1 DEF Step, OwnPcs
    <3> QED BY <1>2, <1>3, <3>2, <3>3, <3>4, HeldStill DEF Reaping
  <2>2. CASE Claim(t)
    <3>1. pc[t] = "claim" /\ pc'[t] = "call" /\ UNCHANGED <<at, call>>
      BY <2>2 DEF Claim, Step, Set, TypeOK
    <3>2. \A c \in Comms : tstate'[c] = "CLAIMED" => tstate[c] = "CLAIMED" \/ Owner(t, c)'
      BY <2>2, <3>1 DEF Claim, Set, TypeOK, Owner, OwnPcs
    <3>3. ~Calling(t) /\ \A c \in Comms : ~Owner(t, c)  BY <3>1 DEF Calling, Owner, OwnPcs
    <3> QED BY <1>1, <1>2, <3>1, <3>2, <3>3, HeldMove DEF Reaping
  <2>3. CASE Abort(t) \/ Aborted(t)
    <3>1. /\ pc[t] \in {"call", "calling"} /\ pc'[t] \in {"calling", "release"}
          /\ UNCHANGED <<at, tstate>> /\ (pc'[t] = "calling" => pc[t] = "call")
      BY <2>3 DEF Abort, Aborted, Step, Set, TypeOK
    <3>2. call' \in {call, "none"} \/ (Marking(t) /\ Calling(t))'
      BY <1>1, <2>3 DEF Abort, Aborted, InCall, Calling, Marking, Step, Set, TypeOK
    <3>3. Marking(t) /\ Calling(t) => call' = "none"
      BY <2>3 DEF Abort, Aborted, InCall, Calling, Marking, Step, Set, TypeOK
    <3>4. \A c \in Comms : Owner(t, c) => Owner(t, c)'
      BY <3>1 DEF Owner, OwnPcs
    <3> QED BY <1>1, <1>2, <3>1, <3>2, <3>3, <3>4, HeldMove DEF Reaping
  <2>4. CASE Release(t)
    <3>1. /\ pc[t] = "release" /\ UNCHANGED <<at, call>> /\ at[t] \in Comms
          /\ tstate'[at[t]] = "RELEASED" /\ \A c \in Comms : c # at[t] => tstate'[c] = tstate[c]
      BY <2>4 DEF Release, Step, Set, TypeOK, Own, AtComm, CommPcs, OwnPcs
    <3>2. ~Calling(t)  BY <3>1 DEF Calling
    <3>3. \A c \in Comms : Owner(t, c) => tstate'[c] # "CLAIMED"  BY <3>1 DEF Owner
    <3>4. \A c \in Comms : tstate'[c] = "CLAIMED" => tstate[c] = "CLAIMED"  BY <3>1
    <3> QED BY <1>1, <1>2, <3>1, <3>2, <3>3, <3>4, HeldMove DEF Reaping
  <2> QED BY <2>1, <2>2, <2>3, <2>4 DEF LoopStep
<1>5. CASE t # "exit"
  <2>1. t = "dog" => from # "done"  BY DEF LoopPcs
  <2>2. ASSUME t \in Users, Armed', Armed, HookOver, Releasing(t) PROVE Releasing(t)'
    <3>0. pc["dog"] = "done" /\ retained /\ pc["exit"] \in {"leave", "done"}
      BY <2>2 DEF Reaping, ReaperTimed, HookTears, HookOver, LoopPcs
    <3>1. pc'[t] \in OwnPcs \cup {"look", "scan"} \/ LookOff(t) \/ Scan(t)
      BY <2>2 DEF LoopStep, Pass, Claim, ClaimLost, Abort, Aborted, Release, LookOn, Step, Set,
                  TypeOK, Releasing, OwnPcs
    <3>2. ASSUME LookOff(t) PROVE FALSE
      <4>1. call # "none" /\ pc[t] = "look"  BY <3>0, <3>2 DEF LookOff, Step
      <4>2. PICK u \in Threads : Calling(u)  BY <4>1 DEF Reaping, Held, CallsHeld
      <4>3. u \in Users  BY <3>0, <4>2 DEF Calling, Threads
      <4> QED BY <2>2, <4>1, <4>2, <4>3, OneReleasing DEF Calling
    <3>3. ASSUME Scan(t) PROVE FALSE
      <4>1. AnyTearing /\ pc[t] = "scan"
        BY <2>2, <3>3 DEF Scan, Cancel, Step, Armed, Set, TypeOK
      <4>2. PICK u \in Threads : pc[u] \in OwnPcs
        BY <4>1 DEF AnyTearing, Reaping, Held, ClaimsOwned, Owner
      <4>3. u \in Users  BY <3>0, <4>2 DEF OwnPcs, Threads
      <4> QED BY <2>2, <4>1, <4>2, <4>3, OneReleasing DEF Releasing, OwnPcs
    <3> QED BY <3>1, <3>2, <3>3 DEF Releasing
  <2> QED BY <1>1, <1>2, <1>4, <1>5, <2>1, <2>2, ReaperAside DEF Reaping
<1>6. CASE t = "exit"
  <2>1. ~HookOver /\ HookTears' = HookTears
    BY <1>1, <1>6 DEF HookTears, HookOver, LoopPcs
  <2>2. reaper'["exit"] = "armed" => HookTears'
    BY <1>1, <2>1 DEF Reaping, ReaperTimed, Armed
  <2>3. HookTears' => pc["dog"] = "done"  BY <2>1 DEF Reaping, ReaperTimed
  <2>4. to \notin {"report", "clean", "lastLook", "lastScan"}  BY DEF LoopPcs
  <2> QED BY <1>2, <1>4, <1>6, <2>2, <2>3, <2>4, ReaperHook DEF Reaping
<1> QED BY <1>5, <1>6

LEMMA ReapingUser ==
  ASSUME TypeOK, Own, Closing, Reaping, NEW t \in Users, UserStep(t)
  PROVE  Reaping'
<1> USE DEF reaperVars, callVars, commVars, ownVars, Stay
<1>t. t \in Threads /\ t # "exit" /\ t # "dog"  BY DogAndExit, WatchTeardownAssumption
<1>1. PICK from, to : Step(t, from, to) /\ <<from, to>> \in
        {<<"idle", "incoll">>, <<"idle", "claim">>, <<"incoll", "idle">>, <<"claim", "idle">>}
  BY DEF UserStep, CollCall, AbortCall, CollReturn, AbortReturn
<1>2. /\ UNCHANGED <<tstate, reaper, retained, byCall>>
      /\ \A u \in Threads : u # t => at'[u] = at[u] /\ job'[u] = job[u]
  BY <1>t DEF UserStep, CollCall, AbortCall, CollReturn, AbortReturn, Set, TypeOK
<1>3. pc[t] = from /\ pc'[t] = to  BY <1>t, <1>1 DEF Step, Set, TypeOK
<1>4. \A c \in Comms : ~Owner(t, c)  BY <1>1, <1>3 DEF Owner, OwnPcs
<1>5. /\ call' = call \/ call' = "none" \/ Calling(t)'
      /\ Calling(t) => call' = "none"
      /\ Marking(t)'
  BY <1>3, <1>t DEF UserStep, CollCall, AbortCall, CollReturn, AbortReturn, InCall, Calling,
                    Marking, Step, Set, TypeOK
<1>6. Held'  BY <1>t, <1>1, <1>2, <1>4, <1>5, HeldMove DEF Reaping
<1>7. ~Releasing(t)  BY <1>1, <1>3 DEF Releasing, OwnPcs
<1> QED BY <1>t, <1>1, <1>2, <1>6, <1>7, DogAndExit, ReaperAside DEF Reaping

LEMMA ReapingClose ==
  ASSUME TypeOK, Own, Closing, Reaping, NEW t \in Users \cup {"exit"}, CloseStep(t)
  PROVE  Reaping'
<1> USE DEF rest, reaperVars, callVars, commVars, ownVars, Stay
<1>t. t \in Threads /\ t # "dog"  BY DogAndExit, WatchTeardownAssumption
<1>1. PICK from, to : Step(t, from, to) /\ <<from, to>> \in
        {<<"idle", "waitUsers">>, <<"enter", "waitUsers">>, <<"waitUsers", "drain">>,
         <<"drain", "claim">>, <<"claim", "stop">>, <<"stop", "join">>, <<"join", "joined">>,
         <<"joined", "enter">>, <<"joined", "idle">>}
  BY DEF CloseStep, Shutdown, Close, Drained, DestroyTorn, Stop, Join, Free
<1>2. /\ UNCHANGED <<tstate, call, reaper, retained, byCall>>
      /\ \A u \in Threads : u # t => at'[u] = at[u] /\ job'[u] = job[u]
      /\ t = "exit" /\ from = "claim" => job["exit"] = "destroy"
      /\ t = "exit" /\ to = "claim" => job'["exit"] = "destroy"
  BY <1>t, <1>1 DEF CloseStep, Shutdown, Close, Drained, DestroyTorn, Stop, Join, Free, Loop, Step,
                    Set, TypeOK
<1>3. pc[t] = from /\ pc'[t] = to  BY <1>t, <1>1 DEF Step, Set, TypeOK
<1>4. from \notin OwnPcs \cup {"incoll"}  BY <1>1 DEF OwnPcs
<1>5. Held'  BY <1>t, <1>1, <1>2, <1>4, HeldStill DEF Reaping
<1>6. CASE t # "exit"
  <2>1. ~Releasing(t)  BY <1>1, <1>3 DEF Releasing, OwnPcs
  <2> QED BY <1>t, <1>1, <1>2, <1>5, <1>6, <2>1, DogAndExit, ReaperAside DEF Reaping
<1>7. CASE t = "exit"
  <2>1. ~HookTears /\ ~HookOver /\ ~HookTears'
    BY <1>1, <1>2, <1>3, <1>7 DEF HookTears, HookOver, LoopPcs
  <2>2. ~(reaper'["exit"] = "armed")
    BY <1>2, <2>1 DEF Reaping, ReaperTimed, Armed
  <2>3. to \notin {"report", "clean", "lastLook", "lastScan"}  BY <1>1
  <2> QED BY <1>1, <1>5, <1>7, <2>1, <2>2, <2>3, ReaperHook DEF Reaping
<1> QED BY <1>6, <1>7

LEMMA ReapingDog ==
  ASSUME TypeOK, Own, Closing, Reaping, DogStep
  PROVE  Reaping'
<1> USE DEF rest, reaperVars, callVars, commVars, ownVars, Stay, DogStays, Dog
<1>t. "dog" \in Threads /\ "dog" \notin Users /\ "dog" # "exit"
  BY DogAndExit, WatchTeardownAssumption
<1>1. PICK from \in {"idle", "claim"} \cup DogPcs, to \in {"idle", "done", "claim"} \cup DogPcs :
        Step("dog", from, to)
  BY DEF DogStep, DogWakes, DogHost, DogNoHost, DogSkip, DogLook, DogPoll, DogNoPoll, DogQuery,
         DogUnpoll, DogAsync, DogUnwatch, DogTimeout, DogNext, DogRound, DogFail, FailExit,
         OnReport, DogPcs
<1>2. UNCHANGED <<retained, byCall, call>> /\ reaper'["exit"] = reaper["exit"]
  <2>1. CASE UNCHANGED <<retained, byCall, call, reaper>>  BY <2>1
  <2>2. CASE Arm("dog") /\ OnlyReaper /\ UNCHANGED call
    BY <2>2, <1>t DEF Arm, OnlyReaper, Set, TypeOK
  <2> QED BY <2>1, <2>2
      DEF DogStep, DogWakes, DogHost, DogNoHost, DogSkip, DogLook, DogPoll, DogNoPoll, DogQuery,
          DogUnpoll, DogAsync, DogUnwatch, DogTimeout, DogNext, DogRound, DogFail, FailExit, Exit
<1>3. \A u \in Threads : u # "dog" => job'[u] = job[u] /\ at'[u] = at[u]
  <2>1. CASE UNCHANGED <<at, job>>  BY <2>1
  <2>2. CASE Loop("dog", "fail")  BY <2>2 DEF Loop, Set, TypeOK
  <2>3. CASE (Onward("dog") \/ at' = Set(at, "dog", 1)) /\ UNCHANGED job
    BY <2>3 DEF Onward, Set, TypeOK
  <2> QED BY <2>1, <2>2, <2>3
      DEF DogStep, DogWakes, DogHost, DogNoHost, DogSkip, DogLook, DogPoll, DogNoPoll, DogQuery,
          DogUnpoll, DogAsync, DogUnwatch, DogTimeout, DogNext, DogRound, DogFail, FailExit, Exit
<1>4. \A c \in Comms : tstate'[c] = "CLAIMED" => tstate[c] = "CLAIMED"
  <2>1. CASE UNCHANGED tstate  BY <2>1
  <2>2. CASE DogPoll \/ DogUnpoll  BY <2>2 DEF DogPoll, DogUnpoll, Set, TypeOK
  <2> QED BY <2>1, <2>2
      DEF DogStep, DogWakes, DogHost, DogNoHost, DogSkip, DogLook, DogNoPoll, DogQuery,
          DogAsync, DogUnwatch, DogTimeout, DogNext, DogRound, DogFail, FailExit, Exit
<1>5. from \notin OwnPcs \cup {"incoll", "done"}  BY DEF OwnPcs, DogPcs
<1>6. Held'  BY <1>t, <1>1, <1>2, <1>3, <1>4, <1>5, HeldStill DEF Reaping
<1>7. job'["exit"] = job["exit"]  BY <1>3, <1>t, DogAndExit
<1> QED BY <1>t, <1>1, <1>2, <1>5, <1>6, <1>7, ReaperAside DEF Reaping

LEMMA ReapingHook ==
  ASSUME TypeOK, Own, Closing, Reaping, HookStep
  PROVE  Reaping'
<1> USE DEF rest, reaperVars, callVars, commVars, ownVars, Stay, HookStays, Hook, OnlyPy, OnlyReaper
<1>t. "exit" \in Threads /\ "exit" \notin Users /\ "dog" \in Threads /\ "dog" # "exit"
  BY DogAndExit, WatchTeardownAssumption
<1>1. PICK from \in {"idle", "claim", "joined"} \cup ExitPcs,
           to \in {"done", "claim", "stop"} \cup ExitPcs : Step("exit", from, to)
  <2>1. CASE ExitCleanup \/ ExitReport \/ ExitAbort
    BY <2>1 DEF ExitCleanup, ExitReport, ExitAbort, ArmExit, ExitPcs
  <2> QED BY <2>1 DEF HookStep, HookPick, HookEnter, ExitGrace, ExitLook, ExitNoReaper,
          CancelRetain, CancelLook, CancelScan, HookLeave, FailExit, ExitPcs
<1>p. /\ pc["exit"] = from /\ pc'["exit"] = to /\ pc'["dog"] = pc["dog"]
      /\ \A u \in Threads : u # "exit" => pc'[u] = pc[u]
  BY <1>1, <1>t DEF Step, Set, TypeOK
<1>2. UNCHANGED <<tstate, call>>
  BY DEF HookStep, HookPick, HookEnter, ExitGrace, ExitLook, ExitCleanup, ExitReport,
         ExitNoReaper, ExitAbort, ArmExit, CancelRetain, CancelLook, CancelScan, HookLeave,
         FailExit, Exit
<1>3. \A u \in Threads : u # "exit" => at'[u] = at[u] /\ job'[u] = job[u]
  <2>1. CASE UNCHANGED <<at, job>>  BY <2>1
  <2>4. ASSUME NEW j, UNCHANGED at, job' = Set(job, "exit", j) PROVE <1>3
    BY <2>4 DEF Set, TypeOK
  <2>2. ASSUME NEW j, Loop("exit", j) PROVE <1>3
    BY <2>2 DEF Loop, Set, TypeOK
  <2>3. CASE ExitCleanup \/ ExitReport \/ ExitAbort
    BY <2>1, <2>2, <2>3 DEF ExitCleanup, ExitReport, ExitAbort, ArmExit
  <2> QED BY <2>1, <2>3, <2>4
      DEF HookStep, HookPick, HookEnter, ExitGrace, ExitLook, ExitNoReaper, CancelRetain,
          CancelLook, CancelScan, HookLeave, FailExit, Exit
<1>4. from \notin OwnPcs \cup {"incoll"}  BY DEF OwnPcs, ExitPcs
<1>5. Held'  BY <1>t, <1>1, <1>2, <1>3, <1>4, HeldStill DEF Reaping
<1> DEFINE Timed == ReaperTimed' /\ ReaperKept'
<1> SUFFICES Timed  BY <1>5 DEF Reaping
<1>o. ASSUME from \notin {"claim", "lastLook", "lastScan", "leave", "done"} PROVE ~Armed
  BY <1>o, <1>p DEF Reaping, ReaperTimed, HookTears, HookOver, ExitPcs, LoopPcs
\* Before the reaper: nothing armed, and the watchdog joined before a teardown.
<1>6. ASSUME UNCHANGED <<reaper, retained>>,
             from \notin {"claim", "lastLook", "lastScan", "leave", "done"},
             to \notin LoopPcs \cup {"lastLook", "lastScan"},
             to \in {"report", "clean"} => pc["dog"] = "done"
      PROVE  Timed
  <2>1. ~HookTears'  BY <1>6, <1>p DEF HookTears
  <2>2. ~(reaper'["exit"] = "armed")  BY <1>6, <1>o DEF Armed
  <2> QED BY <1>1, <1>6, <2>1, <2>2, ReaperHook DEF Reaping
<1>7. CASE HookPick \/ HookEnter \/ ExitGrace \/ ExitLook
  <2>1. CASE ExitLook
    <3>1. pc["exit"] = "joined"  BY <2>1, <1>p, <1>t DEF ExitLook, Step
    <3>2. pc["dog"] = "done"  BY <3>1, <1>t DEF Closing, Joined
    <3>3. to \in {"leave", "report", "clean"}
      BY <2>1, <1>p, <1>t DEF ExitLook, Step, Set, TypeOK
    <3>4. UNCHANGED <<reaper, retained>>  BY <2>1 DEF ExitLook
    <3> QED BY <1>6, <1>p, <3>1, <3>2, <3>3, <3>4 DEF LoopPcs
  <2>2. CASE HookPick \/ HookEnter \/ ExitGrace
    <3>1. /\ from \in {"idle", "enter", "grace"}
          /\ to \in {"enter", "done", "leave", "grace", "stop"}
          /\ UNCHANGED <<reaper, retained>>
      BY <2>2, <1>p, <1>t DEF HookPick, HookEnter, ExitGrace, Step, Set, TypeOK
    <3> QED BY <1>6, <3>1 DEF LoopPcs
  <2> QED BY <1>7, <2>1, <2>2
<1>8. ASSUME NEW at0 \in {"report", "clean"}, NEW j \in {"all", "fail", "cleanup"},
             ArmExit(at0, j)
      PROVE  Timed
  <2>1. from = at0  BY <1>8, <1>p, <1>t DEF ArmExit, Step
  <2>2. pc["dog"] = "done"  BY <2>1, <1>p DEF Reaping, ReaperTimed
  <2>3. CASE Hook(at0, "claim") /\ Arm("exit") /\ Loop("exit", j) /\ OnlyReaper
    <3>1. to = "claim" /\ job'["exit"] = j
      BY <2>3, <1>p, <1>t DEF Loop, Step, Set, TypeOK
    <3>2. HookTears'  BY <3>1, <1>p DEF HookTears, LoopPcs
    <3> QED BY <1>1, <2>2, <3>1, <3>2, ReaperHook DEF Reaping
  <2>4. CASE Hook(at0, "leave") /\ UNCHANGED rest
    <3>1. to = "leave"  BY <2>4, <1>p, <1>t DEF Step, Set, TypeOK
    <3> QED BY <1>6, <2>1, <2>4, <3>1 DEF LoopPcs
  <2> QED BY <1>8, <2>3, <2>4 DEF ArmExit
<1>9. CASE ExitCleanup \/ ExitReport \/ ExitAbort
  BY <1>8, <1>9 DEF ExitCleanup, ExitReport, ExitAbort, OnReport
<1>10. CASE ExitNoReaper
  <2>1. from = "report" /\ to = "report" /\ UNCHANGED <<reaper, retained>>
    BY <1>10, <1>p, <1>t DEF ExitNoReaper, Exit, Step, Set, TypeOK
  <2>2. pc["dog"] = "done"  BY <2>1, <1>p DEF Reaping, ReaperTimed
  <2> QED BY <1>6, <2>1, <2>2 DEF LoopPcs
<1>11. CASE FailExit("exit")
  <2>1. /\ from = "claim" /\ to = "claim" /\ UNCHANGED <<reaper, retained, job>>
        /\ job["exit"] = "fail"
    BY <1>11, <1>p, <1>t DEF FailExit, Exit, Step, Set, TypeOK
  <2>2. HookTears /\ HookTears'  BY <2>1, <1>p DEF HookTears, LoopPcs
  <2> QED BY <1>1, <2>1, <2>2, ReaperHook DEF Reaping, ReaperTimed
<1>12. CASE CancelRetain
  <2>1. /\ from = "claim" /\ to = "lastLook" /\ UNCHANGED <<reaper, job>> /\ retained'
        /\ job["exit"] \in {"all", "cleanup"}
    BY <1>12, <1>p, <1>t DEF CancelRetain, Step, Set, TypeOK
  <2>2. HookTears /\ HookTears'  BY <2>1, <1>p DEF HookTears, LoopPcs
  <2> QED BY <1>1, <2>1, <2>2, ReaperHook DEF Reaping, ReaperTimed
\* The looks: what is left armed is a user's to cancel, or a call's.
<1>13. ASSUME from \in {"lastLook", "lastScan", "leave"}, to \in {"lastScan", "leave", "done"},
              to = "lastScan" => from = "lastLook", UNCHANGED retained,
              reaper'["exit"] \in {reaper["exit"], "cancelled"},
              to # "lastScan" /\ Armed' => byCall' \/ \E u \in Users : Releasing(u)
       PROVE  Timed
  <2>1. Armed' => Armed /\ pc["dog"] = "done" /\ retained
    BY <1>13, <1>p DEF Armed, Reaping, ReaperTimed, HookTears, LoopPcs
  <2>2. to = "lastScan" => retained /\ pc["dog"] = "done"
    BY <1>13, <1>p, <2>1 DEF Armed, Reaping, ReaperTimed, HookTears
  <2>3. HookTears' => to = "lastScan"
    BY <1>13, <1>p DEF HookTears, LoopPcs
  <2>4. ReaperTimed'
    BY <1>13, <1>p, <2>1, <2>2, <2>3 DEF ReaperTimed, HookTears, HookOver
  <2>5. \A u \in Users : Releasing(u)' = Releasing(u)
    BY <1>p, <1>t, DogAndExit DEF Releasing
  <2>6. ReaperKept'
    BY <1>13, <1>p, <2>5 DEF ReaperKept, HookOver
  <2> QED BY <2>4, <2>6
<1>14. CASE CancelLook
  <2>1. /\ from = "lastLook" /\ to = IF call = "none" THEN "lastScan" ELSE "leave"
        /\ byCall' = (call = "coll") /\ UNCHANGED <<reaper, retained>>
    BY <1>14, <1>p, <1>t DEF CancelLook, Step, Set, TypeOK
  <2>2. CASE call = "none"  BY <1>13, <2>1, <2>2
  <2>3. CASE call = "coll"  BY <1>13, <2>1, <2>3
  <2>4. CASE call = "abort"
    <3>1. ASSUME Armed' PROVE \E u \in Users : Releasing(u)
      <4>1. pc["dog"] = "done"  BY <2>1, <3>1 DEF Armed, Reaping, ReaperTimed
      <4>2. PICK u \in Threads : pc[u] = "calling"
        BY <2>4 DEF Reaping, Held, CallsHeld, Calling
      <4>3. u \in Users  BY <1>p, <2>1, <4>1, <4>2 DEF Threads
      <4> QED BY <4>2, <4>3 DEF Releasing, OwnPcs
    <3> QED BY <1>13, <2>1, <2>4, <3>1
  <2> QED BY <2>2, <2>3, <2>4 DEF TypeOK
<1>15. CASE CancelScan
  <2>1. /\ from = "lastScan" /\ to = "leave" /\ UNCHANGED <<retained, byCall>> /\ Cancel
    BY <1>15, <1>p, <1>t DEF CancelScan, Step, Set, TypeOK
  <2>2. /\ reaper'["exit"] \in {reaper["exit"], "cancelled"}
        /\ Armed' => Armed /\ AnyTearing
    BY <2>1 DEF Cancel, Armed, Set, TypeOK
  <2>3. ASSUME Armed' PROVE \E u \in Users : Releasing(u)
    <3>1. pc["dog"] = "done"  BY <2>2, <2>3 DEF Reaping, ReaperTimed
    <3>2. PICK u \in Threads : pc[u] \in OwnPcs
      BY <2>2, <2>3 DEF AnyTearing, Reaping, Held, ClaimsOwned, Owner
    <3>3. u \in Users  BY <1>p, <2>1, <3>1, <3>2 DEF OwnPcs, Threads
    <3> QED BY <3>2, <3>3 DEF Releasing
  <2> QED BY <1>13, <2>1, <2>2, <2>3
<1>16. CASE HookLeave
  <2>1. from = "leave" /\ to = "done" /\ UNCHANGED <<reaper, retained, byCall>>
    BY <1>16, <1>p, <1>t DEF HookLeave, Step, Set, TypeOK
  <2>2. Armed' => byCall' \/ \E u \in Users : Releasing(u)
    BY <1>p, <2>1 DEF Armed, HookOver, Reaping, ReaperKept
  <2> QED BY <1>13, <2>1, <2>2
<1> QED BY <1>7, <1>9, <1>10, <1>11, <1>12, <1>14, <1>15, <1>16 DEF HookStep

LEMMA ReapingSame ==
  ASSUME Reaping, UNCHANGED <<tstate, call, reaper, retained, byCall, pc, at, job>>
  PROVE  Reaping'
  BY DEF Reaping, Held, CallsHeld, ClaimsOwned, Calling, Marking, Owner, ReaperTimed, ReaperKept,
         Releasing,
         Armed, HookTears, HookOver

LEMMA ReapingStep == TypeOK /\ Own /\ Closing /\ Reaping /\ [Next]_vars => Reaping'
<1> SUFFICES ASSUME TypeOK, Own, Closing, Reaping, [Next]_vars PROVE Reaping'
  OBVIOUS
<1> USE DEF rest, reaperVars, callVars, commVars, ownVars
<1>1. CASE UNCHANGED vars
  BY <1>1, ReapingSame DEF vars
<1>2. ASSUME NEW c \in Comms, Break(c) \/ Complete(c) PROVE Reaping'
  BY <1>2, ReapingSame DEF Break, Complete, Env
<1>3. ASSUME NEW x, ReaperFires(x) PROVE Reaping'
  BY <1>3, ReapingSame DEF ReaperFires
<1> QED BY <1>1, <1>2, <1>3, ReapingUser, ReapingClose, ReapingLoop, ReapingDog, ReapingHook
        DEF Next

-----------------------------------------------------------------------------
(* The theorems.                                                            *)

LEMMA Invariance == Spec => [](IInv /\ Closing /\ Tearing /\ Reaping)
<1> DEFINE Inv == IInv /\ Closing /\ Tearing /\ Reaping
<1>1. Init => Inv
  BY TypeInit, OwnInit, ClosingInit, TearingInit, ReapingInit DEF IInv
<1>2. Inv /\ [Next]_vars => Inv'
  <2> SUFFICES ASSUME Inv, [Next]_vars PROVE Inv'
    OBVIOUS
  <2>1. TypeOK /\ Own /\ AtComm  BY DEF IInv, Own
  <2> QED BY <2>1, TypeStep, OwnStep, ClosingStep, TearingStep, ReapingStep DEF IInv
<1> QED BY <1>1, <1>2, PTL DEF Spec

\* Type correctness of the teardown, whatever the group and its threads.
THEOREM TypeCorrect == Spec => []TypeOK
<1>1. IInv => TypeOK  BY DEF IInv
<1> QED BY <1>1, Invariance, PTL

\* ncclCommAbort starts at most once on a communicator, whichever of abort(),
\* the destroy, the watchdog and the exit hook get to watch_claim.
THEOREM AbortedAtMostOnce == Spec => []TornOnce
<1>1. IInv => TornOnce  BY DEF IInv, Own
<1> QED BY <1>1, Invariance, PTL

\* _poll_async asks the library only about live communicators: the poll's
\* state keeps every claimer waiting.
THEOREM NeverQueriesTorn == Spec => []QueryOnLive
<1>1. IInv => QueryOnLive
  BY DogAndExit DEF IInv, Own, AtComm, PollHeld, UnclaimedLive, Untouched, QueryOnLive,
                    Claimed, CommPcs, PollPcs
<1> QED BY <1>1, Invariance, PTL

\* tmb_pg_destroy frees the watch only once nobody is in it: the watchdog has
\* been joined, the exit hook's calls waited for (or they are on the same
\* thread), and the mutex taken from every thread releasing a claim.
THEOREM NobodyInFreedWatch == Spec => []FreedUnused
<1>1. Closing => FreedUnused
  <2> SUFFICES ASSUME Closing, freed, NEW t \in Threads PROVE ~InWatch(t)
    BY DEF FreedUnused
  <2>1. /\ pc[t] \in {"idle", "done", "enter", "leave"}
        /\ t = "dog" => pc[t] = "done"
        /\ t = "exit" => pc[t] # "joined"
    BY DEF Closing, Quiet, HookOut, Threads
  <2>2. t # "exit" => pc[t] \in {"idle", "done"}
    BY DEF Closing, Quiet, Threads
  <2> QED BY <2>1, <2>2 DEF InWatch, LoopPcs, DogPcs, ExitPcs
<1> QED BY <1>1, Invariance, PTL

\* When the watch is freed every communicator is gone, those included whose claim
\* the destroy's loop lost to an abort(), to the watchdog or to the exit hook.
THEOREM DestroyLeavesNothing == Spec => []FreedAllTorn
<1>1. Tearing => FreedAllTorn  BY DEF Tearing
<1> QED BY <1>1, Invariance, PTL

\* _cancel_reaper and watch_release between them cancel the exit hook's reaper:
\* whichever looks last sees the other's cell or state.
THEOREM ReaperIsLetGo == Spec => []ReaperLetGo
<1>1. IInv /\ Reaping => ReaperLetGo
  <2> SUFFICES ASSUME IInv, Reaping, Armed, pc["exit"] = "done", ~AnyTearing,
                      \A t \in Users : pc[t] \notin {"look", "scan"}
               PROVE  byCall
    BY DEF ReaperLetGo, Armed
  <2>1. \A u \in Users : pc[u] \notin OwnPcs
    BY DogAndExit DEF IInv, Own, AtComm, OwnsClaim, AnyTearing, CommPcs
  <2> QED BY <2>1 DEF Reaping, ReaperKept, HookOver, Releasing
<1> QED BY <1>1, Invariance, PTL

\* No step takes a claim back: not the plain store of LIVE after a poll
\* (_poll_async), which the owner of a claim could otherwise lose it to.
THEOREM ClaimsAreKept == Spec => ClaimStands
<1> DEFINE Kept == \A c \in Comms : Claimed(c) => Claimed(c)'
<1>1. IInv /\ [Next]_vars => [Kept]_vars
  <2> SUFFICES ASSUME IInv, Next PROVE Kept
    BY DEF vars
  <2> USE DEF rest, commVars, ownVars, Claimed
  <2>t. TypeOK /\ Own  BY DEF IInv
  <2>0. ASSUME UNCHANGED tstate PROVE Kept
    BY <2>0
  <2>1. ASSUME NEW t \in Users, UserStep(t) PROVE Kept
    BY <2>0, <2>1 DEF UserStep, CollCall, CollReturn, AbortCall, AbortReturn
  <2>2. ASSUME NEW t, CloseStep(t) PROVE Kept
    BY <2>0, <2>2 DEF CloseStep, Shutdown, Close, Drained, DestroyTorn, Stop, Join, Free
  <2>3. ASSUME NEW t, LoopStep(t) \/ Aborted(t) PROVE Kept
    <3>1. CASE Claim(t)
      BY <3>1, <2>t DEF Claim, Set, TypeOK
    <3>2. CASE Release(t)
      BY <3>2, <2>t DEF Release, Set, TypeOK
    <3> QED BY <2>0, <2>3, <3>1, <3>2
            DEF LoopStep, Pass, ClaimLost, Abort, Aborted, LookOn, LookOff, Scan
  <2>4. CASE DogStep
    <3>1. CASE DogPoll
      BY <3>1, <2>t DEF DogPoll, Pollable, Set, TypeOK
    <3>2. CASE DogUnpoll
      <4>1. tstate[at["dog"]] = "POLLING"
        BY <3>2, <2>t DEF DogUnpoll, Dog, Step, Own, PollHeld, PollPcs
      <4> QED BY <3>2, <4>1, <2>t DEF DogUnpoll, Set, TypeOK
    <3> QED BY <2>0, <2>4, <3>1, <3>2
            DEF DogStep, DogWakes, DogHost, DogNoHost, DogSkip, DogLook, DogNoPoll,
                DogQuery, DogAsync, DogUnwatch, DogTimeout, DogNext, DogRound, DogFail,
                FailExit, Exit, DogStays
  <2>5. CASE HookStep
    BY <2>0, <2>5
    DEF HookStep, HookPick, HookEnter, ExitGrace, ExitLook, ExitCleanup, ExitReport,
        ExitNoReaper, ExitAbort, CancelRetain, CancelLook, CancelScan, HookLeave,
        FailExit, Exit, HookStays, OnlyPy
  <2>6. ASSUME NEW c \in Comms, Break(c) \/ Complete(c) PROVE Kept
    BY <2>0, <2>6 DEF Break, Complete, Env
  <2>7. ASSUME NEW x, ReaperFires(x) PROVE Kept
    BY <2>0, <2>7 DEF ReaperFires
  <2> QED BY <2>1, <2>2, <2>3, <2>4, <2>5, <2>6, <2>7 DEF Next
<1> QED BY <1>1, Invariance, PTL DEF Spec, ClaimStands
=============================================================================
