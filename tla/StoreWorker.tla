---------------------------- MODULE StoreWorker ----------------------------
(***************************************************************************)
(* distributed/store_worker.py: operations on a c10d store, each bounded   *)
(* by a deadline.  One caller (the desync reporter or the flight           *)
(* recorder's monitor) hands jobs to a thread through a queue of its own   *)
(* and waits on an event.  A job that overruns is abandoned: its thread    *)
(* ends once the operation returns, and the next job starts a new thread   *)
(* with a new queue.                                                       *)
(*                                                                         *)
(* A job is numbered by the call of run() that made it, a thread by the    *)
(* job it was started for.  What a job does at the store is left to the    *)
(* module that extends this one; here its operation returns at any time,   *)
(* or never, with a value or an error.                                     *)
(***************************************************************************)
EXTENDS Integers, Sequences, FiniteSets

CONSTANTS
  MaxJobs,   \* bound: calls of run() that put a job
  MaxGen,    \* bound: index generations
  Values,    \* what a job may return
  Limits     \* max_abandoned of the worker; 0 stands for None

ASSUME WorkerAssumption ==
  /\ MaxJobs \in Nat /\ MaxGen \in Nat
  /\ Limits \subseteq Nat
  /\ Values \cap {"none", "refused", "error", "empty"} = {}

Jobs == 1..MaxJobs
Threads == Jobs
Stop == 0                         \* the None that ends a thread

VARIABLES
  limit,      \* _max_abandoned
  pc,         \* the caller inside run(): "idle", "waiting", "overrun"
  job,        \* the newest job
  cur,        \* the thread behind _jobs; 0 when _jobs is None
  ret,        \* what the last run() returned; None is "refused" when no job
              \* was put, else "none"
  st,         \* per thread: "unborn", "get", "run", "ran", "dead"
  q,          \* per thread: its queue
  has,        \* per thread: the job it took last
  abandoned,  \* per thread: its _abandoned event
  done,       \* per job: its event
  box,        \* per job: the result, "empty" until there is one
  tag,        \* per job: its index generation, 0 for None
  latest,     \* generations below this one are dropped unrun
  stuck       \* _stuck

workerVars == <<limit, pc, job, cur, ret, st, q, has, abandoned, done, box,
                tag, latest, stuck>>

WorkerInit ==
  /\ limit \in Limits
  /\ pc = "idle" /\ job = 0 /\ cur = 0 /\ ret = "none"
  /\ st = [t \in Threads |-> "unborn"]
  /\ q = [t \in Threads |-> <<>>]
  /\ has = [t \in Threads |-> 0]
  /\ abandoned = [t \in Threads |-> FALSE]
  /\ done = [j \in Jobs |-> FALSE]
  /\ box = [j \in Jobs |-> "empty"]
  /\ tag = [j \in Jobs |-> 0]
  /\ latest = 0
  /\ stuck = 0

TooManyStuck == limit # 0 /\ stuck >= limit

(* run() with as many abandoned jobs still blocked as the worker allows.   *)
RunRefused ==
  /\ pc = "idle" /\ TooManyStuck
  /\ ret' = "refused"
  /\ UNCHANGED <<limit, pc, job, cur, st, q, has, abandoned, done, box, tag,
                 stuck>>

(* run(): a thread of its own unless one waits for jobs, then the job.     *)
Run(g) ==
  LET j == job + 1
      t == IF cur = 0 THEN j ELSE cur
  IN /\ pc = "idle" /\ ~TooManyStuck /\ job < MaxJobs
     /\ job' = j /\ cur' = t
     /\ st' = [st EXCEPT ![t] = IF cur = 0 THEN "get" ELSE @]
     /\ q' = [q EXCEPT ![t] = Append(@, j)]
     /\ tag' = [tag EXCEPT ![j] = g]
     /\ pc' = "waiting"
     /\ UNCHANGED <<limit, ret, has, abandoned, done, box, stuck>>

(* What run() returns once the event is set; an error is not raised.       *)
Unboxed == IF box[job] \in Values THEN box[job] ELSE "none"

Answered ==
  /\ pc = "waiting" /\ done[job]
  /\ ret' = Unboxed /\ pc' = "idle"
  /\ UNCHANGED <<limit, job, cur, st, q, has, abandoned, done, box, tag,
                 latest, stuck>>

Bug_TimesOut == FALSE

(* done.wait() ran out of time; the job may still end before the lock.     *)
TimesOut ==
  /\ pc = "waiting" /\ ~done[job]
  /\ pc' = "overrun"
  /\ UNCHANGED <<limit, job, cur, ret, st, q, has, abandoned, done, box, tag,
                 latest, stuck>>

(* close(): the thread in use will find the None behind its last job.      *)
Closed == IF cur = 0 THEN q ELSE [q EXCEPT ![cur] = Append(@, Stop)]

Bug_Overran == TRUE

Overran == ~done[job]

(* Under the lock: whether the job overran, and then its abandonment; the  *)
(* close that follows touches nothing but the caller's own fields and the  *)
(* queue of a thread that never reads it again.                            *)
Settle ==
  /\ pc = "overrun" /\ pc' = "idle"
  /\ \/ /\ Overran
        /\ stuck' = stuck + 1
        /\ abandoned' = [abandoned EXCEPT ![cur] = TRUE]
        /\ q' = Closed /\ cur' = 0
        /\ ret' = "none"
     \/ /\ ~Overran
        /\ ret' = Unboxed
        /\ UNCHANGED <<stuck, abandoned, q, cur>>
  /\ UNCHANGED <<limit, job, st, has, done, box, tag, latest>>

(* close() by the owner, between two calls.                                *)
Close ==
  /\ pc = "idle" /\ cur # 0
  /\ q' = Closed /\ cur' = 0
  /\ UNCHANGED <<limit, pc, job, ret, st, has, abandoned, done, box, tag,
                 latest, stuck>>

(* _serve: the next item; None ends the thread, a job whose generation is  *)
(* no longer the latest is answered without being run.                     *)
TakeStop(t) ==
  /\ st[t] = "get" /\ q[t] # <<>> /\ Head(q[t]) = Stop
  /\ st' = [st EXCEPT ![t] = "dead"]
  /\ q' = [q EXCEPT ![t] = Tail(@)]
  /\ UNCHANGED <<limit, pc, job, cur, ret, has, abandoned, done, box, tag,
                 latest, stuck>>

Stale(j) == tag[j] # 0 /\ tag[j] < latest

TakeJob(t) ==
  LET j == Head(q[t])
  IN /\ st[t] = "get" /\ q[t] # <<>> /\ j # Stop
     /\ has' = [has EXCEPT ![t] = j]
     /\ q' = [q EXCEPT ![t] = Tail(@)]
     /\ \/ /\ Stale(j)
           /\ st' = [st EXCEPT ![t] = "ran"]
           /\ box' = [box EXCEPT ![j] = "none"]
        \/ /\ ~Stale(j)
           /\ st' = [st EXCEPT ![t] = "run"]
           /\ UNCHANGED box
     /\ UNCHANGED <<limit, pc, job, cur, ret, abandoned, done, tag, latest,
                    stuck>>

(* The job's operation returned, or raised.                                *)
OpReturns(t, r) ==
  /\ st[t] = "run"
  /\ st' = [st EXCEPT ![t] = "ran"]
  /\ box' = [box EXCEPT ![has[t]] = r]
  /\ UNCHANGED <<limit, pc, job, cur, ret, q, has, abandoned, done, tag,
                 latest, stuck>>

(* Under the lock: the event, and the end of a thread given up meanwhile.  *)
Leave(t) ==
  /\ st[t] = "ran"
  /\ done' = [done EXCEPT ![has[t]] = TRUE]
  /\ \/ /\ abandoned[t]
        /\ stuck' = stuck - 1
        /\ st' = [st EXCEPT ![t] = "dead"]
     \/ /\ ~abandoned[t]
        /\ st' = [st EXCEPT ![t] = "get"]
        /\ UNCHANGED stuck
  /\ UNCHANGED <<limit, pc, job, cur, ret, q, has, abandoned, box, tag, latest>>

(* The owner moves the index generation on.                                *)
NewGen ==
  /\ pc = "idle" /\ latest < MaxGen
  /\ latest' = latest + 1
  /\ UNCHANGED <<limit, pc, job, cur, ret, st, q, has, abandoned, done, box,
                 tag, stuck>>

Next ==
  \/ RunRefused /\ UNCHANGED latest
  \/ Answered \/ TimesOut \/ Settle \/ Close \/ NewGen
  \/ \E g \in {0, latest} : Run(g) /\ UNCHANGED latest
  \/ \E t \in Threads :
       \/ TakeStop(t) \/ TakeJob(t) \/ Leave(t)
       \/ \E r \in Values \cup {"error"} : OpReturns(t, r)

Spec == WorkerInit /\ [][Next]_workerVars

----------------------------------------------------------------------------
(* The threads whose caller gave up and whose operation has not returned.  *)
Blocked == {t \in Threads : abandoned[t] /\ st[t] # "dead"}

Calls == INSTANCE BoundedCalls
           WITH calling <- pc # "idle", late <- Blocked

(* The worker keeps the promise of BoundedCalls: in particular a call is   *)
(* refused exactly while as many threads block as _max_abandoned allows,   *)
(* which needs _stuck to count them through the race between a deadline    *)
(* and an answer that arrives at the same moment.                          *)
CallsBounded == Calls!Spec
=============================================================================
