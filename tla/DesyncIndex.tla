---------------------------- MODULE DesyncIndex ----------------------------
(***************************************************************************)
(* The desync reporter of distributed/process_group.py on top of its store *)
(* worker: one rank publishes its stuck collectives as records, and an     *)
(* index that names the active ones and is rewritten, never deleted.  The  *)
(* writes of abandoned jobs, and one write left over by the same rank's    *)
(* reporter of an earlier incarnation of the group, land at any time.      *)
(***************************************************************************)
EXTENDS StoreWorker

CONSTANTS
  Comms,          \* communicators ("tid") of the group
  MaxIncidents,   \* bound: incident lines
  Tries,          \* rounds of the compare_set loop (8 in the code)
  MaxErrors       \* bound: operations that raise

Stray == 0                    \* the leftover write of the earlier incarnation
Writers == Threads \cup {Stray}
OldRecord == 0
StrayGen == 2                 \* its generation, and
Clock == 3                    \* the clock when this incarnation starts

VARIABLES
  rp,         \* the reporter: "ready", in a call, "closing" or "ended"
  incident,   \* incidents so far; an incident's record is named by its number
  active,     \* published: communicator -> its active record, or 0
  work,       \* per job: what its closure captured
  index,      \* the rank's index in the store; gen = 0: no such key
  records,    \* the records in the store
  at,         \* per writer: where its operation is
  seen,       \* per writer: the index it read
  tries,      \* per writer: failed rounds of its loop
  errs        \* operations that raised so far

desyncVars == <<rp, incident, active, work, index, records, at, seen, tries,
                errs>>
vars == <<workerVars, desyncVars>>
storeVars == <<index, records, at, seen, tries, errs>>

NoIndex == [gen |-> 0, names |-> {}]
NoWork == [kind |-> "none", name |-> 0, names |-> {}]
Names == 0..MaxIncidents

Init ==
  /\ WorkerInit
  /\ rp = "ready" /\ incident = 0
  /\ active = [c \in Comms |-> 0]
  /\ work = [j \in Jobs |-> NoWork]
  /\ records = {OldRecord}
  /\ \E left \in {"read", "end"} :
       at = [w \in Writers |-> IF w = Stray THEN left ELSE "start"]
  /\ index \in {NoIndex, [gen |-> StrayGen - 1, names |-> {OldRecord}]}
  /\ seen = [w \in Writers |-> NoIndex]
  /\ tries = [w \in Writers |-> 0]
  /\ errs = 0

----------------------------------------------------------------------------
(* The reporter's side.                                                    *)

Bug_NextGen == latest + 1

(* gen = max(gen + 1, time.time_ns()): above every generation of an        *)
(* earlier incarnation.                                                    *)
NextGen == IF latest + 1 > Clock THEN latest + 1 ELSE Clock

Listed(a) == {a[c] : c \in Comms} \ {0}

(* next_gen() moves worker.latest, then run() is called with the new       *)
(* generation; a worker at its limit does not start the job.               *)
CallIndexed(kind, name, a) ==
  /\ NextGen <= MaxGen /\ latest' = NextGen
  /\ \/ /\ Run(NextGen)
        /\ work' = [work EXCEPT ![job + 1] =
                      [kind |-> kind, name |-> name, names |-> Listed(a)]]
     \/ RunRefused /\ UNCHANGED work
  /\ active' = a

(* An incident line: _report_desync names the record and calls publish.    *)
Incident(c) ==
  /\ rp = "ready" /\ incident < MaxIncidents /\ job + 2 <= MaxJobs
  /\ incident' = incident + 1
  /\ CallIndexed("publish", incident + 1,
                 [active EXCEPT ![c] = incident + 1])
  /\ rp' = "publish"
  /\ UNCHANGED storeVars

(* Its second call reads the other ranks' records, once the first one      *)
(* answered True; either way the incident is then acknowledged.            *)
Collect ==
  /\ rp = "publish" /\ pc = "idle" /\ ret = "true"
  /\ \/ Run(0) /\ work' = [work EXCEPT ![job + 1].kind = "collect"]
     \/ RunRefused /\ UNCHANGED work
  /\ rp' = "collect"
  /\ UNCHANGED <<latest, incident, active, storeVars>>

Acknowledge ==
  /\ pc = "idle"
  /\ \/ rp = "publish" /\ ret # "true"
     \/ rp \in {"collect", "rewrite"}
  /\ rp' = "ready"
  /\ UNCHANGED <<workerVars, incident, active, work, storeVars>>

(* A resolved line of a communicator with a published record.              *)
Resolved(c) ==
  /\ rp = "ready" /\ active[c] # 0
  /\ CallIndexed("rewrite", 0, [active EXCEPT ![c] = 0])
  /\ rp' = "rewrite"
  /\ UNCHANGED <<incident, storeVars>>

(* The group closed the pipe: the index is emptied, the worker closed.     *)
EndOfPipe ==
  /\ rp = "ready"
  /\ \/ /\ Listed(active) # {}
        /\ CallIndexed("rewrite", 0, [c \in Comms |-> 0])
        /\ rp' = "last"
     \/ /\ Listed(active) = {}
        /\ rp' = "closing"
        /\ UNCHANGED <<workerVars, active, work>>
  /\ UNCHANGED <<incident, storeVars>>

CloseWorker ==
  /\ pc = "idle" /\ rp \in {"last", "closing"}
  /\ rp' = "ended"
  /\ IF cur = 0 THEN UNCHANGED workerVars ELSE Close
  /\ UNCHANGED <<incident, active, work, storeVars>>

Waiting ==
  /\ Answered \/ TimesOut \/ Settle
  /\ UNCHANGED desyncVars

----------------------------------------------------------------------------
(* The store's side: a job's operations, one at a time.                    *)

Kind(t) == work[has[t]].kind
GenOf(w) == IF w = Stray THEN StrayGen ELSE tag[has[w]]
NewIndex(w) ==
  IF w = Stray THEN [gen |-> StrayGen, names |-> {OldRecord}]
               ELSE [gen |-> tag[has[w]], names |-> work[has[w]].names]

Busy(w, step) ==
  at[w] = step /\ IF w = Stray THEN TRUE ELSE st[w] = "run"

(* The writer's operation returns r; the stray one has no worker left.     *)
Ends(w, r) ==
  /\ at' = [at EXCEPT ![w] = IF w = Stray THEN "end" ELSE "start"]
  /\ tries' = [tries EXCEPT ![w] = 0]
  /\ IF w = Stray THEN UNCHANGED workerVars ELSE OpReturns(w, r)

(* publish: client.set(name, line).                                        *)
SetRecord(t) ==
  /\ Busy(t, "start") /\ Kind(t) = "publish"
  /\ records' = records \cup {work[has[t]].name}
  /\ at' = [at EXCEPT ![t] = "read"]
  /\ UNCHANGED <<workerVars, rp, incident, active, work, index, seen, tries,
                 errs>>

Bug_Superseded(current, g) == FALSE

(* current and int(current.split()[0]) >= gen                              *)
Superseded(current, g) == current # NoIndex /\ current.gen >= g

(* _set_index: check and get.                                              *)
ReadIndex(w) ==
  /\ \/ Busy(w, "read")
     \/ w # Stray /\ Busy(w, "start") /\ Kind(w) = "rewrite"
  /\ \/ /\ Superseded(index, GenOf(w))
        /\ Ends(w, "true")
        /\ UNCHANGED seen
     \/ /\ ~Superseded(index, GenOf(w))
        /\ seen' = [seen EXCEPT ![w] = index]
        /\ at' = [at EXCEPT ![w] = "cas"]
        /\ UNCHANGED <<workerVars, tries>>
  /\ UNCHANGED <<rp, incident, active, work, index, records, errs>>

(* What compare_set compares on the server.                                *)
Unchanged(w) == index = seen[w]

(* _set_index: compare_set, and another round when it lost.                *)
SwapIndex(w) ==
  /\ Busy(w, "cas")
  /\ \/ /\ Unchanged(w)
        /\ index' = NewIndex(w)
        /\ Ends(w, "true")
     \/ /\ ~Unchanged(w) /\ tries[w] + 1 < Tries
        /\ tries' = [tries EXCEPT ![w] = @ + 1]
        /\ at' = [at EXCEPT ![w] = "read"]
        /\ UNCHANGED <<workerVars, index>>
     \/ /\ ~Unchanged(w) /\ tries[w] + 1 >= Tries
        /\ Ends(w, "false")
        /\ UNCHANGED index
  /\ UNCHANGED <<rp, incident, active, work, records, seen, errs>>

(* The swap that is made, while its caller is told of an error.             *)
SwapUnanswered(t) ==
  /\ Busy(t, "cas") /\ Unchanged(t) /\ errs < MaxErrors
  /\ errs' = errs + 1
  /\ index' = NewIndex(t)
  /\ Ends(t, "error")
  /\ UNCHANGED <<rp, incident, active, work, records, seen>>

(* _collect: the indexes, then every record they name; multi_get waits for *)
(* keys that are not there.                                                *)
CollectIndex(t) ==
  /\ Busy(t, "start") /\ Kind(t) = "collect"
  /\ seen' = [seen EXCEPT ![t] = index]
  /\ at' = [at EXCEPT ![t] = "records"]
  /\ UNCHANGED <<workerVars, rp, incident, active, work, index, records,
                 tries, errs>>

CollectRecords(t) ==
  /\ Busy(t, "records") /\ seen[t].names \subseteq records
  /\ Ends(t, "true")
  /\ UNCHANGED <<rp, incident, active, work, index, records, seen, errs>>

Raises(t) ==
  /\ st[t] = "run" /\ errs < MaxErrors
  /\ errs' = errs + 1
  /\ Ends(t, "error")
  /\ UNCHANGED <<rp, incident, active, work, index, records, seen>>

Serving ==
  /\ \E t \in Threads : TakeStop(t) \/ TakeJob(t) \/ Leave(t)
  /\ UNCHANGED desyncVars

Reporter ==
  \/ \E c \in Comms : Incident(c) \/ Resolved(c)
  \/ Collect \/ Acknowledge \/ EndOfPipe \/ CloseWorker
  \/ Waiting

StoreSide ==
  \/ Serving
  \/ \E w \in Writers : ReadIndex(w) \/ SwapIndex(w)
  \/ \E t \in Threads :
       SetRecord(t) \/ CollectIndex(t) \/ CollectRecords(t) \/ Raises(t)
       \/ SwapUnanswered(t)

DesyncNext == Reporter \/ StoreSide

DesyncSpec == Init /\ [][DesyncNext]_vars

(* The reporter's thread runs and its deadlines pass; the store, and the   *)
(* threads blocked on it, owe nothing.                                     *)
Progress == Waiting \/ Collect \/ Acknowledge \/ CloseWorker
FairDesync == DesyncSpec /\ WF_vars(Progress)

----------------------------------------------------------------------------
(* _set_index, "a write that lands late never rolls a newer index back":   *)
(* whatever abandoned jobs and the earlier incarnation still write, the    *)
(* index only ever moves to a newer generation.                            *)
IndexForward == [][index'.gen > index.gen]_index

(* A group that ended and was told its last rewrite went through leaves    *)
(* no active incident behind, whatever lands afterwards.                   *)
EndedMeansEmpty == rp = "ended" /\ ret = "true" => index.names = {}

(* The watchdog waits for the acknowledgement of its incident before it    *)
(* aborts: the reporter gets there whatever the store does.                *)
IncidentAcked == rp \in {"publish", "collect"} ~> rp = "ready"
=============================================================================
