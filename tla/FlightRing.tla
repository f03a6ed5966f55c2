------------------------------ MODULE FlightRing ------------------------------
(***************************************************************************)
(* The flight recorder's ring (mojo/tmb/backend/flight_recorder.mojo).     *)
(*                                                                         *)
(* The producer (under the backend mutex) records entries and marks        *)
(* earlier ones untracked or linked; stampers (the watchdog thread, a      *)
(* thread draining the queue) stamp them done; the dump copies the ring    *)
(* without a lock.  A slot's version is its lock (odd while held) and its  *)
(* seqlock.  fork() may happen at any point: the child keeps the words and *)
(* loses every thread but the one that forked.                             *)
(*                                                                         *)
(* Every word of a slot is written and read in a step of its own.  A word  *)
(* stands here for the entry it describes: its record id + 1, 0 if none.   *)
(***************************************************************************)
EXTENDS Integers, Sequences

CONSTANTS
  Size,      \* H_SIZE
  Stampers,  \* threads that call fr_done
  MaxRec,    \* bound: entries recorded in a behaviour
  MaxCalls   \* bound: calls that mark or stamp an entry

ASSUME FlightRingAssumption == /\ Size \in Nat \ {0}
                               /\ MaxRec \in Nat /\ MaxCalls \in Nat
                               /\ "prod" \notin Stampers

VARIABLES
  ring,     \* the slots
  next,     \* H_NEXT
  pc, rid,  \* each writer's step, and the entry (record id + 1) it works on
  rpc,      \* the dump's step
  cursor, upto,  \* its loop over record ids
  copy,     \* the words it copied of the current slot
  out,      \* the entries it kept
  forked,   \* is this the child of a fork?
  calls,    \* history: marking and stamping calls made
  finished  \* history: entries whose fr_done call returned

writerVars == <<pc, rid>>
readerVars == <<rpc, cursor, upto, copy, out>>
vars == <<ring, next, writerVars, readerVars, forked, calls, finished>>

Writers == Stampers \cup {"prod"}
Slots   == 0..(Size - 1)

\* _slot: record id r lives in slot r % size; entry e is record id e - 1.
SlotOf(e) == (e - 1) % Size

\* F_VER; F_ID; the words describing the call (F_PG to F_COMM, one word
\* here); F_DONE, as <<entry, stamper>>; FL_UNTRACKED and F_LINK, one word.
NoStamp == <<0, "prod">>
EmptySlot == [ver |-> 0, id |-> 0, body |-> 0, done |-> NoStamp, mark |-> 0]

Init ==
  /\ ring = [s \in Slots |-> EmptySlot] /\ next = 0
  /\ pc = [t \in Writers |-> "idle"] /\ rid = [t \in Writers |-> 1]
  /\ rpc = "idle" /\ cursor = 0 /\ upto = 0 /\ copy = EmptySlot /\ out = <<>>
  /\ forked = FALSE /\ calls = 0 /\ finished = {}

-----------------------------------------------------------------------------
Step(t, from, to) == pc[t] = from /\ pc' = [pc EXCEPT ![t] = to]
Mine(t) == ring[SlotOf(rid[t])]
SetMine(t, f, v) == ring' = [ring EXCEPT ![SlotOf(rid[t])][f] = v]
OnlyWriter == UNCHANGED <<next, rid, readerVars, forked, calls, finished>>

Held(slot) == slot.ver % 2 = 1

\* _lock: the version moves from even to odd by compare-exchange.
Lock(t) ==
  /\ \/ Step(t, "recLock", "recId")
     \/ Step(t, "markLock", "markTest")
     \/ Step(t, "lock", "test")
  /\ ~Held(Mine(t))
  /\ SetMine(t, "ver", Mine(t).ver + 1)
  /\ OnlyWriter

\* The release: the next even version.  A recording then publishes H_NEXT.
Unlock(t) ==
  /\ \/ Step(t, "recUnlock", "recPublish") /\ finished' = finished
     \/ Step(t, "markUnlock", "idle") /\ finished' = finished
     \/ Step(t, "unlock", "idle") /\ finished' = finished \cup {rid[t]}
  /\ SetMine(t, "ver", Mine(t).ver + 1)
  /\ UNCHANGED <<next, rid, readerVars, forked, calls>>

-----------------------------------------------------------------------------
(* The producer: _record ...                                               *)

RecStart ==
  /\ Step("prod", "idle", "recLock")
  /\ next < MaxRec
  /\ rid' = [rid EXCEPT !["prod"] = next + 1]
  /\ UNCHANGED <<ring, next, readerVars, forked, calls, finished>>

RecId ==
  /\ Step("prod", "recId", "recBody")
  /\ SetMine("prod", "id", rid["prod"])
  /\ OnlyWriter

RecBody ==
  /\ Step("prod", "recBody", "recDone")
  /\ SetMine("prod", "body", rid["prod"])
  /\ OnlyWriter

\* Mutant: F_DONE keeps the slot's previous stamp.
Bug_RecDone ==
  /\ Step("prod", "recDone", "recMark")
  /\ UNCHANGED ring /\ OnlyWriter


RecDone ==
  /\ Step("prod", "recDone", "recMark")
  /\ SetMine("prod", "done", NoStamp)
  /\ OnlyWriter

RecMark ==
  /\ Step("prod", "recMark", "recUnlock")
  /\ SetMine("prod", "mark", 0)
  /\ OnlyWriter

RecPublish ==
  /\ Step("prod", "recPublish", "idle")
  /\ next' = next + 1
  /\ UNCHANGED <<ring, rid, readerVars, forked, calls, finished>>

\* ... fr_untracked and fr_link: the id is checked under the lock.
MarkStart(e) ==
  /\ calls < MaxCalls /\ calls' = calls + 1
  /\ Step("prod", "idle", "markLock")
  /\ rid' = [rid EXCEPT !["prod"] = e]
  /\ UNCHANGED <<ring, next, readerVars, forked, finished>>

\* Mutant: the id is not checked under the lock.
Bug_MarkTest ==
  /\ Step("prod", "markTest", "markWrite")
  /\ UNCHANGED ring /\ OnlyWriter


MarkTest ==
  /\ \/ Step("prod", "markTest", "markWrite") /\ Mine("prod").id = rid["prod"]
     \/ Step("prod", "markTest", "markUnlock") /\ Mine("prod").id # rid["prod"]
  /\ UNCHANGED ring /\ OnlyWriter

MarkWrite ==
  /\ Step("prod", "markWrite", "markUnlock")
  /\ SetMine("prod", "mark", rid["prod"])
  /\ OnlyWriter

-----------------------------------------------------------------------------
(* fr_done, on any thread.                                                 *)

\* A slot the ring reused already needs no lock.
DoneStart(t, e) ==
  /\ calls < MaxCalls /\ calls' = calls + 1
  /\ Step(t, "idle", "lock")
  /\ ring[SlotOf(e)].id = e
  /\ rid' = [rid EXCEPT ![t] = e]
  /\ UNCHANGED <<ring, next, readerVars, forked, finished>>

DoneReused(t, e) ==
  /\ calls < MaxCalls /\ calls' = calls + 1
  /\ pc[t] = "idle"
  /\ ring[SlotOf(e)].id # e
  /\ finished' = finished \cup {e}
  /\ UNCHANGED <<ring, next, writerVars, readerVars, forked>>

DoneTest(t) ==
  /\ \/ Step(t, "test", "testDone") /\ Mine(t).id = rid[t]
     \/ Step(t, "test", "unlock") /\ Mine(t).id # rid[t]
  /\ UNCHANGED ring /\ OnlyWriter

\* Mutant: the last stamp wins.
Bug_DoneTestDone(t) ==
  /\ Step(t, "testDone", "stamp")
  /\ UNCHANGED ring /\ OnlyWriter

\* The first stamp of an entry stays.
DoneTestDone(t) ==
  /\ \/ Step(t, "testDone", "stamp") /\ Mine(t).done = NoStamp
     \/ Step(t, "testDone", "unlock") /\ Mine(t).done # NoStamp
  /\ UNCHANGED ring /\ OnlyWriter

DoneStamp(t) ==
  /\ Step(t, "stamp", "unlock")
  /\ SetMine(t, "done", <<rid[t], t>>)
  /\ OnlyWriter

-----------------------------------------------------------------------------
(* _snapshot                                                               *)

Read(from, to) == rpc = from /\ rpc' = to
OnlyReader == UNCHANGED <<ring, next, writerVars, forked, calls, finished>>
There == ring[SlotOf(cursor + 1)]
Copy(f, v) == copy' = [copy EXCEPT ![f] = v] /\ UNCHANGED <<cursor, upto, out>>

Oldest == IF next > Size THEN next - Size ELSE 0

SnapStart ==
  /\ Read("idle", "ver")
  /\ upto' = next /\ cursor' = Oldest /\ out' = <<>> /\ copy' = EmptySlot
  /\ OnlyReader

\* Mutant: a slot being written is copied.
Bug_SnapVer ==
  /\ cursor < upto
  /\ Read("ver", "id")
  /\ Copy("ver", There.ver)
  /\ OnlyReader


SnapVer ==
  /\ cursor < upto
  /\ Read("ver", "id") /\ ~Held(There)
  /\ Copy("ver", There.ver)
  /\ OnlyReader

SnapId ==
  /\ Read("id", "body") /\ Copy("id", There.id)
  /\ OnlyReader

SnapBody ==
  /\ Read("body", "mark") /\ Copy("body", There.body)
  /\ OnlyReader

\* F_FLAGS precedes F_DONE, F_LINK follows it: their one word is read here.
SnapMark ==
  /\ Read("mark", "done") /\ Copy("mark", There.mark)
  /\ OnlyReader

SnapDone ==
  /\ Read("done", "recheck") /\ Copy("done", There.done)
  /\ OnlyReader

\* Another attempt: the slot is busy, or changed under the copy ...
SnapRetry ==
  /\ Read("recheck", "ver") /\ There.ver # copy.ver
  /\ copy' = EmptySlot
  /\ UNCHANGED <<cursor, upto, out>> /\ OnlyReader

\* ... and after the last attempt the entry is left out.
SnapSkip ==
  /\ cursor < upto
  /\ \/ Read("ver", "ver") /\ Held(There)
     \/ Read("recheck", "ver") /\ There.ver # copy.ver
  /\ cursor' = cursor + 1 /\ copy' = EmptySlot
  /\ UNCHANGED <<upto, out>> /\ OnlyReader

\* A consistent copy is kept if it still is the entry looked for.
SnapKeep ==
  /\ Read("recheck", "ver") /\ There.ver = copy.ver
  /\ out' = IF copy.id = cursor + 1 THEN Append(out, copy) ELSE out
  /\ cursor' = cursor + 1 /\ copy' = EmptySlot
  /\ UNCHANGED upto /\ OnlyReader

SnapEnd ==
  /\ Read("ver", "idle") /\ cursor = upto
  /\ UNCHANGED <<cursor, upto, copy, out>> /\ OnlyReader

-----------------------------------------------------------------------------
\* Mutant: the fork hook leaves the slots alone.
Bug_Released(slot) == slot

\* The child of a fork: every slot left locked is released
\* (_after_fork_in_child, fr_after_fork) before anything else runs.
Released(slot) == IF Held(slot) THEN [slot EXCEPT !.ver = @ + 1] ELSE slot
Fork ==
  /\ ~forked /\ forked' = TRUE
  /\ ring' = [s \in Slots |-> Released(ring[s])]
  /\ pc' = [t \in Writers |-> "gone"]
  /\ rpc' = "idle" /\ copy' = EmptySlot /\ out' = <<>>
  /\ cursor' = 0 /\ upto' = 0
  /\ UNCHANGED <<next, rid, calls, finished>>

Recorded == 1..next
WriterStep(t) ==
  \/ Lock(t) \/ Unlock(t) \/ DoneTest(t) \/ DoneTestDone(t) \/ DoneStamp(t)
ProducerStep ==
  \/ RecStart \/ RecId \/ RecBody \/ RecDone \/ RecMark \/ RecPublish
  \/ MarkTest \/ MarkWrite
  \/ \E e \in Recorded : MarkStart(e)
ReaderStep ==
  \/ SnapStart \/ SnapVer \/ SnapId \/ SnapBody \/ SnapMark \/ SnapDone
  \/ SnapRetry \/ SnapSkip \/ SnapKeep \/ SnapEnd

Next ==
  \/ \E t \in Writers : WriterStep(t)
  \/ \E t \in Writers, e \in Recorded : DoneStart(t, e) \/ DoneReused(t, e)
  \/ ProducerStep \/ ReaderStep \/ Fork

Spec == Init /\ [][Next]_vars
-----------------------------------------------------------------------------
WriterSteps == {"idle", "recLock", "recId", "recBody", "recDone", "recMark",
                "recUnlock", "recPublish", "markLock", "markTest",
                "markWrite", "markUnlock", "lock", "test", "testDone",
                "stamp", "unlock", "gone"}
ReaderSteps == {"idle", "ver", "id", "body", "mark", "done", "recheck"}
SlotWords == [ver : Nat, id : Nat, body : Nat, done : Nat \X Writers, mark : Nat]

\* The type invariant.
TypeOK ==
  /\ ring \in [Slots -> SlotWords] /\ next \in Nat
  /\ pc \in [Writers -> WriterSteps] /\ rid \in [Writers -> Nat \ {0}]
  /\ rpc \in ReaderSteps /\ cursor \in Nat /\ upto \in Nat
  /\ copy \in SlotWords /\ out \in Seq(SlotWords)
  /\ forked \in BOOLEAN /\ calls \in Nat /\ finished \subseteq Nat

\* The words of a slot all describe its entry.
Unmixed(slot) ==
  /\ slot.body = slot.id
  /\ slot.done[1] \in {0, slot.id}
  /\ slot.mark \in {0, slot.id}

\* A stamp, a link or an untracked flag only lands on the entry it is for,
\* whatever the ring did between the call and the store ("A stamp can
\* therefore only land on the entry it is for"), in a forked child too.
SlotsUnmixed ==
  \A s \in Slots :
    ~Held(ring[s]) /\ ring[s].id <= next => Unmixed(ring[s])

\* The dump's copies are whole entries, each one the entry looked for, with no
\* lock shared with the writers and in the child of a fork taken mid-write.
SnapshotWhole ==
  \A i \in DOMAIN out : out[i].id \in 1..upto /\ Unmixed(out[i])

\* A completed collective's entry carries its stamp for as long as the ring
\* keeps it: a call of fr_done that gave up only ever gave up a reused slot.
StampNotLost ==
  \A e \in finished : ring[SlotOf(e)].id = e => ring[SlotOf(e)].done[1] = e

\* The first stamp of an entry stays: two stampers never both write it.
FirstStampStays ==
  [][\A s \in Slots :
       ring[s].done[1] # 0 /\ ring[s].done[1] = ring[s].id
         => ring'[s].done = ring[s].done \/ ring'[s].id # ring[s].id]_vars

\* In the child nothing is left locked: a finished dump misses at most the
\* oldest entry, whose slot the parent was overwriting.
ChildSnapshotComplete ==
  forked /\ rpc = "ver" /\ cursor = upto =>
    \A e \in (Oldest + 2)..next : \E i \in DOMAIN out : out[i].id = e
=============================================================================
