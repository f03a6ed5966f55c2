------------------------------ MODULE WatchQueue ------------------------------
(***************************************************************************)
(* The completion queue the collective watchdog keeps for one communicator *)
(* (torch_mojo_backend/mojo/tmb/backend/watchdog.mojo, struct Tracker).    *)
(*                                                                         *)
(* One producer at a time (it holds the backend mutex) commits entries.    *)
(* Entries are retired, without any lock, by three parties that may run    *)
(* together: the watchdog thread (_poll_tracker), the producer itself      *)
(* (_retire_now) and a thread tearing the group down, which either drains  *)
(* the queue (_drain, from tmb_pg_destroy) or looks once after the         *)
(* watchdog stopped (_retire_now, from watch_exit).                        *)
(*                                                                         *)
(* Every load, store, compare-exchange and driver call the code makes on   *)
(* shared words is a step of its own.  The loads and stores are acquire /  *)
(* release in the code; they are sequentially consistent here.             *)
(***************************************************************************)
EXTENDS Integers, Sequences, FiniteSets

CONSTANTS
  SEG,            \* slots per queue segment (code: 1024)
  NSEG,           \* entries of the segment table (code: 1024)
  InflightLimit,  \* Tracker.inflight_limit: (NSEG-1)*SEG, lowered by tests
  MaxIssued,      \* bound: library calls issued in a behaviour
  Faults,         \* may driver calls fail?
  Down            \* what may end the group: "drain", "exit", "abort"

ASSUME WatchQueueAssumption ==
  /\ SEG \in Nat \ {0}
  /\ NSEG \in Nat \ {0, 1}
  /\ InflightLimit \in 1..((NSEG - 1) * SEG)
  /\ MaxIssued \in Nat
  /\ Faults \in BOOLEAN
  /\ Down \subseteq {"drain", "exit", "abort"}

VARIABLES
  head, tail, done, seq,  \* T_HEAD, T_TAIL, T_DONE, T_SEQ
  fault, unwatched,       \* T_FAULT # 0, T_UNWATCHED
  claimed,                \* T_STATE is CLAIMED or RELEASED
  segs,                   \* Tracker.segs: segment table, 0 = unmapped
  segLo, pool, nsegs,     \* seg_lo, seg_pool, segments allocated so far
  mem,                    \* slot words, by segment and offset
  cpc, utail,             \* the committing producer: step, local tail
  rpc, loc,               \* the retiring threads: step, locals
  reported, report,       \* Tracker.reported, last incident written
  stop, closing, drained, \* W_STOP, PG.closing, result of _drain
  issued, completed,      \* the comm stream: work enqueued, work finished
  stamped, untracked,     \* flight recorder: entries stamped, FL_UNTRACKED
  log                     \* history: the commit at each queue index

queueVars == <<head, tail, done, seq, fault, unwatched, claimed>>
segVars   == <<segs, segLo, pool, nsegs>>
prodVars  == <<cpc, utail>>
dogVars   == <<reported, report>>
downVars  == <<stop, closing, drained>>
gpuVars   == <<issued, completed>>
frVars    == <<stamped, untracked>>
vars == <<queueVars, segVars, mem, prodVars, rpc, loc, dogVars, downVars,
          gpuVars, frVars, log>>

\* The watchdog thread, the producer inside _retire_now, and the thread that
\* destroys the group or exits the interpreter.
Retirers == {"dog", "prod", "down"}

ZeroSlot == [ver |-> 0, seq |-> 0, work |-> 0, event |-> FALSE, rec |-> 0]
Loc0 == [tail |-> 0, head |-> 0, lo |-> 0, hi |-> 0, i |-> 0, seg |-> 0,
         ev |-> <<0, 0>>, end |-> 0, err |-> FALSE, seq |-> 0, ids |-> {},
         pass |-> 0, ver |-> 0, rseq |-> 0, rwork |-> 0]

Offsets == 0..(SEG - 1)
Rows    == 0..(NSEG - 1)
SegIds  == 1..NSEG
Row(i)  == (i \div SEG) % NSEG

\* The segment of slot i, 0 when its row of the table is unmapped, and the
\* slot behind a segment a reader loaded: an unmapped one reads as zeroes.
SegOf(i) == segs[Row(i)]
Slot(seg, i) == IF seg = 0 THEN ZeroSlot ELSE mem[seg][i % SEG]

\* A slot's vendor event is created once and then fixed, so the slot's place
\* names it.  It is complete once the stream passed its latest record.
NoEvent == <<0, 0>>
EventOf(seg, i) == IF Slot(seg, i).event THEN <<seg, i % SEG>> ELSE NoEvent
EventDone(ev) == completed >= mem[ev[1]][ev[2]].rec

Max2(a, b) == IF a >= b THEN a ELSE b

Init ==
  /\ head = 0 /\ tail = 0 /\ done = 0 /\ seq = 0
  /\ fault = FALSE /\ unwatched = FALSE /\ claimed = FALSE
  /\ segs = [r \in Rows |-> 0] /\ segLo = 0 /\ pool = <<>> /\ nsegs = 0
  /\ mem = [s \in SegIds |-> [o \in Offsets |-> ZeroSlot]]
  /\ cpc = "idle" /\ utail = 0
  /\ rpc = [r \in Retirers |-> "idle"] /\ loc = [r \in Retirers |-> Loc0]
  /\ reported = 0 /\ report = [seq |-> 0, work |-> 0, at |-> 0, fr |-> 0]
  /\ stop = FALSE /\ closing = FALSE /\ drained = FALSE
  /\ issued = 0 /\ completed = 0 /\ stamped = {} /\ untracked = {}
  /\ log = <<>>

-----------------------------------------------------------------------------
(* The comm stream: work completes in the order it was enqueued, or never. *)
GpuStep ==
  /\ completed < issued
  /\ completed' = completed + 1
  /\ UNCHANGED <<queueVars, segVars, mem, prodVars, rpc, loc, dogVars,
                 downVars, issued, frVars, log>>

-----------------------------------------------------------------------------
(* Producer: a library call, then watch_commit, all under the mutex.       *)

Commit(from, to) == cpc = from /\ cpc' = to
ProdIdle == rpc["prod"] = "idle"
StartRetire == rpc' = [rpc EXCEPT !["prod"] = "tail"]

\* A pg.mojo entry enqueues a collective on the comm stream and PG.track
\* records it in the flight recorder (entry number = issue number).
Issue ==
  /\ Commit("idle", "begin")
  /\ ~closing /\ issued < MaxIssued
  /\ issued' = issued + 1
  /\ UNCHANGED <<queueVars, segVars, mem, utail, rpc, loc, dogVars, downVars,
                 completed, frVars, log>>

\* A faulty or claimed tracker: fr_untracked, return.
CommitRefused ==
  /\ Commit("begin", "idle")
  /\ fault \/ claimed
  /\ untracked' = untracked \cup {issued}
  /\ UNCHANGED <<queueVars, segVars, mem, utail, rpc, loc, dogVars, downVars,
                 gpuVars, stamped, log>>

CommitBegin ==
  /\ Commit("begin", "full")
  /\ ~fault /\ ~claimed
  /\ seq' = seq + 1
  /\ UNCHANGED <<head, tail, done, fault, unwatched, claimed, segVars, mem,
                 utail, rpc, loc, dogVars, downVars, gpuVars, frVars, log>>

K == head \div SEG
Full == head - tail >= InflightLimit \/ K - segLo >= NSEG - 1

CommitRoom ==
  /\ Commit("full", "map")
  /\ ~Full
  /\ UNCHANGED <<queueVars, segVars, mem, utail, rpc, loc, dogVars, downVars,
                 gpuVars, frVars, log>>

CommitFull ==
  /\ Commit("full", "unmapFull")
  /\ Full
  /\ StartRetire
  /\ UNCHANGED <<queueVars, segVars, mem, utail, loc, dogVars, downVars,
                 gpuVars, frVars, log>>

\* _unmap_retired loads the tail once ...
UnmapBegin ==
  /\ ProdIdle
  /\ \/ Commit("unmapFull", "sweepFull") \/ Commit("unmapMap", "sweepMap")
  /\ utail' = tail
  /\ UNCHANGED <<queueVars, segVars, mem, rpc, loc, dogVars, downVars, gpuVars,
                 frVars, log>>

\* Mutant: a segment counts as retired once the tail entered it.
Bug_Sweepable == segLo < K /\ segLo * SEG <= utail

\* ... then moves fully retired segments below K to the pool, one by one.
Sweepable == segLo < K /\ (segLo + 1) * SEG <= utail
UnmapOne ==
  /\ cpc \in {"sweepFull", "sweepMap"}
  /\ Sweepable
  /\ segs' = [segs EXCEPT ![segLo % NSEG] = 0]
  /\ pool' = IF segs[segLo % NSEG] = 0 THEN pool
             ELSE Append(pool, segs[segLo % NSEG])
  /\ segLo' = segLo + 1
  /\ UNCHANGED <<queueVars, nsegs, mem, prodVars, rpc, loc, dogVars, downVars,
                 gpuVars, frVars, log>>

\* Mutant: a dropped commit is forgotten.
Bug_CommitDropped ==
  /\ Commit("sweepFull", "idle")
  /\ ~Sweepable /\ Full
  /\ UNCHANGED <<queueVars, segVars, mem, utail, rpc, loc, dogVars, downVars,
                 gpuVars, frVars, log>>

\* Mutant: a commit waits until the table has room.
Bug_CommitWaits ==
  /\ Commit("sweepFull", "full")
  /\ ~Sweepable /\ Full
  /\ UNCHANGED <<queueVars, segVars, mem, utail, rpc, loc, dogVars, downVars,
                 gpuVars, frVars, log>>

\* A whole table in flight: the newest commit is dropped, never waited for.
CommitDropped ==
  /\ Commit("sweepFull", "idle")
  /\ ~Sweepable /\ Full
  /\ untracked' = untracked \cup {issued}
  /\ UNCHANGED <<queueVars, segVars, mem, utail, rpc, loc, dogVars, downVars,
                 gpuVars, stamped, log>>

CommitHasRoom ==
  /\ Commit("sweepFull", "map")
  /\ ~Sweepable /\ ~Full
  /\ UNCHANGED <<queueVars, segVars, mem, utail, rpc, loc, dogVars, downVars,
                 gpuVars, frVars, log>>

\* _map_segment returns at once when the table already has the row.
MapPresent ==
  /\ Commit("map", "event")
  /\ segs[K % NSEG] # 0
  /\ UNCHANGED <<queueVars, segVars, mem, utail, rpc, loc, dogVars, downVars,
                 gpuVars, frVars, log>>

\* ... otherwise retires at most once per segment before unmapping.
MapRetire ==
  /\ Commit("map", "unmapMap")
  /\ segs[K % NSEG] = 0
  /\ IF segLo < K /\ (segLo + 1) * SEG > tail THEN StartRetire
     ELSE rpc' = rpc
  /\ UNCHANGED <<queueVars, segVars, mem, utail, loc, dogVars, downVars,
                 gpuVars, frVars, log>>

\* A retired segment if there is one, else a fresh zeroed one.
MapAlloc ==
  /\ Commit("sweepMap", "event")
  /\ ~Sweepable
  /\ IF pool # <<>>
     THEN /\ segs' = [segs EXCEPT ![K % NSEG] = pool[Len(pool)]]
          /\ pool' = SubSeq(pool, 1, Len(pool) - 1)
          /\ nsegs' = nsegs
     ELSE /\ segs' = [segs EXCEPT ![K % NSEG] = nsegs + 1]
          /\ nsegs' = nsegs + 1
          /\ pool' = pool
  /\ UNCHANGED <<queueVars, segLo, mem, utail, rpc, loc, dogVars, downVars,
                 gpuVars, frVars, log>>

\* The producer's own slot.
HeadSlot == mem[segs[Row(head)]][head % SEG]
SetHeadSlot(f, v) == mem' = [mem EXCEPT ![segs[Row(head)]][head % SEG][f] = v]

CommitEvent ==
  /\ Commit("event", "record")
  /\ SetHeadSlot("event", TRUE)
  /\ UNCHANGED <<queueVars, segVars, utail, rpc, loc, dogVars, downVars,
                 gpuVars, frVars, log>>

\* event_create failed, or the record did: watch_fault, fr_untracked, return.
CommitFault ==
  /\ Faults
  /\ \/ Commit("event", "idle") /\ ~HeadSlot.event
     \/ Commit("record", "idle")
  /\ fault' = TRUE
  /\ untracked' = untracked \cup {issued}
  /\ UNCHANGED <<head, tail, done, seq, unwatched, claimed, segVars, mem,
                 utail, rpc, loc, dogVars, downVars, gpuVars, stamped, log>>

\* The vendor event is recorded behind the work just enqueued.
CommitRecord ==
  /\ Commit("record", "odd")
  /\ SetHeadSlot("rec", issued)
  /\ UNCHANGED <<queueVars, segVars, utail, rpc, loc, dogVars, downVars,
                 gpuVars, frVars, log>>

\* The seqlocked write of the slot: odd version, the fields, even version.
CommitOdd ==
  /\ Commit("odd", "seq")
  /\ SetHeadSlot("ver", HeadSlot.ver + 1)
  /\ UNCHANGED <<queueVars, segVars, utail, rpc, loc, dogVars, downVars,
                 gpuVars, frVars, log>>

CommitSeq ==
  /\ Commit("seq", "work")
  /\ SetHeadSlot("seq", seq)
  /\ UNCHANGED <<queueVars, segVars, utail, rpc, loc, dogVars, downVars,
                 gpuVars, frVars, log>>

\* The remaining words (arguments, issue time, S_FR) stand as one word: the
\* number of the call they describe.
CommitWork ==
  /\ Commit("work", "even")
  /\ SetHeadSlot("work", issued)
  /\ UNCHANGED <<queueVars, segVars, utail, rpc, loc, dogVars, downVars,
                 gpuVars, frVars, log>>

CommitEven ==
  /\ Commit("even", "publish")
  /\ SetHeadSlot("ver", HeadSlot.ver + 1)
  /\ UNCHANGED <<queueVars, segVars, utail, rpc, loc, dogVars, downVars,
                 gpuVars, frVars, log>>

CommitPublish ==
  /\ Commit("publish", "idle")
  /\ head' = head + 1
  /\ log' = Append(log, [seq |-> seq, work |-> issued])
  /\ UNCHANGED <<tail, done, seq, fault, unwatched, claimed, segVars, mem,
                 utail, rpc, loc, dogVars, downVars, gpuVars, frVars>>

-----------------------------------------------------------------------------
(* Retirement: _poll_tracker ("dog"), _retire_now ("prod", and "down" at    *)
(* exit), _drain ("down").  Each shared access is one step.                 *)

At(r, pc) == rpc[r] = pc
Next_(r, pc, l) == rpc' = [rpc EXCEPT ![r] = pc] /\ loc' = [loc EXCEPT ![r] = l]
Idle(r) == IF r = "down" THEN "closed" ELSE "idle"
Return(r) == Next_(r, Idle(r), Loc0)

\* What a retirer's step leaves alone unless it says otherwise.
QuietQueue == UNCHANGED <<head, seq, claimed, segVars, mem, prodVars, gpuVars,
                          untracked, log, stop, closing>>
Quiet == QuietQueue /\ UNCHANGED <<tail, done, fault, unwatched, dogVars,
                                   drained, stamped>>

\* After an attempt, won or lost, _drain looks again; the others are done.
Draining(r) == r = "down" /\ closing
Retry(r) == IF Draining(r) THEN Next_(r, "check", Loc0) ELSE Return(r)

\* A round of the watchdog.  A claimed communicator's incident is withdrawn;
\* a fault seen by the producer is reported and ends the watching.
DogRound ==
  /\ At("dog", "idle") /\ ~stop
  /\ Next_("dog", IF claimed \/ unwatched THEN "idle"
                  ELSE IF fault THEN "fault" ELSE "settle", Loc0)
  /\ reported' = IF claimed THEN 0 ELSE reported
  /\ QuietQueue
  /\ UNCHANGED <<tail, done, fault, unwatched, report, drained, stamped>>

\* Mutant: the report is forgotten one collective early.
Bug_DogSettle ==
  /\ At("dog", "settle")
  /\ reported' = IF done + 1 >= reported THEN 0 ELSE reported
  /\ Next_("dog", "tail", Loc0)
  /\ QuietQueue
  /\ UNCHANGED <<tail, done, fault, unwatched, report, drained, stamped>>

\* Report mode: the reported collective completed.
DogSettle ==
  /\ At("dog", "settle")
  /\ reported' = IF done >= reported THEN 0 ELSE reported
  /\ Next_("dog", "tail", Loc0)
  /\ QuietQueue
  /\ UNCHANGED <<tail, done, fault, unwatched, report, drained, stamped>>

\* _fault: a driver error of either side; reported, then unwatched.
DogFault ==
  /\ At("dog", "fault")
  /\ fault' = TRUE /\ unwatched' = TRUE
  /\ Return("dog")
  /\ QuietQueue
  /\ UNCHANGED <<tail, done, dogVars, drained, stamped>>

LoadTail(r) ==
  /\ At(r, "tail")
  /\ Next_(r, "head", [Loc0 EXCEPT !.tail = tail])
  /\ Quiet

LoadHead(r) ==
  /\ At(r, "head")
  /\ IF head = loc[r].tail
     THEN Return(r)
     ELSE Next_(r, "point", [loc[r] EXCEPT !.head = head, !.i = head - 1,
                                           !.lo = loc[r].tail, !.hi = head - 1])
  /\ drained' = IF r = "down" /\ head = loc[r].tail THEN TRUE ELSE drained
  /\ QuietQueue
  /\ UNCHANGED <<tail, done, fault, unwatched, dogVars, stamped>>

\* The boundary is found: [tail, end) is complete.  The watchdog checks the
\* tail first; a drain fails on an error and waits when nothing is complete.
Bounded(r, end, err) ==
  IF r = "dog" \/ (end > loc[r].tail /\ ~(err /\ Draining(r)))
  THEN Next_(r, IF r = "dog" THEN "bound" ELSE "seqSeg",
             [loc[r] EXCEPT !.end = end, !.err = err, !.i = 0,
                            !.lo = 0, !.hi = 0, !.ev = NoEvent, !.seg = 0])
  ELSE IF Draining(r) /\ ~err THEN Next_(r, "wait", Loc0) ELSE Return(r)

\* _boundary, the newest entry first (i = head - 1), then a binary search.
BoundaryPoint(r) ==
  /\ At(r, "point")
  /\ Next_(r, "event", [loc[r] EXCEPT !.seg = SegOf(loc[r].i)])
  /\ Quiet

BoundaryEvent(r) ==
  /\ At(r, "event")
  /\ LET ev == EventOf(loc[r].seg, loc[r].i) IN
     IF ev = NoEvent THEN Bounded(r, loc[r].lo, FALSE)
     ELSE Next_(r, "query", [loc[r] EXCEPT !.ev = ev])
  /\ Quiet

Newest(r) == loc[r].i = loc[r].head - 1
Search(r, lo, hi) ==
  IF lo < hi
  THEN Next_(r, "point", [loc[r] EXCEPT !.lo = lo, !.hi = hi,
                                        !.i = (lo + hi) \div 2])
  ELSE Bounded(r, lo, FALSE)

\* Mutant: the head is loaded again after the query.
Bug_QueryDone(r) ==
  /\ At(r, "query") /\ EventDone(loc[r].ev)
  /\ IF Newest(r) THEN Bounded(r, head, FALSE)
     ELSE Search(r, loc[r].i + 1, loc[r].hi)
  /\ Quiet

QueryDone(r) ==
  /\ At(r, "query") /\ EventDone(loc[r].ev)
  /\ IF Newest(r) THEN Bounded(r, loc[r].head, FALSE)
     ELSE Search(r, loc[r].i + 1, loc[r].hi)
  /\ Quiet


QueryPending(r) ==
  /\ At(r, "query") /\ ~EventDone(loc[r].ev)
  /\ Search(r, loc[r].lo, IF Newest(r) THEN loc[r].hi ELSE loc[r].i)
  /\ Quiet

QueryError(r) ==
  /\ At(r, "query") /\ Faults
  /\ Bounded(r, loc[r].lo, TRUE)
  /\ Quiet

\* The issuer retired entries meanwhile: the watchdog's round ends.
DogBound ==
  /\ At("dog", "bound")
  /\ IF tail # loc["dog"].tail THEN Return("dog")
     ELSE Next_("dog", IF loc["dog"].end > loc["dog"].tail THEN "seqSeg"
                       ELSE IF loc["dog"].err THEN "fault" ELSE "readSeg",
                loc["dog"])
  /\ Quiet

\* What the retirement needs of the slots is read before the tail moves past
\* them: the newest sequence number, then each entry's recorder id.
LoadSeqSeg(r) ==
  /\ At(r, "seqSeg")
  /\ Next_(r, "seq", [loc[r] EXCEPT !.seg = SegOf(loc[r].end - 1)])
  /\ Quiet

\* Mutant: the sequence number of the first entry that is not retired.
Bug_LoadSeq(r) ==
  /\ At(r, "seq")
  /\ Next_(r, "idSeg",
           [loc[r] EXCEPT !.seq = Slot(loc[r].seg, loc[r].end).seq,
                          !.i = loc[r].tail])
  /\ Quiet


LoadSeq(r) ==
  /\ At(r, "seq")
  /\ Next_(r, "idSeg",
           [loc[r] EXCEPT !.seq = Slot(loc[r].seg, loc[r].end - 1).seq,
                          !.i = loc[r].tail])
  /\ Quiet

LoadIdSeg(r) ==
  /\ At(r, "idSeg")
  /\ Next_(r, "id", [loc[r] EXCEPT !.seg = SegOf(loc[r].i)])
  /\ Quiet

LoadId(r) ==
  /\ At(r, "id")
  /\ LET l == loc[r] IN
     Next_(r, IF l.i + 1 < l.end THEN "idSeg" ELSE "cas",
           [l EXCEPT !.ids = @ \cup {Slot(l.seg, l.i).work}, !.i = @ + 1])
  /\ Quiet

\* Mutant: the loser of the compare-exchange stamps what it read too.
Bug_CasTail(r) ==
  /\ At(r, "cas")
  /\ tail' = IF tail = loc[r].tail THEN loc[r].end ELSE tail
  /\ Next_(r, "done", loc[r])
  /\ QuietQueue
  /\ UNCHANGED <<done, fault, unwatched, dogVars, drained, stamped>>


CasTail(r) ==
  /\ At(r, "cas")
  /\ IF tail = loc[r].tail
     THEN (tail' = loc[r].end /\ Next_(r, "done", loc[r]))
     ELSE (tail' = tail /\ Retry(r))
  /\ QuietQueue
  /\ UNCHANGED <<done, fault, unwatched, dogVars, drained, stamped>>

RaiseDone(r) ==
  /\ At(r, "done")
  /\ done' = Max2(done, loc[r].seq)
  /\ Next_(r, "stamp", loc[r])
  /\ QuietQueue
  /\ UNCHANGED <<tail, fault, unwatched, dogVars, drained, stamped>>

\* Mutant: only the watchdog stamps.
Bug_Stamp(r) ==
  /\ At(r, "stamp")
  /\ stamped' = IF r = "dog" THEN stamped \cup loc[r].ids ELSE stamped
  /\ IF r # "dog" THEN Retry(r)
     ELSE IF loc[r].err THEN Next_(r, "fault", Loc0)
     ELSE IF loc[r].end = loc[r].head THEN Return(r)
     ELSE Next_(r, "readSeg", [Loc0 EXCEPT !.tail = loc[r].end])
  /\ QuietQueue
  /\ UNCHANGED <<tail, done, fault, unwatched, dogVars, drained>>

\* _fr_stamp; the watchdog goes on with the oldest entry left.
Stamp(r) ==
  /\ At(r, "stamp")
  /\ stamped' = stamped \cup loc[r].ids
  /\ IF r # "dog" THEN Retry(r)
     ELSE IF loc[r].err THEN Next_(r, "fault", Loc0)
     ELSE IF loc[r].end = loc[r].head THEN Return(r)
     ELSE Next_(r, "readSeg", [Loc0 EXCEPT !.tail = loc[r].end])
  /\ QuietQueue
  /\ UNCHANGED <<tail, done, fault, unwatched, dogVars, drained>>

-----------------------------------------------------------------------------
(* The watchdog's report on the oldest entry: _read once to decide, again   *)
(* for the report (_pending; its later entries only make it give up more).  *)

Dog == loc["dog"]
DogSlot == Slot(Dog.seg, Dog.tail)
ReadStep(from, to, l) == At("dog", from) /\ Next_("dog", to, l) /\ Quiet

ReadSeg == ReadStep("readSeg", "readVer", [Dog EXCEPT !.seg = SegOf(Dog.tail)])

ReadVer ==
  /\ At("dog", "readVer")
  /\ IF DogSlot.ver % 2 = 1 THEN Return("dog")
     ELSE Next_("dog", "readSeq", [Dog EXCEPT !.ver = DogSlot.ver])
  /\ Quiet

ReadSeq == ReadStep("readSeq", "readWork", [Dog EXCEPT !.rseq = DogSlot.seq])
ReadWork == ReadStep("readWork", "readVer2", [Dog EXCEPT !.rwork = DogSlot.work])

ReadVer2 ==
  /\ At("dog", "readVer2")
  /\ IF DogSlot.ver # Dog.ver THEN Return("dog") ELSE Next_("dog", "readTail", Dog)
  /\ Quiet

\* Mutant: what was read of the slot is not checked against the tail.
Bug_TailMoved == FALSE


TailMoved == tail # Dog.tail

\* Given up: the tail moved, or (first read) no timeout yet, or reported.
ReadGiveUp ==
  /\ At("dog", "readTail")
  /\ TailMoved \/ Dog.pass = 0
  /\ Return("dog")
  /\ Quiet

ReadTimedOut ==
  /\ At("dog", "readTail")
  /\ ~TailMoved /\ Dog.pass = 0 /\ Dog.rseq # reported
  /\ Next_("dog", "readSeg", [Loc0 EXCEPT !.tail = Dog.tail, !.pass = 1])
  /\ Quiet

\* _device_timeout has its entries ...
Incident ==
  /\ At("dog", "readTail")
  /\ ~TailMoved /\ Dog.pass = 1
  /\ reported' = Dog.rseq
  /\ Next_("dog", "lineSeg", Dog)
  /\ QuietQueue
  /\ UNCHANGED <<tail, done, fault, unwatched, report, drained, stamped>>

\* ... and loads S_FR for the machine-readable line.
LineSeg == ReadStep("lineSeg", "line", [Dog EXCEPT !.seg = SegOf(Dog.tail)])

Line ==
  /\ At("dog", "line")
  /\ report' = [seq |-> Dog.rseq, work |-> Dog.rwork, at |-> Dog.tail + 1,
                fr |-> DogSlot.work]
  /\ Return("dog")
  /\ QuietQueue
  /\ UNCHANGED <<tail, done, fault, unwatched, reported, drained, stamped>>

-----------------------------------------------------------------------------
(* The end of the group.                                                    *)

\* tmb_pg_destroy marks the group closing under the mutex (no commit is in
\* progress), then drains without it; a communicator an abort has claimed is
\* skipped, a faulty one proves nothing.
DrainStart ==
  /\ "drain" \in Down /\ At("down", "idle")
  /\ cpc = "idle" /\ closing' = TRUE
  /\ Next_("down", IF unwatched THEN "closed" ELSE "check", Loc0)
  /\ drained' = claimed
  /\ UNCHANGED <<queueVars, segVars, mem, prodVars, dogVars, stop, gpuVars,
                 frVars, log>>

\* The head of _drain's loop: a faulty queue proves nothing.  When nothing was
\* complete it waits, until the deadline (any time: no clock here).
DrainCheck ==
  /\ At("down", "check") \/ At("down", "wait")
  /\ IF fault THEN Return("down") ELSE Next_("down", "tail", Loc0)
  /\ Quiet

DrainDeadline ==
  /\ At("down", "wait")
  /\ Return("down")
  /\ Quiet

\* Interpreter exit: watch_stop, then one retirement when the thread is gone.
ExitStop ==
  /\ "exit" \in Down /\ At("down", "idle")
  /\ stop' = TRUE
  /\ Next_("down", "join", Loc0)
  /\ UNCHANGED <<queueVars, segVars, mem, prodVars, dogVars, closing, drained,
                 gpuVars, frVars, log>>

DogStops ==
  /\ At("dog", "idle") /\ stop
  /\ Next_("dog", "stopped", Loc0)
  /\ Quiet

ExitJoined ==
  /\ At("down", "join") /\ At("dog", "stopped")
  /\ Next_("down", "tail", Loc0)
  /\ Quiet

\* watch_claim, under the mutex: an explicit abort, or a destroy after its
\* drain.
Claim ==
  /\ ~claimed /\ cpc = "idle"
  /\ "abort" \in Down \/ (closing /\ At("down", "closed"))
  /\ claimed' = TRUE /\ unwatched' = TRUE
  /\ UNCHANGED <<head, tail, done, seq, fault, segVars, mem, prodVars, rpc,
                 loc, dogVars, downVars, gpuVars, frVars, log>>
-----------------------------------------------------------------------------
CommitStep ==
  \/ Issue \/ CommitRefused \/ CommitBegin \/ CommitRoom \/ CommitFull
  \/ UnmapBegin \/ UnmapOne \/ CommitDropped \/ CommitHasRoom
  \/ MapPresent \/ MapRetire \/ MapAlloc \/ CommitEvent \/ CommitFault
  \/ CommitRecord \/ CommitOdd \/ CommitSeq \/ CommitWork \/ CommitEven
  \/ CommitPublish

RetireStep(r) ==
  \/ LoadTail(r) \/ LoadHead(r) \/ BoundaryPoint(r) \/ BoundaryEvent(r)
  \/ QueryDone(r) \/ QueryPending(r) \/ QueryError(r)
  \/ LoadSeqSeg(r) \/ LoadSeq(r) \/ LoadIdSeg(r) \/ LoadId(r)
  \/ CasTail(r) \/ RaiseDone(r) \/ Stamp(r)

DogStep ==
  \/ DogRound \/ DogSettle \/ DogFault \/ DogBound \/ DogStops
  \/ ReadSeg \/ ReadVer \/ ReadSeq \/ ReadWork \/ ReadVer2 \/ ReadGiveUp
  \/ ReadTimedOut \/ Incident \/ LineSeg \/ Line

DownStep ==
  \/ DrainStart \/ DrainCheck \/ DrainDeadline \/ ExitStop \/ ExitJoined
  \/ Claim

Next ==
  \/ GpuStep \/ CommitStep \/ DogStep \/ DownStep
  \/ \E r \in Retirers : RetireStep(r)

Spec == Init /\ [][Next]_vars

\* The watchdog thread keeps polling, and a call or a drain in progress runs on.
\* Nothing is promised of the GPU or of the callers.
Fairness ==
  /\ WF_vars(DogStep \/ RetireStep("dog"))
  /\ WF_vars((CommitStep /\ ~Issue) \/ RetireStep("prod"))
  /\ WF_vars(RetireStep("down") \/ DrainCheck)

FairSpec == Spec /\ Fairness
-----------------------------------------------------------------------------
\* An entry leaves the queue only once the GPU finished its work: the search
\* for the boundary and the compare-exchange on T_TAIL never let a retirer act
\* on events that a racing retirement and a segment's reuse re-recorded.
RetiredOnlyWhenComplete ==
  /\ tail <= head /\ head = Len(log)
  /\ \A i \in 1..tail : completed >= log[i].work

\* Every slot in flight still holds what the producer committed there, event
\* included: _unmap_retired, the segment pool and _full never recycle a
\* segment, or wrap the table, over an entry that is not retired.
InFlightIntact ==
  \A i \in tail..(head - 1) :
    /\ SegOf(i) # 0
    /\ LET s == mem[SegOf(i)][i % SEG] IN
       /\ s.event /\ s.ver % 2 = 0
       /\ s.seq = log[i + 1].seq /\ s.work = log[i + 1].work
       /\ s.rec = log[i + 1].work

\* T_DONE, which the report mode takes as proof that a reported collective
\* completed, never passes a commit whose work is still running.
DoneIsComplete ==
  \A i \in DOMAIN log : log[i].seq <= done => completed >= log[i].work

\* Flight recorder entries are stamped done for retired entries only, so only
\* for finished collectives (_fr_ids reads them before the compare-exchange,
\* _fr_stamp runs after it won).
StampedOnlyRetired == stamped \subseteq {log[i].work : i \in 1..tail}

\* The queue keeps what CallLedger promises of the calls: commits, retirements
\* by any of the three retirers, stamps and incidents are its steps, and every
\* other step leaves its view of the queue alone.
Works(from, to) == {log[i].work : i \in from..to}
Ledger == INSTANCE CallLedger WITH
  open <- cpc # "idle", queued <- Works(tail + 1, head),
  left <- Works(1, tail), incident <- report.work
CallsKept == Ledger!Spec

\* An incident describes one entry of the queue: the sequence number and the
\* arguments _pending collected while the producer may reuse the slot belong
\* together ("a read racing a reuse is detected, not torn").
IncidentUntorn ==
  report.at # 0 => /\ report.seq = log[report.at].seq
                   /\ report.work = log[report.at].work

\* ... and so does the flight recorder entry the line carries (S_FR).
LineNamesItsEntry == report.at # 0 => report.fr \in {0, log[report.at].work}

\* Every call handed to watch_commit is accounted for exactly once: it is in
\* the queue, or the recorder was told it is untracked.
CommitAccounted ==
  LET queued == {log[i].work : i \in DOMAIN log} IN
  /\ queued \cap untracked = {}
  /\ \A n \in 1..issued : n \in queued \cup untracked
                           \/ (n = issued /\ cpc # "idle")

\* watch_drain's verdict: the queue it drained held all of the rank's work.
\* (tmb_pg_destroy: "once this rank's collectives completed")
DrainedMeansAllDone == drained => completed = issued

\* Each collective is reported at most once, and incidents follow the queue's
\* order: forgetting Tracker.reported when the collective completed never lets
\* an entry that was already reported be reported again.
ReportedOnce == [][report' # report => report'.at > report.at]_vars

\* A commit never waits for the GPU: with no progress of the stream or of the
\* other threads promised, the producer still returns.
CommitReturns == cpc # "idle" ~> cpc = "idle"

\* A finished entry is retired and its recorder entry stamped while the
\* communicator is watched, however the retirers interleave.
FinishedIsStamped ==
  \A n \in 1..MaxIssued :
    (\E i \in DOMAIN log : log[i].work = n) /\ completed >= n
      ~> n \in stamped \/ stop \/ unwatched
=============================================================================
