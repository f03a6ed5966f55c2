-------------------------- MODULE WatchQueue_proofs --------------------------
(***************************************************************************)
(* What the completion queue of a communicator promises, proved for every  *)
(* size of the segment table, every limit and every number of calls.       *)
(*                                                                         *)
(* The argument has four layers, each proved inductive on top of the ones  *)
(* before it:                                                              *)
(*   Logged    the commits so far, in the order of their numbers;          *)
(*   Mapped    the segment table: no row of an entry in flight is recycled *)
(*             and no two rows share a segment;                            *)
(*   Written   the slots: what the producer committed is still there;      *)
(*   Retiring  a retirer's locals describe the queue as long as the tail   *)
(*             has not moved since it was loaded, which the                *)
(*             compare-exchange on T_TAIL checks last;                     *)
(* and on these stand what was retired (Retired), what the watchdog read   *)
(* of the oldest entry (Reading) and what it reported (Reporting).         *)
(***************************************************************************)
EXTENDS WatchQueue, FiniteSetTheorems, SequenceTheorems, TLAPS

-----------------------------------------------------------------------------
(* The inductive invariant.                                                 *)

\* Where the producer is: committing a numbered call, past the check for
\* room, and filling in the slot at the head.
Writing    == {"event", "record", "odd", "seq", "work", "even", "publish"}
Placing    == {"map", "unmapMap", "sweepMap"} \cup Writing
Committing == {"full", "unmapFull", "sweepFull"} \cup Placing

\* Where a retirer is: searching for the boundary, about to move the tail,
\* having moved it; and where the watchdog reads and reports an entry.
Searching == {"point", "event", "query"}
Found     == {"bound", "seqSeg", "seq", "idSeg", "id", "cas"}
Moved     == {"done", "stamp"}
Reads     == {"readSeg", "readVer", "readSeq", "readWork", "readVer2",
              "readTail"}
Lines     == {"lineSeg", "line"}
Loaded    == {"head"} \cup Searching \cup Found \cup Moved \cup Reads \cup Lines
Resting   == {"idle", "tail", "settle", "fault", "stopped", "check", "wait",
              "join", "closed"}

Words  == [ver : Nat, seq : Nat, work : Nat, event : BOOLEAN, rec : Nat]
Locals == [tail : Nat, head : Nat, lo : Nat, hi : Nat, i : Nat, seg : 0..NSEG,
           ev : (0..NSEG) \X Offsets, end : Nat, err : BOOLEAN, seq : Nat,
           ids : SUBSET Nat, pass : 0..1, ver : Nat, rseq : Nat, rwork : Nat]

QueueTyped ==
  /\ head \in Nat /\ tail \in Nat /\ done \in Nat /\ seq \in Nat
  /\ segs \in [Rows -> 0..NSEG] /\ segLo \in Nat
  /\ pool \in Seq(SegIds) /\ nsegs \in 0..NSEG
  /\ mem \in [SegIds -> [Offsets -> Words]]
  /\ cpc \in {"idle", "begin"} \cup Committing /\ utail \in Nat
  /\ issued \in Nat /\ completed \in Nat
  /\ untracked \subseteq Nat
  /\ log \in Seq([seq : Nat, work : Nat])

RetireTyped ==
  /\ rpc \in [Retirers -> Resting \cup Loaded]
  /\ loc \in [Retirers -> Locals]

ReportTyped ==
  /\ reported \in Nat
  /\ report \in [seq : Nat, work : Nat, at : Nat, fr : Nat]

\* The commits are numbered in order, behind the calls that were issued.
Logged ==
  /\ head = Len(log)
  /\ \A i \in 1..head : log[i].seq \in 1..seq /\ log[i].work \in 1..issued
  /\ \A i, j \in 1..head : i < j => /\ log[i].seq < log[j].seq
                                    /\ log[i].work < log[j].work
  /\ cpc # "idle" => issued > 0 /\ \A i \in 1..head : log[i].work < issued
  /\ cpc \in Committing => seq > 0 /\ \A i \in 1..head : log[i].seq < seq

\* A call being committed is not accounted for yet, every other one is.
Accounted ==
  /\ untracked \subseteq 1..issued
  /\ cpc # "idle" => issued \notin untracked
  /\ \A i \in 1..head : log[i].work \notin untracked
  /\ \A n \in 1..issued : \/ n \in untracked
                          \/ \E i \in 1..head : log[i].work = n
                          \/ n = issued /\ cpc # "idle"

InFlight == tail..(head - 1)

\* The rows from the tail's to the head's are distinct rows of the table; an
\* entry in flight, and one being written, has its segment.
Mapped ==
  /\ tail <= head /\ utail <= tail
  /\ segLo <= tail \div SEG
  /\ K - segLo <= NSEG - 1
  /\ cpc \in Placing => K - segLo < NSEG - 1
  /\ \A i \in InFlight : SegOf(i) # 0
  /\ cpc \in Writing => SegOf(head) # 0
  /\ cpc \in {"unmapMap", "sweepMap"} => SegOf(head) = 0

\* A segment is in one row of the table or at one place of the pool.
Owned ==
  /\ \A r, q \in Rows : segs[r] = segs[q] /\ segs[r] # 0 => r = q
  /\ \A r \in Rows : segs[r] <= nsegs
  /\ \A n \in 1..Len(pool) : pool[n] <= nsegs
  /\ \A n, m \in 1..Len(pool) : pool[n] = pool[m] => n = m
  /\ \A r \in Rows, n \in 1..Len(pool) : segs[r] # pool[n]
  /\ \A s \in 1..nsegs : \/ \E r \in Rows : segs[r] = s
                         \/ \E n \in 1..Len(pool) : pool[n] = s

\* What a slot holds once the entry at queue index i was published.
Holds(s, i) ==
  /\ s.event /\ s.ver % 2 = 0
  /\ s.seq = log[i + 1].seq /\ s.work = log[i + 1].work
  /\ s.rec = log[i + 1].work

MidWrite == {"seq", "work", "even"}

Written ==
  /\ \A i \in InFlight : Holds(mem[SegOf(i)][i % SEG], i)
  /\ \A s \in SegIds, o \in Offsets :
       mem[s][o].ver % 2 = 1 =>
         cpc \in MidWrite /\ s = SegOf(head) /\ o = head % SEG
  /\ cpc \in MidWrite => HeadSlot.ver % 2 = 1
  /\ cpc \in Writing \ {"event"} => HeadSlot.event
  /\ cpc \in Writing \ {"event", "record"} => HeadSlot.rec = issued
  /\ cpc \in {"work", "even", "publish"} => HeadSlot.seq = seq
  /\ cpc \in {"even", "publish"} => HeadSlot.work = issued

\* The first n entries of the queue are finished; their works.
Complete(n) == \A j \in 1..n : completed >= log[j].work
WorksTo(n)  == {log[j].work : j \in 1..n}

\* What was retired is finished, and T_DONE and the recorder follow the tail.
Retired ==
  /\ Complete(tail)
  /\ tail = 0 => done = 0
  /\ tail > 0 => done <= log[tail].seq
  /\ stamped \subseteq WorksTo(tail)

\* A retirer that has loaded the tail: its locals describe the queue unless
\* the tail moved, and once it moved the tail itself, they do for good.
RetiringAt(pc, l) ==
  LET Fresh == tail = l.tail IN
  /\ pc \in Loaded => l.tail <= tail
  /\ pc \in Searching \cup Found \cup Moved =>
       l.tail < l.head /\ l.head <= head
  /\ pc \in Searching =>
       /\ l.tail <= l.lo /\ l.lo <= l.hi /\ l.hi < l.head
       /\ l.lo <= l.i /\ l.i < l.head
       /\ l.i = l.head - 1 \/ l.i < l.hi
       /\ l.ids = {}
       /\ Fresh => Complete(l.lo)
  /\ pc = "event" => (Fresh => l.seg = SegOf(l.i))
  /\ pc = "query" => (Fresh => l.ev = <<SegOf(l.i), l.i % SEG>>)
  /\ pc \in Found =>
       /\ l.tail <= l.end /\ l.end <= l.head
       /\ Fresh => Complete(l.end)
  /\ pc \in (Found \ {"bound"}) \cup Moved =>
       l.tail < l.end /\ l.end <= l.head
  /\ pc \in {"head", "bound", "seqSeg", "seq"} => l.ids = {}
  /\ pc = "seq" => (Fresh => l.seg = SegOf(l.end - 1))
  /\ pc \in {"idSeg", "id"} => l.tail <= l.i /\ l.i < l.end
  /\ pc = "id" => (Fresh => l.seg = SegOf(l.i))
  /\ pc \in {"idSeg", "id", "cas"} =>
       (Fresh => l.seq = log[l.end].seq /\ l.ids \subseteq WorksTo(l.end))
  /\ pc \in Moved =>
       /\ l.end <= tail
       /\ l.seq = log[l.end].seq /\ l.ids \subseteq WorksTo(l.end)

Retiring(r) == RetiringAt(rpc[r], loc[r])

\* The watchdog reads the entry at the tail it loaded: what it read is that
\* entry's, unless the tail moved.
ReadingAt(pc, l) ==
  LET Fresh == tail = l.tail IN
  /\ pc \in Reads \cup Lines => l.tail < head
  /\ pc \in {"readVer", "readSeq", "readWork"} =>
       (Fresh => l.seg = SegOf(l.tail))
  /\ pc \in {"readWork", "readVer2", "readTail"} =>
       (Fresh => l.rseq = log[l.tail + 1].seq)
  /\ pc \in {"readVer2", "readTail"} =>
       (Fresh => l.rwork = log[l.tail + 1].work)
  /\ pc \in Lines => /\ l.rseq = log[l.tail + 1].seq
                     /\ l.rwork = log[l.tail + 1].work

Reading == ReadingAt(rpc["dog"], loc["dog"])

\* The last report is of an entry the tail has reached; it is forgotten only
\* when the tail is past it, or the communicator is claimed.
ReportingAt(pc, l) ==
  /\ report.at <= head /\ report.at <= tail + 1
  /\ report.at # 0 => /\ report.seq = log[report.at].seq
                      /\ report.work = log[report.at].work
  /\ report.at = 0 => report.work = 0
  /\ pc \in Loaded => report.at <= l.tail + 1
  /\ pc \in Lines => report.at <= l.tail /\ reported = l.rseq
  /\ pc \notin Lines /\ reported # 0 =>
       report.at # 0 /\ reported = log[report.at].seq
  /\ reported = 0 =>
       /\ report.at <= tail \/ (claimed /\ pc \in Resting \ {"settle", "tail"})
       /\ pc \in Loaded => report.at <= l.tail
  /\ pc \in Loaded /\ l.pass = 1 => report.at <= l.tail

Reporting == ReportingAt(rpc["dog"], loc["dog"])

QueueInv == QueueTyped /\ Logged /\ Mapped /\ Owned /\ Written
IInv == /\ QueueInv /\ Accounted /\ Retired
        /\ RetireTyped /\ ReportTyped
        /\ \A r \in Retirers : Retiring(r)
        /\ Reading /\ Reporting

-----------------------------------------------------------------------------
(* Places in the table: the segment and the row of a queue index.           *)

\* Division by the size of a segment.
LEMMA Divided ==
  ASSUME NEW i \in Nat
  PROVE  /\ i \div SEG \in Nat /\ i % SEG \in Offsets
         /\ i = SEG * (i \div SEG) + (i % SEG)
BY WatchQueueAssumption DEF Offsets

LEMMA RowTyped ==
  ASSUME NEW i \in Nat
  PROVE  Row(i) \in Rows
BY Divided, WatchQueueAssumption DEF Row, Rows

\* A later index is in the same segment or a later one.
LEMMA LaterSegment ==
  ASSUME NEW i \in Nat, NEW j \in Nat, i <= j
  PROVE  i \div SEG <= j \div SEG
BY Divided, WatchQueueAssumption DEF Offsets

\* Segment k is over once the index reached its end.
LEMMA SegmentOver ==
  ASSUME NEW i \in Nat, NEW k \in Nat, k * SEG <= i
  PROVE  k <= i \div SEG
BY Divided, WatchQueueAssumption DEF Offsets

LEMMA NextSegment ==
  ASSUME NEW i \in Nat
  PROVE  (i + 1) \div SEG <= (i \div SEG) + 1
BY Divided, WatchQueueAssumption DEF Offsets

\* Fewer than NSEG segments never meet in a row of the table.
LEMMA RowsApart ==
  ASSUME NEW k \in Nat, NEW m \in Nat, k % NSEG = m % NSEG,
         k <= m, m - k < NSEG
  PROVE  k = m
<1> USE WatchQueueAssumption
<1> DEFINE a == k \div NSEG
           b == m \div NSEG
<1>1. /\ a \in Nat /\ k = NSEG * a + (k % NSEG)
      /\ b \in Nat /\ m = NSEG * b + (m % NSEG)
  OBVIOUS
<1>2. m - k = NSEG * (b - a)
  BY <1>1
<1> HIDE DEF a, b
<1>3. b - a = 0
  <2>1. CASE b - a >= 1
    BY <1>1, <1>2, <2>1
  <2>2. CASE b - a <= -1
    BY <1>1, <1>2, <2>2
  <2> QED BY <1>1, <2>1, <2>2
<1> QED BY <1>2, <1>3

LEMMA SlotsApart ==
  ASSUME NEW i \in Nat, NEW j \in Nat,
         i \div SEG = j \div SEG, i % SEG = j % SEG
  PROVE  i = j
BY Divided

-----------------------------------------------------------------------------
(* The initial states.                                                      *)

LEMMA InitIInv == Init => IInv
<1> SUFFICES ASSUME Init PROVE IInv OBVIOUS
<1> USE WatchQueueAssumption DEF Init
<1>1. ZeroSlot \in Words
  BY DEF ZeroSlot, Words
<1>2. Loc0 \in Locals
  BY DEF Loc0, Locals, Offsets
<1>3. /\ 0 \div SEG = 0 /\ 0 \in Nat /\ Row(0) \in Rows
  BY RowTyped, Divided
<1>4. QueueTyped
  BY <1>1 DEF QueueTyped, SegIds
<1>5. RetireTyped /\ ReportTyped
  BY <1>2 DEF RetireTyped, ReportTyped, Resting
<1>6. Logged /\ Accounted /\ Retired
  BY DEF Logged, Accounted, Retired, Complete, Committing, Placing, Writing
<1>7. Mapped
  BY <1>3 DEF Mapped, K, InFlight, Placing, Writing
<1>8. Owned
  BY DEF Owned
<1>9. Written
  BY DEF Written, InFlight, Writing, MidWrite, ZeroSlot
<1>10. \A r \in Retirers : Retiring(r)
  BY DEF Retiring, RetiringAt, Loaded, Searching, Found, Moved, Reads, Lines
<1>11. Reading /\ Reporting
  BY DEF Reading, ReadingAt, Reporting, Retirers, Loaded, Searching, Found,
         Moved, Reads, Lines, Resting, ReportingAt
<1> QED BY <1>4, <1>5, <1>6, <1>7, <1>8, <1>9, <1>10, <1>11 DEF IInv, QueueInv

-----------------------------------------------------------------------------
(* The retirers leave the queue's contents alone.                           *)

\* What every step but the producer's leaves alone.
QueueKept == UNCHANGED <<head, seq, segVars, mem, prodVars, issued, untracked, log>>

\* The tail may move on, up to the head.
LEMMA QueueKeeps ==
  ASSUME QueueInv, Accounted, QueueKept,
         tail' \in Nat, done' \in Nat, completed' \in Nat,
         tail <= tail', tail' <= head
  PROVE  QueueInv' /\ Accounted'
<1> USE DEF QueueKept, segVars, prodVars, QueueInv
<1>1. QueueTyped'
  BY DEF QueueTyped
<1>2. Logged' /\ Accounted'
  BY DEF Logged, Accounted
<1>3. \A i \in InFlight' : i \in InFlight
  BY DEF InFlight, QueueTyped
<1>4. Mapped'
  <2>1. tail \div SEG <= tail' \div SEG /\ tail \div SEG \in Nat
        /\ tail' \div SEG \in Nat
    BY LaterSegment, Divided DEF QueueTyped
  <2> QED BY <1>3, <2>1 DEF Mapped, QueueTyped, SegOf, K
<1>5. Owned'
  BY DEF Owned
<1>6. Written'
  BY <1>3 DEF Written, Holds, HeadSlot, SegOf
<1> QED BY <1>1, <1>2, <1>4, <1>5, <1>6

-----------------------------------------------------------------------------
(* The producer: a call is numbered, then queued or untracked.              *)

\* The steps of a commit between its number and its end.
Onward ==
  \/ CommitRoom \/ CommitFull \/ UnmapBegin \/ UnmapOne \/ CommitHasRoom
  \/ MapPresent \/ MapRetire \/ MapAlloc \/ CommitEvent \/ CommitRecord
  \/ CommitOdd \/ CommitSeq \/ CommitWork \/ CommitEven

LEMMA OnwardCounts ==
  ASSUME QueueTyped, Onward
  PROVE  /\ cpc \in Committing /\ cpc' \in Committing
         /\ UNCHANGED <<head, tail, done, seq, issued, completed, untracked, log>>
<1> USE DEF Commit, queueVars, prodVars, gpuVars, frVars, Committing, Placing,
            Writing
<1>1. CASE CommitRoom BY <1>1 DEF CommitRoom
<1>2. CASE CommitFull BY <1>2 DEF CommitFull
<1>3. CASE UnmapBegin BY <1>3 DEF UnmapBegin
<1>4. CASE UnmapOne BY <1>4 DEF UnmapOne
<1>5. CASE CommitHasRoom BY <1>5 DEF CommitHasRoom
<1>6. CASE MapPresent BY <1>6 DEF MapPresent
<1>7. CASE MapRetire BY <1>7 DEF MapRetire
<1>8. CASE MapAlloc BY <1>8 DEF MapAlloc
<1>9. CASE CommitEvent BY <1>9 DEF CommitEvent
<1>10. CASE CommitRecord BY <1>10 DEF CommitRecord
<1>11. CASE CommitOdd BY <1>11 DEF CommitOdd
<1>12. CASE CommitSeq BY <1>12 DEF CommitSeq
<1>13. CASE CommitWork BY <1>13 DEF CommitWork
<1>14. CASE CommitEven BY <1>14 DEF CommitEven
<1> QED BY <1>1, <1>2, <1>3, <1>4, <1>5, <1>6, <1>7, <1>8, <1>9, <1>10, <1>11,
           <1>12, <1>13, <1>14 DEF Onward

\* The entry a commit appends.
LEMMA Appended ==
  ASSUME QueueTyped, Logged, CommitPublish
  PROVE  /\ cpc = "publish" /\ cpc' = "idle" /\ head' = head + 1
         /\ log' \in Seq([seq : Nat, work : Nat]) /\ Len(log') = head + 1
         /\ \A i \in 1..head : log'[i] = log[i]
         /\ log'[head + 1].seq = seq /\ log'[head + 1].work = issued
BY DEF CommitPublish, Commit, QueueTyped, Logged

LEMMA CommitLogged ==
  ASSUME QueueTyped, Logged, Accounted, CommitStep
  PROVE  Logged' /\ Accounted'
<1> USE DEF Commit, gpuVars, queueVars, frVars
<1>1. CASE Onward
  <2>1. Logged'
    BY <1>1, OnwardCounts DEF Logged, Committing, Placing, Writing
  <2>2. Accounted'
    BY <1>1, OnwardCounts DEF Accounted, Committing, Placing, Writing
  <2> QED BY <2>1, <2>2
<1>2. CASE Issue
  <2>0. /\ cpc' = "begin" /\ issued' = issued + 1
        /\ UNCHANGED <<head, seq, untracked, log>>
    BY <1>2 DEF Issue
  <2>1. Logged'
    <3>1. \A i \in 1..head : log[i].work \in 1..issued' /\ log[i].work < issued'
      <4>1. \A i \in 1..head : log[i].work \in 1..issued
        BY DEF Logged
      <4>2. issued \in Nat
        BY DEF QueueTyped
      <4> HIDE DEF QueueTyped
      <4> QED BY <2>0, <4>1, <4>2
    <3> QED BY <2>0, <3>1 DEF Logged, QueueTyped, Committing, Placing, Writing
  <2>2. Accounted'
    BY <1>2, <2>0 DEF Issue, Accounted, Logged, QueueTyped
  <2> QED BY <2>1, <2>2
<1>3. CASE CommitRefused \/ CommitDropped \/ CommitFault
  <2>1. /\ cpc # "idle" /\ cpc' = "idle" /\ untracked' = untracked \cup {issued}
        /\ UNCHANGED <<head, seq, issued, log>>
    BY <1>3 DEF CommitRefused, CommitDropped, CommitFault
  <2>2. Logged'
    BY <2>1 DEF Logged, Committing, Placing, Writing
  <2>3. Accounted'
    BY <2>1 DEF Accounted, Logged, QueueTyped
  <2> QED BY <2>2, <2>3
<1>4. CASE CommitBegin
  <2> USE <1>4 DEF CommitBegin, QueueTyped
  <2>1. Logged'
    BY DEF Logged
  <2>2. Accounted'
    BY DEF Accounted
  <2> QED BY <2>1, <2>2
<1>5. CASE CommitPublish
  <2>1. UNCHANGED <<seq, issued, untracked>>
    BY <1>5 DEF CommitPublish
  <2>2. seq > 0 /\ \A i \in 1..head : log[i].seq < seq
    BY <1>5, Appended DEF Logged, Committing, Placing, Writing
  <2>3. issued > 0 /\ \A i \in 1..head : log[i].work < issued
    BY <1>5, Appended DEF Logged
  <2>4. Logged'
    <3>1. \A i \in 1..(head + 1) : i \in 1..head \/ i = head + 1
      BY DEF QueueTyped
    <3>5. /\ head \in Nat /\ issued \in Nat /\ seq \in Nat
          /\ head' = head + 1
          /\ \A i \in 1..head : log'[i] = log[i]
          /\ log'[head + 1].seq = seq /\ log'[head + 1].work = issued
      BY <1>5, Appended DEF QueueTyped
    <3>6. \A i \in 1..head : log[i].seq \in 1..seq /\ log[i].work \in 1..issued
      BY DEF Logged
    <3>2. \A i \in 1..head' : log'[i].seq \in 1..seq /\ log'[i].work \in 1..issued
      BY <2>2, <2>3, <3>1, <3>5, <3>6
    <3>3. ASSUME NEW i \in 1..head', NEW j \in 1..head', i < j
          PROVE  log'[i].seq < log'[j].seq /\ log'[i].work < log'[j].work
      <4>1. CASE j \in 1..head
        <5>1. i \in 1..head
          BY <3>3, <3>5, <4>1
        <5>2. log[i].seq < log[j].seq /\ log[i].work < log[j].work
          BY <3>3, <4>1, <5>1 DEF Logged
        <5> QED BY <3>5, <4>1, <5>1, <5>2
      <4>2. CASE j = head + 1
        <5>1. i \in 1..head
          BY <3>3, <3>5, <4>2
        <5> QED BY <2>2, <2>3, <3>5, <4>2, <5>1
      <4> QED BY <3>1, <3>5, <4>1, <4>2
    <3> QED BY <1>5, <2>1, <3>2, <3>3, Appended
            DEF Logged, QueueTyped, Committing, Placing, Writing
  <2>5. Accounted'
    <3>1. \A i \in 1..head' : i \in 1..head \/ i = head + 1
      BY <1>5, Appended DEF QueueTyped
    <3>2. \A i \in 1..head : i \in 1..head'
      BY <1>5, Appended DEF QueueTyped
    <3>3. head + 1 \in 1..head'
      BY <1>5, Appended DEF QueueTyped
    <3> QED BY <1>5, <2>1, <3>1, <3>2, <3>3, Appended DEF Accounted
  <2> QED BY <2>4, <2>5
<1> QED BY <1>1, <1>2, <1>3, <1>4, <1>5 DEF CommitStep, Onward

-----------------------------------------------------------------------------
(* The producer and the segment table.                                      *)

\* A row is free and the pool empty: not every segment was allocated.
LEMMA FreshSegment ==
  ASSUME QueueTyped, Owned, pool = <<>>, NEW r \in Rows, segs[r] = 0
  PROVE  nsegs < NSEG
<1> USE WatchQueueAssumption
<1> SUFFICES ASSUME nsegs = NSEG PROVE FALSE
  BY DEF QueueTyped
<1> DEFINE f == [s \in 1..nsegs |-> CHOOSE q \in Rows : segs[q] = s]
<1>1. ASSUME NEW s \in 1..nsegs
      PROVE  f[s] \in Rows \ {r} /\ segs[f[s]] = s
  <2>1. \E q \in Rows : segs[q] = s
    BY DEF Owned
  <2>2. f[s] \in Rows /\ segs[f[s]] = s
    BY <2>1
  <2>3. s # 0
    BY DEF QueueTyped
  <2> QED BY <2>2, <2>3
<1>2. f \in [1..nsegs -> Rows \ {r}]
  BY <1>1
<1>3. IsFiniteSet(1..nsegs) /\ Cardinality(1..nsegs) = NSEG
  BY FS_Interval
<1>4. IsFiniteSet(Rows) /\ Cardinality(Rows) = NSEG
  BY FS_Interval DEF Rows
<1>5. IsFiniteSet(Rows \ {r}) /\ Cardinality(Rows \ {r}) = NSEG - 1
  BY <1>4, FS_RemoveElement
<1> HIDE DEF f
<1>6. \E x, y \in 1..nsegs : x # y /\ f[x] = f[y]
  BY <1>2, <1>3, <1>5, FS_PigeonHole
<1> QED BY <1>1, <1>6

\* The table and the queue's ends stay, the producer moves.
TableKept == UNCHANGED <<head, tail, utail, segVars>>

LEMMA TableKeeps ==
  ASSUME QueueInv, TableKept,
         cpc' \in Placing => \/ cpc \in Placing
                             \/ K - segLo < NSEG - 1,
         cpc' \in Writing => cpc \in Writing \/ SegOf(head) # 0,
         cpc' \in {"unmapMap", "sweepMap"} =>
           cpc \in {"unmapMap", "sweepMap"} \/ SegOf(head) = 0
  PROVE  Mapped' /\ Owned'
<1> USE DEF TableKept, segVars
<1>1. Mapped'
  BY DEF QueueInv, Mapped, SegOf, K, InFlight
<1>2. Owned'
  BY DEF QueueInv, Owned
<1> QED BY <1>1, <1>2

LEMMA NotFull ==
  ASSUME QueueTyped, ~Full
  PROVE  K - segLo < NSEG - 1
BY Divided, WatchQueueAssumption DEF Full, K, QueueTyped

\* The row of the slot at the head, in the words of _map_segment.
LEMMA HeadRow ==
  /\ Row(head) = K % NSEG
  /\ SegOf(head) = segs[K % NSEG]
BY DEF Row, K, SegOf

\* An entry in flight lies between the oldest mapped segment and the head's.
LEMMA FlightRow ==
  ASSUME QueueTyped, Mapped, NEW i \in InFlight
  PROVE  /\ i \in Nat /\ Row(i) \in Rows
         /\ i \div SEG \in Nat /\ K \in Nat
         /\ segLo <= tail \div SEG /\ tail \div SEG \in Nat
         /\ tail \div SEG <= i \div SEG /\ i \div SEG <= K
         /\ K - segLo < NSEG
<1>1. i \in Nat /\ tail <= i /\ i <= head /\ head \in Nat /\ tail \in Nat
      /\ segLo \in Nat
  BY DEF QueueTyped, InFlight
<1>2. tail \div SEG <= i \div SEG /\ i \div SEG <= K
  BY <1>1, LaterSegment DEF K
<1>3. /\ i \div SEG \in Nat /\ K \in Nat /\ tail \div SEG \in Nat
      /\ Row(i) \in Rows
  BY <1>1, Divided, RowTyped DEF K
<1> QED BY <1>1, <1>2, <1>3, WatchQueueAssumption DEF Mapped

\* A retired segment goes to the pool: no entry in flight has its row.
LEMMA UnmapOneMapped ==
  ASSUME QueueInv, UnmapOne
  PROVE  /\ Mapped' /\ Owned'
         /\ segs' \in [Rows -> 0..NSEG] /\ segLo' \in Nat /\ pool' \in Seq(SegIds)
         /\ \A i \in InFlight : SegOf(i)' = SegOf(i)
<1> DEFINE r == segLo % NSEG
<1>1. /\ QueueTyped /\ Mapped /\ Owned
      /\ cpc \in {"sweepFull", "sweepMap"} /\ cpc' = cpc
      /\ segLo < K /\ (segLo + 1) * SEG <= utail
      /\ segs' = [segs EXCEPT ![r] = 0] /\ segLo' = segLo + 1
      /\ pool' = IF segs[r] = 0 THEN pool ELSE Append(pool, segs[r])
      /\ UNCHANGED <<head, tail, utail, nsegs>>
  BY DEF QueueInv, UnmapOne, Sweepable, queueVars, prodVars
<1>2. segLo \in Nat /\ K \in Nat /\ r \in Rows /\ NSEG \in Nat
  <2>1. segLo \in Nat /\ head \in Nat
    BY <1>1 DEF QueueTyped
  <2> QED BY <2>1, Divided, WatchQueueAssumption DEF K, Rows
<1> HIDE DEF r
<1>3. segLo + 1 <= tail \div SEG
  <2>1. (segLo + 1) * SEG <= tail
    BY <1>1, WatchQueueAssumption DEF QueueTyped, Mapped
  <2> QED BY <2>1, SegmentOver DEF QueueTyped, QueueInv
<1>4. ASSUME NEW i \in InFlight PROVE Row(i) # r
  <2>1. segLo < i \div SEG /\ i \div SEG - segLo < NSEG /\ i \div SEG \in Nat
    BY <1>1, <1>2, <1>3, FlightRow
  <2> QED BY <1>2, <2>1, RowsApart DEF Row, r
<1>5. \A i \in InFlight : SegOf(i)' = SegOf(i)
  BY <1>1, <1>2, <1>4, FlightRow DEF SegOf, QueueTyped
<1>6. InFlight' = InFlight
  BY <1>1 DEF InFlight
<1>7. Mapped'
  <2>1. K' = K
    BY <1>1 DEF K
  <2>2. K - segLo' <= NSEG - 1 /\ (cpc' \in Placing => K - segLo' < NSEG - 1)
    BY <1>1, <1>2 DEF Mapped
  <2>3. \A i \in InFlight' : SegOf(i)' # 0
    BY <1>1, <1>5, <1>6 DEF Mapped
  <2>4. cpc' \notin Writing
    BY <1>1 DEF Writing
  <2>5. cpc' \in {"unmapMap", "sweepMap"} => SegOf(head)' = 0
    BY <1>1, <1>2, RowTyped DEF Mapped, SegOf, QueueTyped, Row
  <2>6. tail' <= head' /\ utail' <= tail' /\ segLo' <= tail' \div SEG
    BY <1>1, <1>3 DEF Mapped
  <2> QED BY <2>1, <2>2, <2>3, <2>4, <2>5, <2>6 DEF Mapped
<1>8. segs' \in [Rows -> 0..NSEG] /\ segLo' \in Nat /\ pool' \in Seq(SegIds)
  <2>1. segs[r] \in 0..NSEG
    BY <1>1, <1>2 DEF QueueTyped
  <2>2. segs[r] # 0 => segs[r] \in SegIds
    BY <2>1, <1>2 DEF SegIds
  <2> QED BY <1>1, <1>2, <2>2 DEF QueueTyped
<1>9. Owned'
  <2>1. CASE segs[r] = 0
    <3>1. segs' = segs /\ pool' = pool /\ nsegs' = nsegs
      BY <1>1, <1>2, <2>1 DEF QueueTyped
    <3> QED BY <1>1, <3>1 DEF Owned
  <2>2. CASE segs[r] # 0
    <3>1. /\ pool' = Append(pool, segs[r]) /\ Len(pool) \in Nat
          /\ Len(pool') = Len(pool) + 1
          /\ \A n \in 1..Len(pool) : pool'[n] = pool[n]
          /\ pool'[Len(pool) + 1] = segs[r]
      BY <1>1, <2>2 DEF QueueTyped
    <3>2. \A n \in 1..Len(pool') : n \in 1..Len(pool) \/ n = Len(pool) + 1
      BY <3>1
    <3>3. /\ segs'[r] = 0 /\ \A q \in Rows : q # r => segs'[q] = segs[q]
      BY <1>1, <1>2 DEF QueueTyped
    <3>4. /\ \A p, q \in Rows : segs'[p] = segs'[q] /\ segs'[p] # 0 => p = q
          /\ \A q \in Rows : segs'[q] <= nsegs'
      BY <1>1, <1>2, <3>3 DEF Owned, QueueTyped
    <3>5. \A n \in 1..Len(pool') : pool'[n] <= nsegs'
      BY <1>1, <1>2, <3>1, <3>2 DEF Owned
    <3>6. \A n, m \in 1..Len(pool') : pool'[n] = pool'[m] => n = m
      BY <1>1, <1>2, <3>1, <3>2 DEF Owned
    <3>7. \A q \in Rows, n \in 1..Len(pool') : segs'[q] # pool'[n]
      <4>1. \A n \in 1..Len(pool') : pool'[n] # 0
        <5>1. \A n \in 1..Len(pool') : pool'[n] \in SegIds
          BY <1>8
        <5> QED BY <5>1 DEF SegIds
      <4> QED BY <1>1, <1>2, <2>2, <3>1, <3>2, <3>3, <4>1 DEF Owned
    <3>8. \A s \in 1..nsegs' : \/ \E q \in Rows : segs'[q] = s
                               \/ \E n \in 1..Len(pool') : pool'[n] = s
      <4> SUFFICES ASSUME NEW s \in 1..nsegs
                   PROVE  \/ \E q \in Rows : segs'[q] = s
                          \/ \E n \in 1..Len(pool') : pool'[n] = s
        BY <1>1
      <4>1. CASE \E q \in Rows : segs[q] = s
        <5>1. PICK q \in Rows : segs[q] = s
          BY <4>1
        <5>2. CASE q = r
          <6>1. Len(pool) + 1 \in 1..Len(pool')
            BY <3>1
          <6> QED BY <3>1, <5>1, <5>2, <6>1
        <5> QED BY <3>3, <5>1, <5>2
      <4>2. CASE \E n \in 1..Len(pool) : pool[n] = s
        <5>1. \A n \in 1..Len(pool) : n \in 1..Len(pool')
          BY <3>1
        <5> QED BY <3>1, <4>2, <5>1
      <4> QED BY <1>1, <4>1, <4>2 DEF Owned
    <3> QED BY <3>4, <3>5, <3>6, <3>7, <3>8 DEF Owned
  <2> QED BY <2>1, <2>2
<1> QED BY <1>5, <1>7, <1>8, <1>9

\* A pool without its newest segment.
LEMMA PoolTop ==
  ASSUME NEW s \in Seq(SegIds), s # <<>>
  PROVE  LET t == SubSeq(s, 1, Len(s) - 1) IN
         /\ Len(s) >= 1 /\ Len(t) = Len(s) - 1
         /\ \A n \in 1..Len(t) : t[n] = s[n]
<1>1. Len(s) \in Nat /\ Len(s) >= 1 /\ \A n \in 1..(Len(s) - 1) : s[n] \in SegIds
  OBVIOUS
<1> DEFINE m == Len(s) - 1
<1>2. m \in Int /\ \A n \in 1..m : s[n] \in SegIds
  BY <1>1
<1> HIDE DEF m
<1>3. /\ Len(SubSeq(s, 1, m)) = IF 1 <= m THEN m - 1 + 1 ELSE 0
      /\ \A n \in 1..(m - 1 + 1) : SubSeq(s, 1, m)[n] = s[1 + n - 1]
  BY <1>2, SubSeqProperties
<1>4. m \in Nat /\ Len(SubSeq(s, 1, m)) = m
  <2>1. m \in Nat
    BY <1>1 DEF m
  <2>2. m - 1 + 1 = m /\ (~(1 <= m) => m = 0)
    BY <2>1
  <2> QED BY <1>3, <2>1, <2>2
<1>5. \A n \in 1..m : SubSeq(s, 1, m)[n] = s[n]
  BY <1>3, <1>4
<1> QED BY <1>1, <1>4, <1>5 DEF m

\* The segment a commit maps is in no other row, nor in the pool.
LEMMA MapAllocMapped ==
  ASSUME QueueInv, MapAlloc
  PROVE  /\ Mapped' /\ Owned'
         /\ segs' \in [Rows -> 0..NSEG] /\ pool' \in Seq(SegIds)
         /\ nsegs' \in 0..NSEG
         /\ \A i \in InFlight : SegOf(i)' = SegOf(i)
<1> DEFINE r == K % NSEG
           new == IF pool # <<>> THEN pool[Len(pool)] ELSE nsegs + 1
<1>1. /\ QueueTyped /\ Mapped /\ Owned
      /\ cpc = "sweepMap" /\ cpc' = "event"
      /\ segs' = [segs EXCEPT ![r] = new]
      /\ pool' = IF pool # <<>> THEN SubSeq(pool, 1, Len(pool) - 1) ELSE pool
      /\ nsegs' = IF pool # <<>> THEN nsegs ELSE nsegs + 1
      /\ UNCHANGED <<head, tail, utail, segLo>>
  BY DEF QueueInv, MapAlloc, Commit, queueVars
<1>2. r = Row(head) /\ r \in Rows /\ segs[r] = 0 /\ SegOf(head) = 0
  <2>1. head \in Nat
    BY <1>1 DEF QueueTyped
  <2> QED BY <1>1, <2>1, HeadRow, RowTyped DEF Mapped
<1>3. /\ nsegs \in 0..NSEG /\ NSEG \in Nat /\ Len(pool) \in Nat
      /\ \A n \in 1..Len(pool) : pool[n] \in SegIds
      /\ segs \in [Rows -> 0..NSEG]
  BY <1>1, WatchQueueAssumption DEF QueueTyped
<1>4. /\ new \in SegIds /\ nsegs' \in 0..NSEG /\ pool' \in Seq(SegIds)
      /\ new <= nsegs' /\ nsegs <= nsegs'
  <2>1. CASE pool # <<>>
    <3>1. Len(pool) \in 1..Len(pool) /\ pool' \in Seq(SegIds)
      BY <1>1, <2>1 DEF QueueTyped
    <3> QED BY <1>1, <1>3, <2>1, <3>1 DEF Owned
  <2>2. CASE pool = <<>>
    <3>1. nsegs < NSEG
      BY <1>1, <1>2, <2>2, FreshSegment
    <3> QED BY <1>1, <1>3, <2>2, <3>1 DEF SegIds, QueueTyped
  <2> QED BY <2>1, <2>2
<1>5. /\ Len(pool') \in Nat /\ Len(pool') <= Len(pool)
      /\ \A n \in 1..Len(pool') : pool'[n] = pool[n] /\ n \in 1..Len(pool)
      /\ \A n \in 1..Len(pool') : pool'[n] # new
  <2>1. CASE pool # <<>>
    <3>1. /\ Len(pool) >= 1 /\ Len(pool') = Len(pool) - 1
          /\ \A n \in 1..Len(pool') : pool'[n] = pool[n]
      BY <1>1, <2>1, PoolTop DEF QueueTyped
    <3>2. \A n \in 1..Len(pool') : n \in 1..Len(pool) /\ n # Len(pool)
      BY <1>3, <3>1
    <3>3. Len(pool) \in 1..Len(pool)
      BY <1>3, <3>1
    <3>4. \A n \in 1..Len(pool') : pool[n] # new
      BY <1>1, <2>1, <3>2, <3>3 DEF Owned
    <3> QED BY <1>3, <3>1, <3>2, <3>4
  <2>2. CASE pool = <<>>
    BY <1>1, <1>3, <2>2
  <2> QED BY <2>1, <2>2
<1>6. \A q \in Rows : segs[q] # new
  <2>1. CASE pool # <<>>
    <3>1. Len(pool) \in 1..Len(pool)
      BY <2>1 DEF QueueTyped, QueueInv
    <3> QED BY <1>1, <2>1, <3>1 DEF Owned
  <2>2. CASE pool = <<>>
    BY <1>1, <1>3, <2>2 DEF Owned
  <2> QED BY <2>1, <2>2
<1>7. \A s \in 1..nsegs' : s \in 1..nsegs \/ s = new
  BY <1>1, <1>3
<1>8. ASSUME NEW n \in 1..Len(pool)
      PROVE  pool[n] = new \/ \E m \in 1..Len(pool') : pool'[m] = pool[n]
  <2>1. pool # <<>>
    BY <1>3, <1>8
  <2>2. /\ Len(pool') = Len(pool) - 1
        /\ \A m \in 1..Len(pool') : pool'[m] = pool[m]
    BY <1>1, <2>1, PoolTop DEF QueueTyped
  <2>3. n = Len(pool) \/ n \in 1..Len(pool')
    BY <1>3, <2>2
  <2> QED BY <2>1, <2>2, <2>3
<1> HIDE DEF new, r
<1>9. segs' \in [Rows -> 0..NSEG] /\ segs'[r] = new
      /\ \A q \in Rows : q # r => segs'[q] = segs[q]
  BY <1>1, <1>2, <1>3, <1>4 DEF SegIds
<1>10. \A i \in InFlight : SegOf(i)' = SegOf(i)
  <2>1. \A i \in InFlight : Row(i) \in Rows /\ Row(i) # r
    BY <1>1, <1>2, FlightRow DEF Mapped, SegOf
  <2> QED BY <1>9, <2>1 DEF SegOf
<1>11. new # 0
  BY <1>4 DEF SegIds
<1>12. Mapped'
  <2>1. K' = K /\ InFlight' = InFlight
    BY <1>1 DEF K, InFlight
  <2>2. SegOf(head)' # 0
    BY <1>1, <1>2, <1>9, <1>11 DEF SegOf
  <2> QED BY <1>1, <1>10, <2>1, <2>2 DEF Mapped, Placing, Writing
<1>13. Owned'
  <2>1. \A p, q \in Rows : segs'[p] = segs'[q] /\ segs'[p] # 0 => p = q
    BY <1>1, <1>6, <1>9 DEF Owned
  <2>2. \A q \in Rows : segs'[q] <= nsegs'
    <3>1. \A q \in Rows : segs[q] \in Nat /\ segs[q] <= nsegs
      BY <1>1, <1>3 DEF Owned
    <3> QED BY <1>3, <1>4, <1>9, <3>1
  <2>3. \A n \in 1..Len(pool') : pool'[n] <= nsegs'
    <3>1. \A n \in 1..Len(pool) : pool[n] \in Nat /\ pool[n] <= nsegs
      BY <1>1, <1>3 DEF Owned, SegIds
    <3> QED BY <1>3, <1>4, <1>5, <3>1
  <2>4. \A n, m \in 1..Len(pool') : pool'[n] = pool'[m] => n = m
    BY <1>1, <1>5 DEF Owned
  <2>5. \A q \in Rows, n \in 1..Len(pool') : segs'[q] # pool'[n]
    BY <1>1, <1>5, <1>9 DEF Owned
  <2>6. ASSUME NEW s \in 1..nsegs'
        PROVE  \/ \E q \in Rows : segs'[q] = s
               \/ \E n \in 1..Len(pool') : pool'[n] = s
    <3>1. CASE s = new
      BY <1>2, <1>9, <3>1
    <3>2. CASE s \in 1..nsegs /\ s # new
      <4>1. CASE \E q \in Rows : segs[q] = s
        <5>1. s # 0
          BY <1>3, <3>2
        <5> QED BY <1>2, <1>9, <4>1, <5>1 DEF r
      <4>2. CASE \E n \in 1..Len(pool) : pool[n] = s
        BY <1>8, <3>2, <4>2
      <4> QED BY <1>1, <3>2, <4>1, <4>2 DEF Owned
    <3> QED BY <1>7, <3>1, <3>2
  <2> QED BY <2>1, <2>2, <2>3, <2>4, <2>5, <2>6 DEF Owned
<1> QED BY <1>4, <1>9, <1>10, <1>12, <1>13

LEMMA PublishMapped ==
  ASSUME QueueInv, CommitPublish
  PROVE  Mapped' /\ Owned'
<1>1. /\ QueueTyped /\ Mapped /\ Owned /\ head \in Nat /\ tail \in Nat
      /\ cpc = "publish" /\ cpc' = "idle" /\ head' = head + 1
      /\ UNCHANGED <<tail, utail, segVars>>
  BY DEF QueueInv, QueueTyped, CommitPublish, Commit
<1>2. K' <= K + 1 /\ K \in Nat /\ K' \in Nat
  BY <1>1, NextSegment, Divided DEF K
<1>3. \A i \in InFlight' : i \in InFlight \/ i = head
  BY <1>1 DEF InFlight
<1>4. K - segLo < NSEG - 1 /\ SegOf(head) # 0
  BY <1>1 DEF Mapped, Placing, Writing
<1>5. Mapped'
  <2>1. K' - segLo' <= NSEG - 1
    <3>1. segLo \in Nat /\ segLo' = segLo
      BY <1>1 DEF QueueTyped, segVars
    <3>2. NSEG \in Nat
      BY WatchQueueAssumption
    <3>3. \A a, b, c, n \in Nat : b <= a + 1 /\ a - c < n - 1 => b - c <= n - 1
      OBVIOUS
    <3> QED BY <1>2, <1>4, <3>1, <3>2, <3>3
  <2>2. \A i \in InFlight' : SegOf(i)' # 0
    BY <1>1, <1>3, <1>4 DEF Mapped, SegOf, segVars
  <2>3. tail' <= head' /\ utail' <= tail' /\ segLo' <= tail' \div SEG
    BY <1>1 DEF Mapped, segVars
  <2> QED BY <1>1, <2>1, <2>2, <2>3 DEF Mapped, Placing, Writing
<1>6. Owned'
  BY <1>1 DEF Owned, segVars
<1> QED BY <1>5, <1>6

LEMMA CommitMapped ==
  ASSUME QueueInv, CommitStep
  PROVE  Mapped' /\ Owned'
<1> USE DEF Commit, queueVars, TableKept, Placing, Writing
<1>0. QueueTyped /\ Mapped /\ head \in Nat /\ tail \in Nat /\ segLo \in Nat
  BY DEF QueueInv, QueueTyped
<1>1. CASE Issue BY <1>1, TableKeeps DEF Issue
<1>2. CASE CommitRefused BY <1>2, TableKeeps DEF CommitRefused
<1>3. CASE CommitBegin BY <1>3, TableKeeps DEF CommitBegin
<1>4. CASE CommitRoom BY <1>0, <1>4, NotFull, TableKeeps DEF CommitRoom
<1>5. CASE CommitFull BY <1>5, TableKeeps DEF CommitFull
<1>6. CASE UnmapBegin
  <2>1. UNCHANGED <<head, tail, segVars, log>> /\ utail' = tail
        /\ \/ cpc = "unmapFull" /\ cpc' = "sweepFull"
           \/ cpc = "unmapMap" /\ cpc' = "sweepMap"
    BY <1>6 DEF UnmapBegin
  <2>2. Mapped'
    BY <1>0, <2>1 DEF Mapped, SegOf, K, InFlight, segVars
  <2> QED BY <2>1, <2>2 DEF Owned, QueueInv, segVars
<1>7. CASE UnmapOne BY <1>7, UnmapOneMapped
<1>8. CASE CommitDropped BY <1>8, TableKeeps DEF CommitDropped
<1>9. CASE CommitHasRoom BY <1>0, <1>9, NotFull, TableKeeps DEF CommitHasRoom
<1>10. CASE MapPresent BY <1>10, HeadRow, TableKeeps DEF MapPresent
<1>11. CASE MapRetire BY <1>11, HeadRow, TableKeeps DEF MapRetire
<1>12. CASE MapAlloc BY <1>12, MapAllocMapped
<1>13. CASE CommitEvent BY <1>13, TableKeeps DEF CommitEvent
<1>14. CASE CommitFault BY <1>14, TableKeeps DEF CommitFault
<1>15. CASE CommitRecord BY <1>15, TableKeeps DEF CommitRecord
<1>16. CASE CommitOdd BY <1>16, TableKeeps DEF CommitOdd
<1>17. CASE CommitSeq BY <1>17, TableKeeps DEF CommitSeq
<1>18. CASE CommitWork BY <1>18, TableKeeps DEF CommitWork
<1>19. CASE CommitEven BY <1>19, TableKeeps DEF CommitEven
<1>20. CASE CommitPublish BY <1>20, PublishMapped
<1> QED BY <1>1, <1>2, <1>3, <1>4, <1>5, <1>6, <1>7, <1>8, <1>9, <1>10, <1>11,
           <1>12, <1>13, <1>14, <1>15, <1>16, <1>17, <1>18, <1>19, <1>20
        DEF CommitStep

-----------------------------------------------------------------------------
(* The producer and the slots.                                              *)

\* An entry in flight keeps its segment during a commit.
LEMMA CommitKeepsSegs ==
  ASSUME QueueInv, CommitStep
  PROVE  \A i \in InFlight : SegOf(i)' = SegOf(i)
<1>1. CASE UnmapOne BY <1>1, UnmapOneMapped
<1>2. CASE MapAlloc BY <1>2, MapAllocMapped
<1>3. CASE UNCHANGED segs BY <1>3 DEF SegOf
<1>4. UnmapOne \/ MapAlloc \/ UNCHANGED segs
  BY DEF CommitStep, Issue, CommitRefused, CommitBegin, CommitRoom, CommitFull,
         UnmapBegin, CommitDropped, CommitHasRoom, MapPresent, MapRetire,
         CommitEvent, CommitFault, CommitRecord, CommitOdd, CommitSeq,
         CommitWork, CommitEven, CommitPublish, segVars
<1> QED BY <1>1, <1>2, <1>3, <1>4

\* The slot being written is not one in flight.
LEMMA HeadApart ==
  ASSUME QueueInv, cpc \in Writing, NEW i \in InFlight
  PROVE  ~(SegOf(i) = SegOf(head) /\ i % SEG = head % SEG)
<1> SUFFICES ASSUME SegOf(i) = SegOf(head), i % SEG = head % SEG PROVE FALSE
  OBVIOUS
<1>1. /\ head \in Nat /\ i \in Nat /\ i < head /\ segLo \in Nat
      /\ QueueTyped /\ Mapped /\ Owned
  BY FlightRow DEF QueueInv, QueueTyped, InFlight
<1>2. Row(i) = Row(head)
  <2>1. Row(i) \in Rows /\ Row(head) \in Rows
    BY <1>1, RowTyped
  <2>2. segs[Row(i)] = segs[Row(head)] /\ segs[Row(i)] # 0
    BY <1>1 DEF SegOf, Mapped
  <2> QED BY <1>1, <2>1, <2>2 DEF Owned
<1>3. /\ i \div SEG \in Nat /\ K \in Nat /\ i \div SEG <= K
      /\ K - (i \div SEG) < NSEG
  <2>1. \A a, b, c, d, n \in Nat :
          a <= b /\ b <= c /\ d - a < n => d - c < n /\ d - b < n
    OBVIOUS
  <2>2. segLo <= i \div SEG
    <3>1. \A a, b, c \in Nat : a <= b /\ b <= c => a <= c
      OBVIOUS
    <3> QED BY <1>1, <3>1, FlightRow
  <2>3. NSEG \in Nat
    BY WatchQueueAssumption
  <2> QED BY <1>1, <2>1, <2>2, <2>3, FlightRow
<1>4. i \div SEG = K
  BY <1>2, <1>3, RowsApart DEF Row, K
<1> QED BY <1>1, <1>4, SlotsApart DEF K

\* The slots stay, and no slot is being filled in.
LEMMA SlotsKeep ==
  ASSUME QueueInv, CommitStep, UNCHANGED <<head, tail, mem, log>>,
         cpc \notin MidWrite, cpc' \notin Writing \ {"event"}
  PROVE  Written'
<1>1. InFlight' = InFlight
  BY DEF InFlight
<1>2. \A i \in InFlight : Holds(mem[SegOf(i)][i % SEG], i)
  BY DEF QueueInv, Written
<1>3. \A i \in InFlight' : Holds(mem[SegOf(i)][i % SEG], i)'
  BY <1>1, <1>2, CommitKeepsSegs DEF Holds
<1>4. cpc' \notin MidWrite \cup {"work", "even", "publish"}
  BY DEF Writing, MidWrite
<1>5. \A s \in SegIds, o \in Offsets : mem'[s][o].ver % 2 # 1
  BY DEF QueueInv, Written
<1> QED BY <1>3, <1>4, <1>5 DEF Written

LEMMA HeadPlace ==
  ASSUME QueueInv, cpc \in Writing
  PROVE  /\ SegOf(head) \in SegIds /\ head % SEG \in Offsets
         /\ HeadSlot = mem[SegOf(head)][head % SEG] /\ HeadSlot \in Words
<1>1. head \in Nat /\ segs \in [Rows -> 0..NSEG]
  BY DEF QueueInv, QueueTyped
<1>2. Row(head) \in Rows /\ head % SEG \in Offsets
  BY <1>1, RowTyped, Divided
<1>3. SegOf(head) \in SegIds
  BY <1>1, <1>2, WatchQueueAssumption DEF QueueInv, Mapped, SegOf, SegIds
<1> QED BY <1>2, <1>3 DEF QueueInv, QueueTyped, HeadSlot, SegOf

\* A step that writes the slot at the head writes no slot in flight.
LEMMA HeadWritten ==
  ASSUME QueueInv, cpc \in Writing, NEW w \in Words,
         UNCHANGED <<head, tail, segs>>,
         mem' = [mem EXCEPT ![SegOf(head)][head % SEG] = w]
  PROVE  /\ mem' \in [SegIds -> [Offsets -> Words]]
         /\ HeadSlot' = w /\ SegOf(head)' = SegOf(head)
         /\ \A s \in SegIds, o \in Offsets :
              s # SegOf(head) \/ o # head % SEG => mem'[s][o] = mem[s][o]
         /\ \A i \in InFlight :
              mem'[SegOf(i)][i % SEG] = mem[SegOf(i)][i % SEG]
<1>1. /\ mem \in [SegIds -> [Offsets -> Words]]
      /\ SegOf(head) \in SegIds /\ head % SEG \in Offsets
  BY HeadPlace DEF QueueInv, QueueTyped
<1>2. mem' \in [SegIds -> [Offsets -> Words]]
  BY <1>1
<1>3. SegOf(head)' = SegOf(head) /\ Row(head)' = Row(head)
  BY DEF SegOf, Row
<1>4. \A s \in SegIds, o \in Offsets :
        s # SegOf(head) \/ o # head % SEG => mem'[s][o] = mem[s][o]
  BY <1>1
<1>5. HeadSlot' = w
  BY <1>1, <1>3 DEF HeadSlot, SegOf
<1>6. ASSUME NEW i \in InFlight
      PROVE  mem'[SegOf(i)][i % SEG] = mem[SegOf(i)][i % SEG]
  <2>1. i \in Nat /\ SegOf(i) \in SegIds /\ i % SEG \in Offsets
    <3>1. i \in Nat /\ Row(i) \in Rows /\ SegOf(i) # 0
      BY FlightRow DEF QueueInv, Mapped
    <3>2. SegOf(i) \in 0..NSEG
      BY <3>1 DEF SegOf, QueueInv, QueueTyped
    <3>3. NSEG \in Nat
      BY WatchQueueAssumption
    <3> QED BY <3>1, <3>2, <3>3, Divided DEF SegIds
  <2> QED BY <1>4, <2>1, HeadApart
<1> QED BY <1>2, <1>3, <1>4, <1>5, <1>6


\* A word of the slot at the head is written.
LEMMA WordWritten ==
  ASSUME QueueInv, cpc \in Writing \ {"publish"}, cpc' \in Writing \ {"event"},
         NEW w \in Words, UNCHANGED <<head, tail, segs, seq, issued, log>>,
         mem' = [mem EXCEPT ![SegOf(head)][head % SEG] = w],
         w.ver % 2 = 1 <=> cpc' \in MidWrite,
         w.event,
         cpc' # "record" => w.rec = issued,
         cpc' \in {"work", "even", "publish"} => w.seq = seq,
         cpc' \in {"even", "publish"} => w.work = issued
  PROVE  Written' /\ mem' \in [SegIds -> [Offsets -> Words]]
<1>1. InFlight' = InFlight
  BY DEF InFlight
<1>2. /\ HeadSlot' = w /\ SegOf(head)' = SegOf(head)
      /\ mem' \in [SegIds -> [Offsets -> Words]]
      /\ \A s \in SegIds, o \in Offsets :
           s # SegOf(head) \/ o # head % SEG => mem'[s][o] = mem[s][o]
      /\ \A i \in InFlight :
           mem'[SegOf(i)][i % SEG] = mem[SegOf(i)][i % SEG]
  BY HeadWritten
<1>3. \A i \in InFlight' : Holds(mem[SegOf(i)][i % SEG], i)'
  <2>1. \A i \in InFlight : Holds(mem[SegOf(i)][i % SEG], i)
    BY DEF QueueInv, Written
  <2> QED BY <1>1, <1>2, <2>1 DEF Holds, SegOf
<1>4. \A s \in SegIds, o \in Offsets :
        mem'[s][o].ver % 2 = 1 =>
          cpc' \in MidWrite /\ s = SegOf(head)' /\ o = head' % SEG
  <2>1. HeadSlot' = mem'[SegOf(head)][head % SEG]
    BY <1>2 DEF HeadSlot, SegOf
  <2>2. \A s \in SegIds, o \in Offsets :
          mem[s][o].ver % 2 = 1 => s = SegOf(head) /\ o = head % SEG
    BY DEF QueueInv, Written
  <2> QED BY <1>2, <2>1, <2>2
<1> QED BY <1>2, <1>3, <1>4 DEF Written, Writing, MidWrite

LEMMA CommitWritten ==
  ASSUME QueueInv, CommitStep
  PROVE  Written' /\ mem' \in [SegIds -> [Offsets -> Words]]
<1> USE DEF Commit, queueVars, segVars, prodVars, gpuVars
<1> DEFINE h == HeadSlot
<1>1. CASE cpc \in Writing \ {"publish"} /\ cpc' # "idle"
  <2>1. /\ h \in Words /\ issued \in Nat /\ seq \in Nat
        /\ h = mem[SegOf(head)][head % SEG]
    BY <1>1, HeadPlace DEF QueueInv, QueueTyped
  <2>2. /\ cpc \in MidWrite => h.ver % 2 = 1
        /\ cpc \notin MidWrite => h.ver % 2 # 1
        /\ cpc # "event" => h.event
        /\ cpc \notin {"event", "record"} => h.rec = issued
        /\ cpc \in {"work", "even", "publish"} => h.seq = seq
        /\ cpc \in {"even", "publish"} => h.work = issued
    <3>1. cpc \notin MidWrite => h.ver % 2 # 1
      BY <1>1, HeadPlace DEF QueueInv, Written
    <3> QED BY <1>1, <3>1 DEF QueueInv, Written
  <2> HIDE DEF h
  <2>3. CASE CommitEvent
    <3> DEFINE w == [h EXCEPT !.event = TRUE]
    <3>1. /\ w \in Words /\ w.ver = h.ver /\ w.event
      BY <2>1 DEF Words
    <3>2. /\ mem' = [mem EXCEPT ![SegOf(head)][head % SEG] = w]
          /\ cpc = "event" /\ cpc' = "record"
          /\ UNCHANGED <<head, tail, segs, seq, issued, log>>
      BY <2>1, <2>3 DEF CommitEvent, SetHeadSlot, SegOf
    <3> HIDE DEF w
    <3> QED BY <2>2, <3>1, <3>2, WordWritten DEF Writing, MidWrite
  <2>4. CASE CommitRecord
    <3> DEFINE w == [h EXCEPT !.rec = issued]
    <3>1. /\ w \in Words /\ w.ver = h.ver /\ w.event = h.event
          /\ w.rec = issued
      BY <2>1 DEF Words
    <3>2. /\ mem' = [mem EXCEPT ![SegOf(head)][head % SEG] = w]
          /\ cpc = "record" /\ cpc' = "odd"
          /\ UNCHANGED <<head, tail, segs, seq, issued, log>>
      BY <2>1, <2>4 DEF CommitRecord, SetHeadSlot, SegOf
    <3> HIDE DEF w
    <3> QED BY <2>2, <3>1, <3>2, WordWritten DEF Writing, MidWrite
  <2>5. CASE CommitOdd
    <3> DEFINE w == [h EXCEPT !.ver = h.ver + 1]
    <3>1. /\ w \in Words /\ w.ver = h.ver + 1 /\ w.event = h.event
          /\ w.rec = h.rec /\ h.ver \in Nat
      BY <2>1 DEF Words
    <3>2. /\ mem' = [mem EXCEPT ![SegOf(head)][head % SEG] = w]
          /\ cpc = "odd" /\ cpc' = "seq"
          /\ UNCHANGED <<head, tail, segs, seq, issued, log>>
      BY <2>1, <2>5 DEF CommitOdd, SetHeadSlot, SegOf, h
    <3>3. w.ver % 2 = 1
      BY <2>2, <3>1, <3>2 DEF MidWrite
    <3> HIDE DEF w
    <3> QED BY <2>2, <3>1, <3>2, <3>3, WordWritten DEF Writing, MidWrite
  <2>6. CASE CommitSeq
    <3> DEFINE w == [h EXCEPT !.seq = seq]
    <3>1. /\ w \in Words /\ w.ver = h.ver /\ w.event = h.event
          /\ w.rec = h.rec /\ w.seq = seq
      BY <2>1 DEF Words
    <3>2. /\ mem' = [mem EXCEPT ![SegOf(head)][head % SEG] = w]
          /\ cpc = "seq" /\ cpc' = "work"
          /\ UNCHANGED <<head, tail, segs, seq, issued, log>>
      BY <2>1, <2>6 DEF CommitSeq, SetHeadSlot, SegOf
    <3> HIDE DEF w
    <3> QED BY <2>2, <3>1, <3>2, WordWritten DEF Writing, MidWrite
  <2>7. CASE CommitWork
    <3> DEFINE w == [h EXCEPT !.work = issued]
    <3>1. /\ w \in Words /\ w.ver = h.ver /\ w.event = h.event
          /\ w.rec = h.rec /\ w.seq = h.seq /\ w.work = issued
      BY <2>1 DEF Words
    <3>2. /\ mem' = [mem EXCEPT ![SegOf(head)][head % SEG] = w]
          /\ cpc = "work" /\ cpc' = "even"
          /\ UNCHANGED <<head, tail, segs, seq, issued, log>>
      BY <2>1, <2>7 DEF CommitWork, SetHeadSlot, SegOf
    <3> HIDE DEF w
    <3> QED BY <2>2, <3>1, <3>2, WordWritten DEF Writing, MidWrite
  <2>8. CASE CommitEven
    <3> DEFINE w == [h EXCEPT !.ver = h.ver + 1]
    <3>1. /\ w \in Words /\ w.ver = h.ver + 1 /\ w.event = h.event
          /\ w.rec = h.rec /\ w.seq = h.seq /\ w.work = h.work /\ h.ver \in Nat
      BY <2>1 DEF Words
    <3>2. /\ mem' = [mem EXCEPT ![SegOf(head)][head % SEG] = w]
          /\ cpc = "even" /\ cpc' = "publish"
          /\ UNCHANGED <<head, tail, segs, seq, issued, log>>
      BY <2>1, <2>8 DEF CommitEven, SetHeadSlot, SegOf, h
    <3>3. w.ver % 2 # 1
      BY <2>2, <3>1, <3>2 DEF MidWrite
    <3> HIDE DEF w
    <3> QED BY <2>2, <3>1, <3>2, <3>3, WordWritten DEF Writing, MidWrite
  <2> QED BY <1>1, <2>3, <2>4, <2>5, <2>6, <2>7, <2>8
          DEF CommitStep, Issue, CommitRefused, CommitBegin, CommitRoom,
              CommitFull, UnmapBegin, UnmapOne, CommitDropped, CommitHasRoom,
              MapPresent, MapRetire, MapAlloc, CommitFault, CommitPublish,
              Writing
<1>2. CASE ~(cpc \in Writing \ {"publish"} /\ cpc' # "idle")
  <2>1. CASE CommitPublish
    <3>1. /\ cpc = "publish" /\ cpc' = "idle" /\ head' = head + 1
          /\ \A i \in 1..head : log'[i] = log[i]
          /\ log'[head + 1].seq = seq /\ log'[head + 1].work = issued
          /\ head \in Nat /\ tail \in Nat
      BY <2>1, Appended DEF QueueInv, QueueTyped
    <3>2. UNCHANGED <<tail, segs, mem, seq, issued>>
      BY <2>1 DEF CommitPublish
    <3>3. /\ HeadSlot = mem[SegOf(head)][head % SEG]
          /\ HeadSlot.event /\ HeadSlot.ver % 2 = 0
          /\ HeadSlot.seq = seq /\ HeadSlot.work = issued
          /\ HeadSlot.rec = issued
      <4>1. /\ HeadSlot = mem[SegOf(head)][head % SEG] /\ HeadSlot.ver \in Nat
            /\ HeadSlot.ver % 2 # 1
        BY <3>1, HeadPlace DEF QueueInv, Written, MidWrite, Writing, Words
      <4>2. /\ HeadSlot.event /\ HeadSlot.rec = issued
            /\ HeadSlot.seq = seq /\ HeadSlot.work = issued
        BY <3>1 DEF QueueInv, Written, Writing
      <4> QED BY <4>1, <4>2
    <3>4. ASSUME NEW i \in InFlight'
          PROVE  Holds(mem[SegOf(i)][i % SEG], i)'
      <4>1. CASE i = head
        BY <3>1, <3>2, <3>3, <4>1 DEF Holds, SegOf
      <4>2. CASE i \in InFlight
        <5>1. log'[i + 1] = log[i + 1]
          BY <3>1, <4>2 DEF InFlight
        <5> QED BY <3>2, <4>2, <5>1 DEF Holds, SegOf, QueueInv, Written
      <4> QED BY <3>1, <3>2, <4>1, <4>2 DEF InFlight
    <3>5. \A s \in SegIds, o \in Offsets : mem'[s][o].ver % 2 # 1
      BY <3>1, <3>2 DEF QueueInv, Written, MidWrite
    <3>6. Written'
      BY <3>1, <3>4, <3>5 DEF Written, MidWrite, Writing
    <3> QED BY <3>2, <3>6 DEF QueueInv, QueueTyped
  <2>2. CASE ~CommitPublish
    <3>1. /\ UNCHANGED <<head, tail, mem, log>>
          /\ cpc \notin MidWrite /\ cpc' \notin Writing \ {"event"}
      <4> USE DEF MidWrite, Writing
      <4>1. CASE Issue \/ CommitRefused \/ CommitBegin \/ CommitRoom \/ CommitFull
        BY <4>1 DEF Issue, CommitRefused, CommitBegin, CommitRoom, CommitFull
      <4>2. CASE UnmapBegin \/ UnmapOne \/ CommitDropped \/ CommitHasRoom
        BY <4>2 DEF UnmapBegin, UnmapOne, CommitDropped, CommitHasRoom
      <4>3. CASE MapPresent \/ MapRetire \/ MapAlloc \/ CommitFault
        BY <4>3 DEF MapPresent, MapRetire, MapAlloc, CommitFault
      <4> QED BY <1>2, <2>2, <4>1, <4>2, <4>3
              DEF CommitStep, CommitEvent, CommitRecord, CommitOdd, CommitSeq,
                  CommitWork, CommitEven
    <3> QED BY <3>1, SlotsKeep DEF QueueInv, QueueTyped
  <2> QED BY <2>1, <2>2
<1> QED BY <1>1, <1>2

\* The words of the queue keep their types.
LEMMA CommitTyped ==
  ASSUME QueueInv, CommitStep
  PROVE  QueueTyped'
<1> USE DEF Commit, queueVars, segVars, prodVars, gpuVars, frVars
<1>1. mem' \in [SegIds -> [Offsets -> Words]]
  BY CommitWritten
<1>2. /\ segs' \in [Rows -> 0..NSEG] /\ segLo' \in Nat
      /\ pool' \in Seq(SegIds) /\ nsegs' \in 0..NSEG
  <2>1. CASE UnmapOne
    BY <2>1, UnmapOneMapped DEF UnmapOne, QueueInv, QueueTyped
  <2>2. CASE MapAlloc
    BY <2>2, MapAllocMapped DEF MapAlloc, QueueInv, QueueTyped
  <2>3. CASE UNCHANGED segVars
    BY <2>3 DEF QueueInv, QueueTyped
  <2> QED BY <2>1, <2>2, <2>3
          DEF CommitStep, Issue, CommitRefused, CommitBegin, CommitRoom,
              CommitFull, UnmapBegin, CommitDropped, CommitHasRoom, MapPresent,
              MapRetire, CommitEvent, CommitFault, CommitRecord, CommitOdd,
              CommitSeq, CommitWork, CommitEven, CommitPublish
<1>3. /\ head' \in Nat /\ tail' \in Nat /\ done' \in Nat /\ seq' \in Nat
      /\ cpc' \in {"idle", "begin"} \cup Committing
      /\ issued' \in Nat /\ completed' \in Nat /\ untracked' \subseteq Nat
      /\ log' \in Seq([seq : Nat, work : Nat])
  <2>1. CASE Onward
    BY <2>1, OnwardCounts DEF QueueInv, QueueTyped
  <2>2. CASE Issue \/ CommitRefused \/ CommitBegin \/ CommitDropped \/ CommitFault
    <3>1. CASE Issue
      BY <3>1 DEF Issue, QueueInv, QueueTyped
    <3>2. CASE CommitBegin
      BY <3>2 DEF CommitBegin, QueueInv, QueueTyped, Committing
    <3>3. CASE CommitRefused \/ CommitDropped \/ CommitFault
      <4>1. /\ cpc' = "idle" /\ untracked' = untracked \cup {issued}
            /\ UNCHANGED <<head, tail, done, seq, gpuVars, log>>
        BY <3>3 DEF CommitRefused, CommitDropped, CommitFault
      <4> QED BY <4>1 DEF QueueInv, QueueTyped
    <3> QED BY <2>2, <3>1, <3>2, <3>3
  <2>3. CASE CommitPublish
    BY <2>3, Appended DEF CommitPublish, QueueInv, QueueTyped
  <2> QED BY <2>1, <2>2, <2>3 DEF CommitStep, Onward
<1>4. utail' \in Nat
  BY DEF CommitStep, Issue, CommitRefused, CommitBegin, CommitRoom,
         CommitFull, UnmapBegin, UnmapOne, CommitDropped, CommitHasRoom,
         MapPresent, MapRetire, MapAlloc, CommitEvent, CommitFault,
         CommitRecord, CommitOdd, CommitSeq, CommitWork, CommitEven,
         CommitPublish, QueueInv, QueueTyped
<1> QED BY <1>1, <1>2, <1>3, <1>4 DEF QueueTyped

LEMMA CommitKeeps ==
  ASSUME QueueInv, Accounted, CommitStep
  PROVE  QueueInv' /\ Accounted'
<1>1. Logged' /\ Accounted'
  BY CommitLogged DEF QueueInv
<1> QED BY <1>1, CommitMapped, CommitWritten, CommitTyped DEF QueueInv

-----------------------------------------------------------------------------
(* What another thread's step leaves true of a retirer's locals.            *)

\* The queue as every thread sees it moves on: entries are appended, the tail
\* advances, work completes, and entries in flight keep their segments.
MovesOn ==
  /\ tail <= tail' /\ head <= head' /\ completed <= completed'
  /\ tail' \in Nat /\ head' \in Nat /\ completed' \in Nat
  /\ \A i \in 1..head : log'[i] = log[i]
  /\ tail' = tail => \A i \in InFlight : SegOf(i)' = SegOf(i)

LEMMA CompleteKept ==
  ASSUME QueueInv, MovesOn, NEW n \in Nat, n <= head, Complete(n)
  PROVE  Complete(n)'
<1> SUFFICES ASSUME NEW j \in 1..n PROVE completed' >= log'[j].work
  BY DEF Complete
<1>1. j \in 1..head
  BY DEF QueueInv, QueueTyped
<1>2. log'[j] = log[j] /\ completed \in Nat
  BY <1>1 DEF MovesOn, QueueInv, QueueTyped
<1>3. completed >= log[j].work
  BY DEF Complete
<1>4. log[j].work \in 1..issued /\ issued \in Nat
  BY <1>1 DEF QueueInv, QueueTyped, Logged
<1>5. completed <= completed' /\ completed' \in Nat
  BY DEF MovesOn
<1> QED BY <1>2, <1>3, <1>4, <1>5

LEMMA WorksKept ==
  ASSUME QueueInv, MovesOn, NEW n \in Nat, n <= head
  PROVE  WorksTo(n)' = WorksTo(n)
<1>1. \A j \in 1..n : j \in 1..head
  BY DEF QueueInv, QueueTyped
<1>2. \A j \in 1..n : log'[j] = log[j]
  BY <1>1 DEF MovesOn
<1> QED BY <1>2 DEF WorksTo

LEMMA LocalsTyped ==
  ASSUME RetireTyped, NEW r \in Retirers
  PROVE  /\ rpc[r] \in Resting \cup Loaded /\ loc[r] \in Locals
         /\ loc[r].tail \in Nat /\ loc[r].head \in Nat /\ loc[r].lo \in Nat
         /\ loc[r].hi \in Nat /\ loc[r].i \in Nat /\ loc[r].end \in Nat
         /\ loc[r].seq \in Nat /\ loc[r].ids \subseteq Nat
BY DEF RetireTyped, Locals

LEMMA RetiringKept ==
  ASSUME QueueInv, RetireTyped, MovesOn, NEW r \in Retirers, Retiring(r),
         rpc'[r] = rpc[r], loc'[r] = loc[r]
  PROVE  Retiring(r)'
<1>0. PICK l, pc : l = loc[r] /\ pc = rpc[r]
  OBVIOUS
<1>1. /\ l.tail \in Nat /\ l.head \in Nat /\ l.lo \in Nat /\ l.hi \in Nat
      /\ l.i \in Nat /\ l.end \in Nat
      /\ tail \in Nat /\ head \in Nat
  BY <1>0, LocalsTyped DEF QueueInv, QueueTyped
<1>2. RetiringAt(pc, l)
  BY <1>0 DEF Retiring
<1>3. /\ tail <= tail' /\ head <= head' /\ tail' \in Nat /\ head' \in Nat
      /\ tail <= head
  BY DEF MovesOn, QueueInv, Mapped
<1> USE DEF Searching, Found, Moved
<1>4. pc \in Loaded => l.tail <= tail'
  BY <1>1, <1>2, <1>3 DEF RetiringAt
<1>5. pc \in Loaded /\ tail' = l.tail => tail' = tail
  BY <1>1, <1>2, <1>3 DEF RetiringAt
<1>6. pc \in Searching \cup Found \cup Moved =>
        l.tail < l.head /\ l.head <= head /\ l.head <= head'
  BY <1>1, <1>2, <1>3 DEF RetiringAt
<1>7. ASSUME pc \in Searching, tail' = l.tail PROVE Complete(l.lo)'
  <2>1. l.lo <= head /\ tail = l.tail
    BY <1>1, <1>2, <1>3, <1>5, <1>6, <1>7 DEF RetiringAt, Loaded
  <2> QED BY <1>1, <1>2, <1>7, <2>1, CompleteKept DEF RetiringAt
<1>8. ASSUME pc \in Found, tail' = l.tail PROVE Complete(l.end)'
  <2>1. l.end <= head /\ tail = l.tail
    BY <1>1, <1>2, <1>3, <1>5, <1>6, <1>8 DEF RetiringAt, Loaded
  <2> QED BY <1>1, <1>2, <1>8, <2>1, CompleteKept DEF RetiringAt
<1>9. ASSUME pc \in {"event", "query", "id"}, tail' = l.tail
      PROVE  SegOf(l.i)' = SegOf(l.i) /\ tail = l.tail
  <2>1. tail = l.tail
    BY <1>5, <1>9 DEF Loaded
  <2>2. tail <= l.i /\ l.i < head
    BY <1>1, <1>2, <1>6, <1>9, <2>1 DEF RetiringAt
  <2> QED BY <1>1, <1>9, <2>1, <2>2 DEF InFlight, MovesOn
<1>10. ASSUME pc = "seq", tail' = l.tail
       PROVE  SegOf(l.end - 1)' = SegOf(l.end - 1) /\ tail = l.tail
  <2>1. tail = l.tail
    BY <1>5, <1>10 DEF Loaded
  <2>2. tail <= l.end - 1 /\ l.end - 1 < head
    BY <1>1, <1>2, <1>6, <1>10, <2>1 DEF RetiringAt
  <2> QED BY <1>1, <1>10, <2>1, <2>2 DEF InFlight, MovesOn
<1>11. ASSUME pc \in {"idSeg", "id", "cas"} \cup Moved
       PROVE  /\ log'[l.end] = log[l.end] /\ WorksTo(l.end)' = WorksTo(l.end)
  <2>1. l.end \in 1..head /\ l.end <= head
    BY <1>1, <1>2, <1>6, <1>11 DEF RetiringAt
  <2> QED BY <1>1, <2>1, WorksKept DEF MovesOn
<1>12. pc \in Moved => l.end <= tail'
  BY <1>1, <1>2, <1>3 DEF RetiringAt
<1>13. RetiringAt(pc, l)'
  BY <1>2, <1>4, <1>5, <1>6, <1>7, <1>8, <1>9, <1>10, <1>11, <1>12
     DEF RetiringAt, Loaded
<1> QED BY <1>0, <1>13 DEF Retiring

-----------------------------------------------------------------------------
(* A retirer's step that leaves the queue as it is.                         *)

Still == UNCHANGED <<head, tail, segs, log, completed, claimed, dogVars>>

\* The step takes r to a place and to locals of which all that is claimed
\* holds in the state it is taken in.
Goes(r) ==
  \E pc \in Resting \cup Loaded, l \in Locals :
    /\ Next_(r, pc, l) /\ RetiringAt(pc, l)
    /\ r = "dog" => ReadingAt(pc, l) /\ ReportingAt(pc, l)

LEMMA GoesOn ==
  ASSUME RetireTyped, Still, NEW r \in Retirers, Goes(r)
  PROVE  /\ RetireTyped' /\ Retiring(r)'
         /\ \A q \in Retirers \ {r} : rpc'[q] = rpc[q] /\ loc'[q] = loc[q]
         /\ r = "dog" => Reading' /\ Reporting'
<1>1. PICK pc \in Resting \cup Loaded, l \in Locals :
        /\ Next_(r, pc, l) /\ RetiringAt(pc, l)
        /\ r = "dog" => ReadingAt(pc, l) /\ ReportingAt(pc, l)
  BY DEF Goes
<1>2. /\ rpc'[r] = pc /\ loc'[r] = l /\ RetireTyped'
      /\ \A q \in Retirers \ {r} : rpc'[q] = rpc[q] /\ loc'[q] = loc[q]
  BY <1>1 DEF RetireTyped, Next_
<1>3. RetiringAt(pc, l)'
  BY <1>1 DEF Still, RetiringAt, Complete, WorksTo, SegOf
<1>4. r = "dog" => ReadingAt(pc, l)'
  BY <1>1 DEF Still, ReadingAt, SegOf
<1>5. r = "dog" => ReportingAt(pc, l)'
  BY <1>1 DEF Still, ReportingAt, dogVars
<1> QED BY <1>2, <1>3, <1>4, <1>5 DEF Retiring, Reading, Reporting

LEMMA Loc0Typed == Loc0 \in Locals /\ Loc0.ids = {}
BY WatchQueueAssumption DEF Loc0, Locals, Offsets

\* The step ends the retirement, or looks again.
LEMMA RestGoes ==
  ASSUME RetireTyped, Reporting, NEW r \in Retirers,
         rpc[r] \in Loaded \ Lines,
         NEW pc \in {"idle", "closed", "wait", "check", "fault"},
         Next_(r, pc, Loc0)
  PROVE  Goes(r)
<1>1. RetiringAt(pc, Loc0) /\ ReadingAt(pc, Loc0)
  BY DEF RetiringAt, ReadingAt, Searching, Found, Moved, Reads, Lines, Loaded
<1>2. r = "dog" => ReportingAt(pc, Loc0)
  BY DEF Reporting, ReportingAt, Searching, Found, Moved, Reads, Lines, Loaded,
         Resting
<1> QED BY <1>1, <1>2, Loc0Typed DEF Goes, Resting

\* What was reported concerns a retirer of the search no further.
LEMMA ReportStays ==
  ASSUME Reporting, rpc["dog"] \in Loaded \ Lines,
         NEW pc \in {"head"} \cup Searching \cup Found \cup Moved,
         NEW l, l.tail = loc["dog"].tail,
         l.pass = loc["dog"].pass
  PROVE  ReportingAt(pc, l)
BY DEF Reporting, ReportingAt, Searching, Found, Moved, Reads, Lines, Loaded,
       Resting

LEMMA NotReading ==
  ASSUME NEW pc \in {"head"} \cup Searching \cup Found \cup Moved, NEW l
  PROVE  ReadingAt(pc, l)
BY DEF ReadingAt, Searching, Found, Moved, Reads, Lines

LEMMA BoundedGoes ==
  ASSUME QueueInv, RetireTyped, Reporting, NEW r \in Retirers, Retiring(r),
         rpc[r] \in Searching, NEW end \in Nat, NEW err \in BOOLEAN,
         Bounded(r, end, err),
         loc[r].tail <= end, end <= loc[r].head,
         tail = loc[r].tail => Complete(end)
  PROVE  Goes(r)
<1>1. CASE \E pc \in {"wait", "idle", "closed"} : Next_(r, pc, Loc0)
  BY <1>1, RestGoes DEF Loaded, Lines, Searching
<1>2. CASE /\ r = "dog" \/ end > loc[r].tail
           /\ Next_(r, IF r = "dog" THEN "bound" ELSE "seqSeg",
                 [loc[r] EXCEPT !.end = end, !.err = err, !.i = 0,
                                !.lo = 0, !.hi = 0, !.ev = NoEvent, !.seg = 0])
  <2> DEFINE l == [loc[r] EXCEPT !.end = end, !.err = err, !.i = 0, !.lo = 0,
                                 !.hi = 0, !.ev = NoEvent, !.seg = 0]
             pc == IF r = "dog" THEN "bound" ELSE "seqSeg"
  <2>1. /\ l \in Locals /\ l.tail = loc[r].tail /\ l.pass = loc[r].pass
        /\ l.head = loc[r].head
        /\ l.end = end /\ l.ids = loc[r].ids
    <3>1. NoEvent \in (0..NSEG) \X Offsets /\ 0 \in 0..NSEG
      BY WatchQueueAssumption DEF NoEvent, Offsets
    <3>2. loc[r] \in Locals
      BY LocalsTyped
    <3> QED BY <3>1, <3>2 DEF Locals
  <2>2. pc \in Found /\ pc \in {"bound", "seqSeg"}
        /\ (pc # "bound" => end > loc[r].tail)
    BY <1>2 DEF Found
  <2>3. Next_(r, pc, l)
    BY <1>2
  <2> HIDE DEF l, pc
  <2>4. RetiringAt(pc, l)
    <3>1. /\ loc[r].tail <= tail /\ loc[r].tail < loc[r].head
          /\ loc[r].head <= head /\ loc[r].ids = {}
      BY DEF Retiring, RetiringAt, Loaded, Searching
    <3>2. loc[r].tail \in Nat
      BY LocalsTyped
    <3> QED BY <2>1, <2>2, <3>1, <3>2
            DEF RetiringAt, Searching, Found, Moved, Loaded
  <2>5. r = "dog" => ReadingAt(pc, l) /\ ReportingAt(pc, l)
    BY <2>1, <2>2, NotReading, ReportStays DEF Loaded, Lines, Searching, Found
  <2> QED BY <2>1, <2>2, <2>3, <2>4, <2>5 DEF Goes, Loaded
<1> QED BY <1>1, <1>2 DEF Bounded, Return, Idle


\* An entry the search looks at is in flight unless the tail moved.
LEMMA SearchedInFlight ==
  ASSUME QueueInv, RetireTyped, NEW r \in Retirers, Retiring(r),
         rpc[r] \in Searching, tail = loc[r].tail
  PROVE  /\ loc[r].i \in InFlight /\ SegOf(loc[r].i) # 0
         /\ EventOf(SegOf(loc[r].i), loc[r].i)
              = <<SegOf(loc[r].i), loc[r].i % SEG>>
<1>1. loc[r].i \in InFlight
  <2>1. /\ loc[r].tail <= loc[r].lo /\ loc[r].lo <= loc[r].i
        /\ loc[r].i < loc[r].head /\ loc[r].head <= head
    BY DEF Retiring, RetiringAt, Searching
  <2>2. /\ loc[r].tail \in Nat /\ loc[r].lo \in Nat /\ loc[r].i \in Nat
        /\ loc[r].head \in Nat /\ head \in Nat
    BY LocalsTyped DEF QueueInv, QueueTyped
  <2> QED BY <2>1, <2>2 DEF InFlight
<1>2. SegOf(loc[r].i) # 0
  BY <1>1 DEF QueueInv, Mapped
<1>3. mem[SegOf(loc[r].i)][loc[r].i % SEG].event
  BY <1>1 DEF QueueInv, Written, Holds
<1> QED BY <1>1, <1>2, <1>3 DEF EventOf, Slot

\* The commits up to one that finished are finished.
LEMMA FinishedUpTo ==
  ASSUME QueueInv, NEW n \in 1..head, completed >= log[n].work
  PROVE  Complete(n)
<1> SUFFICES ASSUME NEW j \in 1..n PROVE completed >= log[j].work
  BY DEF Complete
<1>1. j \in 1..head /\ log[j].work \in Nat /\ log[n].work \in Nat
  <2>1. head \in Nat /\ issued \in Nat
    BY DEF QueueInv, QueueTyped
  <2>2. \A i \in 1..head : log[i].work \in 1..issued
    BY DEF QueueInv, Logged
  <2>3. j \in 1..head
    BY <2>1
  <2> QED BY <2>1, <2>2, <2>3
<1>2. j = n \/ log[j].work < log[n].work
  BY <1>1 DEF QueueInv, Logged
<1>3. completed \in Nat
  BY DEF QueueInv, QueueTyped
<1> QED BY <1>1, <1>2, <1>3

\* An event seen done is that of the entry looked at, and all before it.
LEMMA SeenDone ==
  ASSUME QueueInv, RetireTyped, NEW r \in Retirers, Retiring(r),
         rpc[r] = "query", EventDone(loc[r].ev), tail = loc[r].tail
  PROVE  Complete(loc[r].i + 1)
<1>1. loc[r].i \in InFlight /\ SegOf(loc[r].i) # 0
  BY SearchedInFlight DEF Searching
<1>2. loc[r].ev = <<SegOf(loc[r].i), loc[r].i % SEG>>
  BY DEF Retiring, RetiringAt
<1>3. completed >= mem[SegOf(loc[r].i)][loc[r].i % SEG].rec
  BY <1>2 DEF EventDone
<1>4. completed >= log[loc[r].i + 1].work
  BY <1>1, <1>3 DEF QueueInv, Written, Holds
<1>5. loc[r].i + 1 \in 1..head
  BY <1>1 DEF InFlight, QueueInv, QueueTyped
<1> QED BY <1>4, <1>5, FinishedUpTo

\* The middle of an interval of indices.
LEMMA Middle ==
  ASSUME NEW lo \in Nat, NEW hi \in Nat, lo < hi
  PROVE  (lo + hi) \div 2 \in Nat /\ lo <= (lo + hi) \div 2
         /\ (lo + hi) \div 2 < hi
OBVIOUS

LEMMA SearchGoes ==
  ASSUME QueueInv, RetireTyped, Reporting, NEW r \in Retirers, Retiring(r),
         rpc[r] \in Searching, NEW lo \in Nat, NEW hi \in Nat,
         Search(r, lo, hi),
         loc[r].tail <= lo, lo <= hi, hi < loc[r].head,
         tail = loc[r].tail => Complete(lo)
  PROVE  Goes(r)
<1>0. /\ loc[r] \in Locals /\ loc[r].head \in Nat /\ loc[r].tail \in Nat
      /\ loc[r].tail <= tail /\ loc[r].tail < loc[r].head
      /\ loc[r].head <= head /\ loc[r].ids = {}
  BY LocalsTyped DEF Retiring, RetiringAt, Loaded, Searching
<1>1. CASE lo < hi
  <2> DEFINE m == (lo + hi) \div 2
             l == [loc[r] EXCEPT !.lo = lo, !.hi = hi, !.i = m]
  <2>1. m \in Nat /\ lo <= m /\ m < hi
    BY <1>1, Middle
  <2>2. Next_(r, "point", l)
    BY <1>1 DEF Search
  <2> HIDE DEF m
  <2>3. /\ l \in Locals /\ l.tail = loc[r].tail /\ l.pass = loc[r].pass
        /\ l.head = loc[r].head
        /\ l.lo = lo /\ l.hi = hi /\ l.i = m /\ l.ids = loc[r].ids
    BY <1>0, <2>1 DEF Locals
  <2> HIDE DEF l
  <2>4. RetiringAt("point", l)
    BY <1>0, <1>1, <2>1, <2>3 DEF RetiringAt, Searching, Found, Moved, Loaded
  <2>5. r = "dog" => ReadingAt("point", l) /\ ReportingAt("point", l)
    BY <2>3, NotReading, ReportStays DEF Loaded, Lines, Searching, Found
  <2> QED BY <2>2, <2>3, <2>4, <2>5 DEF Goes, Loaded, Searching
<1>2. CASE ~(lo < hi)
  <2>1. Bounded(r, lo, FALSE)
    BY <1>2 DEF Search
  <2>2. lo <= loc[r].head
    BY <1>0
  <2> QED BY <2>1, <2>2, BoundedGoes
<1> QED BY <1>1, <1>2


\* The steps of a retirement before and after the compare-exchange.
LEMMA SearchStepGoes ==
  ASSUME QueueInv, Retired, RetireTyped, Reporting, NEW r \in Retirers, Retiring(r),
         LoadTail(r) \/ LoadHead(r) \/ BoundaryPoint(r) \/ BoundaryEvent(r)
           \/ QueryDone(r) \/ QueryPending(r) \/ QueryError(r)
  PROVE  Goes(r)
<1>0. /\ loc[r] \in Locals /\ loc[r].head \in Nat /\ loc[r].tail \in Nat
      /\ loc[r].lo \in Nat /\ loc[r].hi \in Nat /\ loc[r].i \in Nat
      /\ head \in Nat /\ tail \in Nat /\ tail <= head /\ Complete(tail)
  BY LocalsTyped DEF QueueInv, QueueTyped, Mapped, Retired
<1>1. CASE LoadTail(r)
  <2> DEFINE l == [Loc0 EXCEPT !.tail = tail]
  <2>1. l \in Locals /\ l.tail = tail /\ l.ids = {} /\ l.pass = 0
    BY <1>0, Loc0Typed DEF Locals, Loc0
  <2>2. Next_(r, "head", l) /\ rpc[r] = "tail"
    BY <1>1 DEF LoadTail, At
  <2> HIDE DEF l
  <2>3. RetiringAt("head", l)
    BY <1>0, <2>1 DEF RetiringAt, Searching, Found, Moved, Loaded
  <2>4. r = "dog" => ReportingAt("head", l)
    BY <2>1, <2>2 DEF Reporting, ReportingAt, Loaded, Searching, Found, Moved,
                      Reads, Lines, Resting
  <2> QED BY <2>1, <2>2, <2>3, <2>4, NotReading DEF Goes, Loaded
<1>2. CASE LoadHead(r)
  <2>0. rpc[r] = "head" /\ loc[r].tail <= tail
    BY <1>2 DEF LoadHead, At, Retiring, RetiringAt, Loaded
  <2>1. CASE head = loc[r].tail
    BY <1>2, <2>0, <2>1, RestGoes DEF LoadHead, Return, Idle, Loaded, Lines
  <2>2. CASE head # loc[r].tail
    <3> DEFINE l == [loc[r] EXCEPT !.head = head, !.i = head - 1,
                                   !.lo = loc[r].tail, !.hi = head - 1]
    <3>1. head - 1 \in Nat /\ loc[r].tail <= head - 1
      BY <1>0, <2>0, <2>2
    <3>2. /\ l \in Locals /\ l.tail = loc[r].tail /\ l.pass = loc[r].pass
          /\ l.head = head
          /\ l.lo = loc[r].tail /\ l.hi = head - 1 /\ l.i = head - 1
          /\ l.ids = loc[r].ids
      BY <1>0, <3>1 DEF Locals
    <3>3. Next_(r, "point", l)
      BY <1>2, <2>2 DEF LoadHead
    <3> HIDE DEF l
    <3>4. loc[r].ids = {} /\ (tail = loc[r].tail => Complete(loc[r].tail))
      BY <1>0, <2>0 DEF Retiring, RetiringAt
    <3>5. RetiringAt("point", l)
      BY <1>0, <2>0, <3>1, <3>2, <3>4
         DEF RetiringAt, Searching, Found, Moved, Loaded
    <3>6. r = "dog" => ReadingAt("point", l) /\ ReportingAt("point", l)
      BY <2>0, <3>2, NotReading, ReportStays DEF Loaded, Lines, Searching, Found
    <3> QED BY <3>2, <3>3, <3>5, <3>6 DEF Goes, Loaded, Searching
  <2> QED BY <2>1, <2>2
<1>3. CASE BoundaryPoint(r)
  <2> DEFINE l == [loc[r] EXCEPT !.seg = SegOf(loc[r].i)]
  <2>1. SegOf(loc[r].i) \in 0..NSEG
    BY <1>0, RowTyped DEF SegOf, QueueInv, QueueTyped
  <2>2. /\ l \in Locals /\ l.tail = loc[r].tail /\ l.pass = loc[r].pass
        /\ l.head = loc[r].head
        /\ l.lo = loc[r].lo /\ l.hi = loc[r].hi /\ l.i = loc[r].i
        /\ l.ids = loc[r].ids /\ l.seg = SegOf(loc[r].i)
    BY <1>0, <2>1 DEF Locals
  <2>3. Next_(r, "event", l) /\ rpc[r] = "point"
    BY <1>3 DEF BoundaryPoint, At
  <2> HIDE DEF l
  <2>4. RetiringAt("event", l)
    BY <2>2, <2>3 DEF Retiring, RetiringAt, Searching, Found, Moved, Loaded
  <2>5. r = "dog" => ReadingAt("event", l) /\ ReportingAt("event", l)
    BY <2>2, <2>3, NotReading, ReportStays DEF Loaded, Lines, Searching, Found
  <2> QED BY <2>2, <2>3, <2>4, <2>5 DEF Goes, Loaded, Searching
<1>4. CASE BoundaryEvent(r)
  <2> DEFINE ev == EventOf(loc[r].seg, loc[r].i)
  <2>0. /\ rpc[r] = "event" /\ rpc[r] \in Searching
        /\ loc[r].tail <= loc[r].lo /\ loc[r].lo <= loc[r].head
        /\ tail = loc[r].tail => Complete(loc[r].lo) /\ loc[r].seg = SegOf(loc[r].i)
    <3>1. rpc[r] = "event" /\ rpc[r] \in Searching
      BY <1>4 DEF BoundaryEvent, At, Searching
    <3>2. /\ loc[r].tail <= loc[r].lo /\ loc[r].lo <= loc[r].hi
          /\ loc[r].hi < loc[r].head
          /\ tail = loc[r].tail => Complete(loc[r].lo) /\ loc[r].seg = SegOf(loc[r].i)
      BY <3>1 DEF Retiring, RetiringAt
    <3> QED BY <1>0, <3>1, <3>2
  <2>1. CASE ev = NoEvent
    <3>1. Bounded(r, loc[r].lo, FALSE)
      BY <1>4, <2>1 DEF BoundaryEvent
    <3> QED BY <1>0, <2>0, <3>1, BoundedGoes
  <2>2. CASE ev # NoEvent
    <3> DEFINE l == [loc[r] EXCEPT !.ev = ev]
    <3>1. ev = <<loc[r].seg, loc[r].i % SEG>>
      BY <2>2 DEF EventOf
    <3>2. ev \in (0..NSEG) \X Offsets
      BY <1>0, <3>1, Divided DEF Locals
    <3>3. /\ l \in Locals /\ l.tail = loc[r].tail /\ l.pass = loc[r].pass
          /\ l.head = loc[r].head
          /\ l.lo = loc[r].lo /\ l.hi = loc[r].hi /\ l.i = loc[r].i
          /\ l.ids = loc[r].ids /\ l.ev = ev
      BY <1>0, <3>2 DEF Locals
    <3>4. Next_(r, "query", l)
      BY <1>4, <2>2 DEF BoundaryEvent
    <3> HIDE DEF l
    <3>5. RetiringAt("query", l)
      BY <2>0, <3>1, <3>3
         DEF Retiring, RetiringAt, Searching, Found, Moved, Loaded
    <3>6. r = "dog" => ReadingAt("query", l) /\ ReportingAt("query", l)
      BY <2>0, <3>3, NotReading, ReportStays DEF Loaded, Lines, Searching, Found
    <3> QED BY <3>3, <3>4, <3>5, <3>6 DEF Goes, Loaded, Searching
  <2> QED BY <2>1, <2>2
<1>5. CASE QueryDone(r) \/ QueryPending(r) \/ QueryError(r)
  <2>0. /\ rpc[r] = "query" /\ rpc[r] \in Searching
        /\ loc[r].tail < loc[r].head
        /\ loc[r].tail <= loc[r].lo /\ loc[r].lo <= loc[r].hi
        /\ loc[r].hi < loc[r].head
        /\ loc[r].lo <= loc[r].i /\ loc[r].i < loc[r].head
        /\ loc[r].i = loc[r].head - 1 \/ loc[r].i < loc[r].hi
        /\ tail = loc[r].tail => Complete(loc[r].lo)
    <3>1. rpc[r] = "query" /\ rpc[r] \in Searching
      BY <1>5 DEF QueryDone, QueryPending, QueryError, At, Searching
    <3> QED BY <3>1 DEF Retiring, RetiringAt
  <2>1. CASE QueryDone(r)
    <3>0. tail = loc[r].tail => Complete(loc[r].i + 1)
      BY <2>0, <2>1, SeenDone DEF QueryDone
    <3>1. CASE Newest(r)
      <4>1. Bounded(r, loc[r].head, FALSE)
        BY <2>1, <3>1 DEF QueryDone
      <4>2. loc[r].i + 1 = loc[r].head /\ loc[r].tail <= loc[r].head
        BY <1>0, <2>0, <3>1 DEF Newest
      <4>3. tail = loc[r].tail => Complete(loc[r].head)
        BY <3>0, <4>2
      <4>4. loc[r].head <= loc[r].head
        BY <1>0
      <4> QED BY <1>0, <2>0, <4>1, <4>2, <4>3, <4>4, BoundedGoes
    <3>2. CASE ~Newest(r)
      <4>1. Search(r, loc[r].i + 1, loc[r].hi)
        BY <2>1, <3>2 DEF QueryDone
      <4>2. /\ loc[r].i + 1 \in Nat /\ loc[r].tail <= loc[r].i + 1
            /\ loc[r].i + 1 <= loc[r].hi
        BY <1>0, <2>0, <3>2 DEF Newest
      <4> QED BY <1>0, <2>0, <3>0, <4>1, <4>2, SearchGoes
    <3> QED BY <3>1, <3>2
  <2>2. CASE QueryPending(r)
    <3>1. CASE Newest(r)
      <4>1. Search(r, loc[r].lo, loc[r].hi)
        BY <2>2, <3>1 DEF QueryPending
      <4> QED BY <1>0, <2>0, <4>1, SearchGoes
    <3>2. CASE ~Newest(r)
      <4>1. Search(r, loc[r].lo, loc[r].i)
        BY <2>2, <3>2 DEF QueryPending
      <4> QED BY <1>0, <2>0, <4>1, SearchGoes
    <3> QED BY <3>1, <3>2
  <2>3. CASE QueryError(r)
    <3>1. Bounded(r, loc[r].lo, TRUE)
      BY <2>3 DEF QueryError
    <3>2. loc[r].lo <= loc[r].head
      BY <1>0, <2>0
    <3> QED BY <1>0, <2>0, <3>1, <3>2, BoundedGoes
  <2> QED BY <1>5, <2>1, <2>2, <2>3
<1> QED BY <1>1, <1>2, <1>3, <1>4, <1>5


\* The retirement found its boundary: what it reads of the slots below it.
LEMMA ReadStepGoes ==
  ASSUME QueueInv, RetireTyped, Reporting, NEW r \in Retirers, Retiring(r),
         LoadSeqSeg(r) \/ LoadSeq(r) \/ LoadIdSeg(r) \/ LoadId(r)
  PROVE  Goes(r)
<1>0. /\ loc[r] \in Locals /\ loc[r].head \in Nat /\ loc[r].tail \in Nat
      /\ loc[r].end \in Nat /\ loc[r].i \in Nat /\ loc[r].ids \subseteq Nat
      /\ head \in Nat /\ tail \in Nat
  BY LocalsTyped DEF QueueInv, QueueTyped
<1>1. rpc[r] \in Found \ {"bound"}
  BY DEF LoadSeqSeg, LoadSeq, LoadIdSeg, LoadId, At, Found
<1>2. /\ loc[r].tail <= tail /\ loc[r].tail < loc[r].head
      /\ loc[r].head <= head
      /\ loc[r].tail < loc[r].end /\ loc[r].end <= loc[r].head
      /\ tail = loc[r].tail => Complete(loc[r].end)
  BY <1>1 DEF Retiring, RetiringAt, Loaded
<1>3. ASSUME NEW pc \in Found \ {"bound"}, NEW l, l.tail = loc[r].tail,
             l.pass = loc[r].pass
      PROVE  r = "dog" => ReadingAt(pc, l) /\ ReportingAt(pc, l)
  BY <1>1, <1>3, NotReading, ReportStays DEF Loaded, Lines, Found
<1>4. ASSUME NEW i \in Nat, loc[r].tail <= i, i < loc[r].end, tail = loc[r].tail
      PROVE  /\ Slot(SegOf(i), i).seq = log[i + 1].seq
             /\ Slot(SegOf(i), i).work = log[i + 1].work
  <2>1. i \in InFlight
    BY <1>0, <1>2, <1>4 DEF InFlight
  <2> QED BY <2>1 DEF QueueInv, Mapped, Written, Holds, Slot
<1>5. ASSUME NEW seg \in 0..NSEG, NEW i \in Nat
      PROVE  Slot(seg, i) \in Words
  <2>1. ZeroSlot \in Words
    BY DEF ZeroSlot, Words
  <2>2. i % SEG \in Offsets
    BY Divided
  <2>3. seg # 0 => seg \in SegIds
    BY WatchQueueAssumption DEF SegIds
  <2> QED BY <2>1, <2>2, <2>3 DEF Slot, QueueInv, QueueTyped
<1>6. CASE LoadSeqSeg(r)
  <2> DEFINE l == [loc[r] EXCEPT !.seg = SegOf(loc[r].end - 1)]
  <2>1. SegOf(loc[r].end - 1) \in 0..NSEG
    <3>1. loc[r].end - 1 \in Nat
      BY <1>0, <1>2
    <3> QED BY <3>1, RowTyped DEF SegOf, QueueInv, QueueTyped
  <2>2. /\ l \in Locals /\ l.tail = loc[r].tail /\ l.pass = loc[r].pass
        /\ l.head = loc[r].head
        /\ l.end = loc[r].end /\ l.ids = loc[r].ids
        /\ l.seg = SegOf(loc[r].end - 1)
    BY <1>0, <2>1 DEF Locals
  <2>3. Next_(r, "seq", l) /\ rpc[r] = "seqSeg"
    BY <1>6 DEF LoadSeqSeg, At
  <2> HIDE DEF l
  <2>4. loc[r].ids = {}
    BY <2>3 DEF Retiring, RetiringAt
  <2>5. RetiringAt("seq", l)
    BY <1>0, <1>2, <2>2, <2>4 DEF RetiringAt, Searching, Found, Moved
  <2> QED BY <1>3, <2>2, <2>3, <2>5 DEF Goes, Loaded, Found
<1>7. CASE LoadSeq(r)
  <2> DEFINE v == Slot(loc[r].seg, loc[r].end - 1).seq
             l == [loc[r] EXCEPT !.seq = v, !.i = loc[r].tail]
  <2>0. rpc[r] = "seq" /\ loc[r].seg \in 0..NSEG /\ loc[r].end - 1 \in Nat
    BY <1>0, <1>2, <1>7 DEF LoadSeq, At, Locals
  <2>1. v \in Nat
    BY <1>5, <2>0 DEF Words
  <2>2. tail = loc[r].tail => v = log[loc[r].end].seq
    <3>1. tail = loc[r].tail => loc[r].seg = SegOf(loc[r].end - 1)
      BY <2>0 DEF Retiring, RetiringAt
    <3>2. loc[r].tail <= loc[r].end - 1 /\ loc[r].end - 1 < loc[r].end
          /\ loc[r].end - 1 + 1 = loc[r].end
      BY <1>0, <1>2
    <3> QED BY <1>4, <2>0, <3>1, <3>2
  <2>3. Next_(r, "idSeg", l)
    BY <1>7 DEF LoadSeq
  <2> HIDE DEF v
  <2>4. /\ l \in Locals /\ l.tail = loc[r].tail /\ l.pass = loc[r].pass
        /\ l.head = loc[r].head
        /\ l.end = loc[r].end /\ l.ids = loc[r].ids
        /\ l.seq = v /\ l.i = loc[r].tail
    BY <1>0, <2>1 DEF Locals
  <2> HIDE DEF l
  <2>5. loc[r].ids = {}
    BY <2>0 DEF Retiring, RetiringAt
  <2>6. RetiringAt("idSeg", l)
    BY <1>0, <1>2, <2>2, <2>4, <2>5 DEF RetiringAt, Searching, Found, Moved
  <2> QED BY <1>3, <2>3, <2>4, <2>6 DEF Goes, Loaded, Found
<1>8. CASE LoadIdSeg(r)
  <2> DEFINE l == [loc[r] EXCEPT !.seg = SegOf(loc[r].i)]
  <2>1. SegOf(loc[r].i) \in 0..NSEG
    BY <1>0, RowTyped DEF SegOf, QueueInv, QueueTyped
  <2>2. /\ l \in Locals /\ l.tail = loc[r].tail /\ l.pass = loc[r].pass
        /\ l.head = loc[r].head
        /\ l.end = loc[r].end /\ l.ids = loc[r].ids /\ l.i = loc[r].i
        /\ l.seq = loc[r].seq /\ l.seg = SegOf(loc[r].i)
    BY <1>0, <2>1 DEF Locals
  <2>3. Next_(r, "id", l) /\ rpc[r] = "idSeg"
    BY <1>8 DEF LoadIdSeg, At
  <2> HIDE DEF l
  <2>4. RetiringAt("id", l)
    BY <1>0, <1>2, <2>2, <2>3
       DEF Retiring, RetiringAt, Searching, Found, Moved
  <2> QED BY <1>3, <2>2, <2>3, <2>4 DEF Goes, Loaded, Found
<1>9. CASE LoadId(r)
  <2> DEFINE w == Slot(loc[r].seg, loc[r].i).work
             pc == IF loc[r].i + 1 < loc[r].end THEN "idSeg" ELSE "cas"
             l == [loc[r] EXCEPT !.ids = @ \cup {w}, !.i = @ + 1]
  <2>0. /\ rpc[r] = "id" /\ loc[r].seg \in 0..NSEG
        /\ loc[r].tail <= loc[r].i /\ loc[r].i < loc[r].end
    BY <1>0, <1>9 DEF LoadId, At, Locals, Retiring, RetiringAt
  <2>1. w \in Nat
    BY <1>0, <1>5, <2>0 DEF Words
  <2>2. tail = loc[r].tail => w \in WorksTo(loc[r].end)
    <3>1. tail = loc[r].tail => loc[r].seg = SegOf(loc[r].i)
      BY <2>0 DEF Retiring, RetiringAt
    <3>2. loc[r].i + 1 \in 1..loc[r].end
      BY <1>0, <2>0
    <3>3. tail = loc[r].tail => w = log[loc[r].i + 1].work
      BY <1>0, <1>4, <2>0, <3>1
    <3> QED BY <3>2, <3>3 DEF WorksTo
  <2>3. Next_(r, pc, l)
    BY <1>9 DEF LoadId
  <2> HIDE DEF w
  <2>4. /\ l \in Locals /\ l.tail = loc[r].tail /\ l.pass = loc[r].pass
        /\ l.head = loc[r].head
        /\ l.end = loc[r].end /\ l.ids = loc[r].ids \cup {w}
        /\ l.i = loc[r].i + 1 /\ l.seq = loc[r].seq
    <3>1. loc[r].ids \cup {w} \in SUBSET Nat /\ loc[r].i + 1 \in Nat
      BY <1>0, <2>1
    <3> QED BY <1>0, <3>1 DEF Locals
  <2>5. /\ pc \in {"idSeg", "cas"}
        /\ pc = "idSeg" => loc[r].i + 1 < loc[r].end
    OBVIOUS
  <2> HIDE DEF l, pc
  <2>6. RetiringAt(pc, l)
    <3>1. tail = loc[r].tail => /\ loc[r].seq = log[loc[r].end].seq
                                /\ loc[r].ids \subseteq WorksTo(loc[r].end)
      BY <2>0 DEF Retiring, RetiringAt
    <3>2. loc[r].tail <= loc[r].i + 1
      BY <1>0, <2>0
    <3> QED BY <1>0, <1>2, <2>2, <2>4, <2>5, <3>1, <3>2
            DEF RetiringAt, Searching, Found, Moved
  <2> QED BY <1>3, <2>3, <2>4, <2>5, <2>6 DEF Goes, Loaded, Found
<1> QED BY <1>6, <1>7, <1>8, <1>9


\* The numbers are raised and the works stamped after the tail moved.
LEMMA MovedStepGoes ==
  ASSUME QueueInv, RetireTyped, ReportTyped, Reporting,
         NEW r \in Retirers, Retiring(r), RaiseDone(r) \/ Stamp(r)
  PROVE  Goes(r)
<1>0. /\ loc[r] \in Locals /\ loc[r].head \in Nat /\ loc[r].tail \in Nat
      /\ loc[r].end \in Nat /\ head \in Nat /\ tail \in Nat
  BY LocalsTyped DEF QueueInv, QueueTyped
<1>1. rpc[r] \in Moved
  BY DEF RaiseDone, Stamp, At, Moved
<1>2. /\ loc[r].end <= loc[r].head /\ loc[r].head <= head
      /\ loc[r].tail < loc[r].end /\ loc[r].end <= tail
  BY <1>1 DEF Retiring, RetiringAt
<1>3. CASE RaiseDone(r)
  <2>1. Next_(r, "stamp", loc[r]) /\ rpc[r] = "done"
    BY <1>3 DEF RaiseDone, At
  <2>2. RetiringAt("stamp", loc[r])
    BY <2>1 DEF Retiring, RetiringAt, Searching, Found, Moved, Loaded
  <2>3. r = "dog" => ReadingAt("stamp", loc[r]) /\ ReportingAt("stamp", loc[r])
    BY <2>1, NotReading, ReportStays DEF Loaded, Lines, Moved
  <2> QED BY <1>0, <2>1, <2>2, <2>3 DEF Goes, Loaded, Moved
<1>4. CASE Stamp(r)
  <2>0. rpc[r] \in Loaded \ Lines
    BY <1>1 DEF Loaded, Lines, Moved
  <2>1. CASE \E pc \in {"check", "idle", "closed", "fault"} : Next_(r, pc, Loc0)
    BY <2>0, <2>1, RestGoes
  <2>2. CASE /\ r = "dog" /\ loc[r].end # loc[r].head
             /\ Next_(r, "readSeg", [Loc0 EXCEPT !.tail = loc[r].end])
    <3> DEFINE l == [Loc0 EXCEPT !.tail = loc[r].end]
    <3>1. l \in Locals /\ l.tail = loc[r].end /\ l.pass = 0
      BY <1>0, Loc0Typed DEF Locals, Loc0
    <3>2. Next_(r, "readSeg", l)
      BY <2>2
    <3> HIDE DEF l
    <3>3. RetiringAt("readSeg", l)
      BY <1>2, <3>1 DEF RetiringAt, Searching, Found, Moved
    <3>4. ReadingAt("readSeg", l)
      BY <1>0, <1>2, <2>2, <3>1 DEF ReadingAt, Lines
    <3>5. ReportingAt("readSeg", l)
      <4>1. report.at \in Nat /\ report.at <= loc[r].tail + 1
            /\ (reported = 0 => report.at <= loc[r].tail)
        BY <1>1, <2>2 DEF ReportTyped, Reporting, ReportingAt, Loaded
      <4> QED BY <1>0, <1>1, <1>2, <2>2, <3>1, <4>1
              DEF Reporting, ReportingAt, Lines, Moved, Loaded, Resting, Reads
    <3> QED BY <3>1, <3>2, <3>3, <3>4, <3>5 DEF Goes, Loaded, Reads
  <2> QED BY <1>4, <2>1, <2>2 DEF Stamp, Retry, Return, Idle
<1> QED BY <1>3, <1>4

\* The tail moves: nobody else moved it since it was loaded.
LEMMA CasTailKeeps ==
  ASSUME QueueInv, Retired, RetireTyped, ReportTyped, Reporting,
         NEW r \in Retirers, Retiring(r), CasTail(r), tail = loc[r].tail
  PROVE  /\ tail' = loc[r].end /\ tail' \in Nat /\ tail <= tail' /\ tail' <= head
         /\ Retired' /\ RetireTyped' /\ Retiring(r)'
         /\ \A q \in Retirers \ {r} : rpc'[q] = rpc[q] /\ loc'[q] = loc[q]
         /\ r = "dog" => Reading' /\ Reporting'
<1>0. PICK l : l = loc[r]
  OBVIOUS
<1>1. /\ l \in Locals /\ l.head \in Nat /\ l.tail \in Nat
      /\ l.end \in Nat /\ head \in Nat /\ tail \in Nat /\ done \in Nat
  BY <1>0, LocalsTyped DEF QueueInv, QueueTyped
<1>2. rpc[r] = "cas" /\ tail' = l.end /\ Next_(r, "done", l)
      /\ UNCHANGED <<head, segs, log, completed, done, stamped, claimed, dogVars>>
  BY <1>0 DEF CasTail, At, QuietQueue, segVars, gpuVars
<1>3. /\ tail = l.tail /\ l.tail < l.end /\ l.end <= l.head /\ l.head <= head
      /\ Complete(l.end) /\ l.seq = log[l.end].seq
      /\ l.ids \subseteq WorksTo(l.end)
  BY <1>0, <1>2 DEF Retiring, RetiringAt, Searching, Found, Moved, Loaded
<1>4. rpc'[r] = "done" /\ loc'[r] = l /\ RetireTyped'
      /\ \A q \in Retirers \ {r} : rpc'[q] = rpc[q] /\ loc'[q] = loc[q]
  BY <1>1, <1>2 DEF Next_, RetireTyped, Loaded, Moved
<1>5. tail' \in Nat /\ tail <= tail' /\ tail' <= head
  BY <1>1, <1>2, <1>3
<1>6. Retired'
  <2>1. Complete(tail)'
    BY <1>2, <1>3 DEF Complete
  <2>2. stamped' \subseteq WorksTo(tail)'
    <3>1. stamped \subseteq WorksTo(tail)
      BY DEF Retired
    <3>2. \A j \in 1..tail : j \in 1..tail'
      BY <1>1, <1>2, <1>5
    <3> QED BY <1>2, <3>1, <3>2 DEF WorksTo
  <2>3. tail' > 0 /\ done' <= log'[tail'].seq
    <3>1. tail' \in 1..head /\ log[tail'].seq \in Nat
      <4>1. tail' \in 1..head
        BY <1>1, <1>2, <1>3
      <4>2. log[tail'].seq \in 1..seq /\ seq \in Nat
        BY <4>1 DEF QueueInv, Logged, QueueTyped
      <4> QED BY <4>1, <4>2
    <3>2. CASE tail = 0
      BY <1>2, <3>1, <3>2 DEF Retired
    <3>3. CASE tail > 0
      <4>1. tail \in 1..head /\ log[tail].seq \in Nat /\ log[tail].seq < log[tail'].seq
        <5>1. tail \in 1..head /\ tail < tail'
          BY <1>1, <1>2, <1>3, <1>5, <3>3
        <5>2. /\ log[tail].seq \in 1..seq /\ seq \in Nat
              /\ log[tail].seq < log[tail'].seq
          BY <3>1, <5>1 DEF QueueInv, Logged, QueueTyped
        <5> QED BY <5>1, <5>2
      <4>2. done <= log[tail].seq
        BY <3>3 DEF Retired
      <4> QED BY <1>1, <1>2, <3>1, <4>1, <4>2
    <3> QED BY <1>1, <3>2, <3>3
  <2> QED BY <2>1, <2>2, <2>3, <1>5 DEF Retired
<1>7. Retiring(r)'
  <2>1. WorksTo(l.end)' = WorksTo(l.end) /\ log' = log
    BY <1>2 DEF WorksTo
  <2>2. l.tail <= tail' /\ l.end <= tail'
    BY <1>1, <1>2, <1>3
  <2>3. RetiringAt("done", l)'
    BY <1>1, <1>2, <1>3, <2>1, <2>2
       DEF RetiringAt, Searching, Found, Moved, Loaded
  <2> QED BY <1>4, <2>3 DEF Retiring
<1>8. ASSUME r = "dog" PROVE Reading' /\ Reporting'
  <2>1. ReadingAt("done", l)'
    BY DEF ReadingAt, Reads, Lines
  <2>2. ReportingAt("done", l)'
    <3>1. /\ report.at \in Nat /\ report.at <= head /\ report.at <= l.tail + 1
          /\ reported = 0 => report.at <= l.tail
          /\ l.pass = 1 => report.at <= l.tail
          /\ reported # 0 => report.at # 0 /\ reported = log[report.at].seq
          /\ report.at # 0 => /\ report.seq = log[report.at].seq
                              /\ report.work = log[report.at].work
          /\ report.at = 0 => report.work = 0
      BY <1>0, <1>2, <1>8
         DEF ReportTyped, Reporting, ReportingAt, Loaded, Found, Lines
    <3>2. report.at <= tail' + 1 /\ (reported = 0 => report.at <= tail')
      BY <1>1, <1>2, <1>3, <3>1
    <3> QED BY <1>2, <3>1, <3>2 DEF ReportingAt, Lines, Reads, dogVars
  <2> QED BY <1>4, <1>8, <2>1, <2>2 DEF Reading, Reporting
<1> QED BY <1>0, <1>2, <1>4, <1>5, <1>6, <1>7, <1>8

-----------------------------------------------------------------------------
(* Steps of others, seen by the watchdog.                                   *)

LEMMA ReadingKept ==
  ASSUME QueueInv, RetireTyped, MovesOn, Retiring("dog"), Reading,
         rpc'["dog"] = rpc["dog"], loc'["dog"] = loc["dog"]
  PROVE  Reading'
<1>0. PICK l, pc : l = loc["dog"] /\ pc = rpc["dog"]
  OBVIOUS
<1>1. l.tail \in Nat /\ tail \in Nat /\ head \in Nat
  BY <1>0, LocalsTyped DEF Retirers, QueueInv, QueueTyped
<1>2. ReadingAt(pc, l) /\ (pc \in Loaded => l.tail <= tail)
  BY <1>0 DEF Reading, Retiring, RetiringAt
<1>3. ASSUME pc \in Reads \cup Lines
      PROVE  l.tail < head' /\ log'[l.tail + 1] = log[l.tail + 1]
  <2>1. l.tail < head
    BY <1>2, <1>3 DEF ReadingAt
  <2>2. l.tail + 1 \in 1..head
    BY <1>1, <2>1
  <2> QED BY <1>1, <2>1, <2>2 DEF MovesOn
<1>4. ASSUME pc \in Reads, tail' = l.tail
      PROVE  tail = l.tail /\ SegOf(l.tail)' = SegOf(l.tail)
  <2>1. tail = l.tail
    BY <1>1, <1>2, <1>4 DEF MovesOn, Loaded
  <2>2. l.tail \in InFlight
    BY <1>1, <1>2, <1>4, <2>1 DEF ReadingAt, InFlight
  <2> QED BY <1>4, <2>1, <2>2 DEF MovesOn
<1>5. ReadingAt(pc, l)'
  BY <1>2, <1>3, <1>4 DEF ReadingAt, Reads, Lines
<1> QED BY <1>0, <1>5 DEF Reading

LEMMA ReportingKept ==
  ASSUME QueueInv, ReportTyped, MovesOn, Reporting,
         rpc'["dog"] = rpc["dog"], loc'["dog"] = loc["dog"],
         UNCHANGED dogVars, claimed => claimed'
  PROVE  Reporting' /\ ReportTyped'
<1>0. PICK l, pc : l = loc["dog"] /\ pc = rpc["dog"]
  OBVIOUS
<1>1. ReportingAt(pc, l)
  BY <1>0 DEF Reporting
<1>2. report.at \in Nat /\ tail \in Nat /\ head \in Nat
  BY DEF ReportTyped, QueueInv, QueueTyped
<1>3. report.at <= head' /\ report.at <= tail' + 1
      /\ (report.at <= tail => report.at <= tail')
  BY <1>1, <1>2 DEF ReportingAt, MovesOn
<1>4. report.at # 0 => log'[report.at] = log[report.at]
  <2>1. report.at # 0 => report.at \in 1..head
    BY <1>1, <1>2 DEF ReportingAt
  <2> QED BY <2>1 DEF MovesOn
<1>5. ReportingAt(pc, l)'
  BY <1>1, <1>3, <1>4 DEF ReportingAt, dogVars
<1> QED BY <1>0, <1>5 DEF Reporting, ReportTyped, dogVars

LEMMA RetiredKept ==
  ASSUME QueueInv, MovesOn, Retired, UNCHANGED <<tail, done, stamped>>
  PROVE  Retired'
<1>0. tail \in Nat /\ tail <= head
  BY DEF QueueInv, QueueTyped, Mapped
<1>1. PICK n \in Nat : n = tail
  BY <1>0
<1>2. Complete(n)' /\ WorksTo(n)' = WorksTo(n)
  BY <1>0, <1>1, CompleteKept, WorksKept DEF Retired
<1>3. tail > 0 => log'[tail] = log[tail]
  <2>1. tail > 0 => tail \in 1..head
    BY <1>0 DEF QueueInv, QueueTyped
  <2> QED BY <2>1 DEF MovesOn
<1> QED BY <1>1, <1>2, <1>3 DEF Retired

-----------------------------------------------------------------------------
(* Every step keeps the invariant.                                          *)

LEMMA CommitMovesOn ==
  ASSUME IInv, CommitStep
  PROVE  /\ MovesOn
         /\ UNCHANGED <<tail, done, completed, stamped, loc, dogVars, claimed>>
         /\ \A q \in Retirers : \/ rpc'[q] = rpc[q]
                                \/ q = "prod" /\ rpc'[q] = "tail"
         /\ rpc' \in [Retirers -> Resting \cup Loaded]
<1> USE DEF queueVars, gpuVars, frVars, Commit
<1>0. rpc \in [Retirers -> Resting \cup Loaded] /\ "prod" \in Retirers
      /\ "tail" \in Resting
  BY DEF IInv, RetireTyped, Retirers, Resting
<1>1. UNCHANGED <<tail, done, completed, stamped, loc, dogVars, claimed>>
      /\ (rpc' = rpc \/ StartRetire)
  <2>1. CASE Issue \/ CommitRefused \/ CommitBegin \/ CommitRoom \/ CommitFull
    BY <2>1 DEF Issue, CommitRefused, CommitBegin, CommitRoom, CommitFull
  <2>2. CASE UnmapBegin \/ UnmapOne \/ CommitDropped \/ CommitHasRoom
    BY <2>2 DEF UnmapBegin, UnmapOne, CommitDropped, CommitHasRoom
  <2>3. CASE MapPresent \/ MapRetire \/ MapAlloc \/ CommitFault \/ CommitPublish
    BY <2>3 DEF MapPresent, MapRetire, MapAlloc, CommitFault, CommitPublish
  <2>4. CASE CommitEvent \/ CommitRecord \/ CommitOdd \/ CommitSeq \/ CommitWork
             \/ CommitEven
    BY <2>4 DEF CommitEvent, CommitRecord, CommitOdd, CommitSeq, CommitWork,
                CommitEven
  <2> QED BY <2>1, <2>2, <2>3, <2>4 DEF CommitStep
<1>2. head <= head' /\ \A i \in 1..head : log'[i] = log[i]
  <2>1. CASE CommitPublish
    <3>1. head \in Nat /\ QueueTyped /\ Logged
      BY DEF IInv, QueueInv, QueueTyped
    <3>2. head' = head + 1 /\ \A i \in 1..head : log'[i] = log[i]
      BY <2>1, <3>1, Appended
    <3> QED BY <3>1, <3>2
  <2>2. CASE UNCHANGED <<head, log>>
    BY <2>2 DEF IInv, QueueInv, QueueTyped
  <2>3. Onward => UNCHANGED <<head, log>>
    BY OnwardCounts DEF IInv, QueueInv
  <2> QED BY <2>1, <2>2, <2>3
          DEF CommitStep, Onward, Issue, CommitRefused, CommitBegin,
              CommitDropped, CommitFault
<1>3. MovesOn
  <2>1. QueueTyped /\ QueueTyped' /\ \A i \in InFlight : SegOf(i)' = SegOf(i)
    BY CommitKeeps, CommitKeepsSegs DEF IInv, QueueInv
  <2>2. tail \in Nat /\ completed \in Nat /\ head' \in Nat
    BY <2>1 DEF QueueTyped
  <2> QED BY <1>1, <1>2, <2>1, <2>2 DEF MovesOn
<1>4. /\ \A q \in Retirers : \/ rpc'[q] = rpc[q]
                             \/ q = "prod" /\ rpc'[q] = "tail"
      /\ rpc' \in [Retirers -> Resting \cup Loaded]
  BY <1>0, <1>1 DEF StartRetire
<1> QED BY <1>1, <1>3, <1>4

LEMMA CommitInductive ==
  ASSUME IInv, CommitStep PROVE IInv'
<1>1. QueueInv' /\ Accounted'
  BY CommitKeeps DEF IInv
<1>2. Retired'
  BY CommitMovesOn, RetiredKept DEF IInv
<1>3. RetireTyped'
  BY CommitMovesOn DEF IInv, RetireTyped
<1>4. ASSUME NEW q \in Retirers PROVE Retiring(q)'
  <2>1. CASE rpc'[q] = rpc[q]
    BY <2>1, CommitMovesOn, RetiringKept DEF IInv
  <2>2. CASE rpc'[q] = "tail"
    <3>1. PICK l : l = loc'[q]
      OBVIOUS
    <3> QED BY <2>2, <3>1
            DEF Retiring, RetiringAt, Searching, Found, Moved, Reads, Lines, Loaded
  <2> QED BY <2>1, <2>2, CommitMovesOn
<1>5. rpc'["dog"] = rpc["dog"] /\ loc'["dog"] = loc["dog"]
  BY CommitMovesOn DEF Retirers
<1>6. Reading' /\ Reporting' /\ ReportTyped'
  BY <1>5, CommitMovesOn, ReadingKept, ReportingKept DEF IInv, Retirers
<1> QED BY <1>1, <1>2, <1>3, <1>4, <1>6 DEF IInv

LEMMA GpuInductive ==
  ASSUME IInv, GpuStep PROVE IInv'
<1>1. /\ QueueKept /\ completed' = completed + 1
      /\ UNCHANGED <<tail, done, stamped, rpc, loc, dogVars, claimed>>
  BY DEF GpuStep, QueueKept, queueVars, frVars
<1>2. tail \in Nat /\ done \in Nat /\ completed \in Nat /\ tail <= head /\ head \in Nat
  BY DEF IInv, QueueInv, QueueTyped, Mapped
<1>3. QueueInv' /\ Accounted'
  BY <1>1, <1>2, QueueKeeps DEF IInv
<1>4. MovesOn
  BY <1>1, <1>2 DEF MovesOn, QueueKept, SegOf, segVars
<1>5. Retired' /\ RetireTyped' /\ \A q \in Retirers : Retiring(q)'
  BY <1>1, <1>4, RetiredKept, RetiringKept DEF IInv, RetireTyped
<1>6. Reading' /\ Reporting' /\ ReportTyped'
  BY <1>1, <1>4, ReadingKept, ReportingKept DEF IInv, Retirers
<1> QED BY <1>3, <1>5, <1>6 DEF IInv

\* A thread's step that leaves the queue as it is.
LEMMA GoesInductive ==
  ASSUME IInv, QueueKept, Still, NEW r \in Retirers, Goes(r),
         done' \in Nat, Retired'
  PROVE  IInv'
<1>1. /\ UNCHANGED <<tail, head, completed, claimed, dogVars, log, segs>>
      /\ tail \in Nat /\ head \in Nat /\ completed \in Nat /\ tail <= head
  BY DEF Still, IInv, QueueInv, QueueTyped, Mapped
<1>2. QueueInv' /\ Accounted'
  BY <1>1, QueueKeeps DEF IInv
<1>3. MovesOn
  BY <1>1 DEF MovesOn, SegOf
<1>4. /\ RetireTyped' /\ Retiring(r)'
      /\ \A q \in Retirers \ {r} : rpc'[q] = rpc[q] /\ loc'[q] = loc[q]
      /\ r = "dog" => Reading' /\ Reporting'
  BY GoesOn DEF IInv
<1>5. \A q \in Retirers : Retiring(q)'
  BY <1>3, <1>4, RetiringKept DEF IInv
<1>6. Reading' /\ Reporting' /\ ReportTyped'
  <2>1. CASE r = "dog"
    BY <1>1, <1>4, <2>1 DEF IInv, ReportTyped, dogVars
  <2>2. CASE r # "dog"
    BY <1>1, <1>3, <1>4, <2>2, ReadingKept, ReportingKept DEF IInv, Retirers
  <2> QED BY <2>1, <2>2
<1> QED BY <1>2, <1>4, <1>5, <1>6 DEF IInv


LEMMA RetireInductive ==
  ASSUME IInv, NEW r \in Retirers, RetireStep(r) PROVE IInv'
<1> USE DEF queueVars, gpuVars, frVars, segVars, prodVars
<1>0. /\ QueueInv /\ Retired /\ RetireTyped /\ ReportTyped /\ Reporting /\ Reading
      /\ Retiring(r) /\ done \in Nat /\ tail \in Nat
  BY DEF IInv, QueueInv, QueueTyped
<1>1. CASE \/ LoadTail(r) \/ LoadHead(r) \/ BoundaryPoint(r) \/ BoundaryEvent(r)
           \/ QueryDone(r) \/ QueryPending(r) \/ QueryError(r)
           \/ LoadSeqSeg(r) \/ LoadSeq(r) \/ LoadIdSeg(r) \/ LoadId(r)
  <2>1. Goes(r)
    BY <1>0, <1>1, SearchStepGoes, ReadStepGoes
  <2>2. /\ QueueKept /\ Still
        /\ UNCHANGED <<tail, done, stamped, log, completed>>
    <3>1. CASE LoadHead(r)
      BY <3>1 DEF LoadHead, QuietQueue, QueueKept, Still, dogVars
    <3>2. CASE Quiet
      BY <3>2 DEF Quiet, QuietQueue, QueueKept, Still, dogVars
    <3> QED BY <1>1, <3>1, <3>2
            DEF LoadTail, BoundaryPoint, BoundaryEvent, QueryDone, QueryPending,
                QueryError, LoadSeqSeg, LoadSeq, LoadIdSeg, LoadId
  <2>3. Retired'
    BY <1>0, <2>2 DEF Retired, Complete, WorksTo
  <2> QED BY <1>0, <2>1, <2>2, <2>3, GoesInductive
<1>2. CASE CasTail(r)
  <2>0. /\ QueueKept /\ UNCHANGED <<done, stamped, completed, claimed, dogVars>>
    BY <1>2 DEF CasTail, QuietQueue, QueueKept
  <2>1. CASE tail = loc[r].tail
    <3>1. /\ tail' \in Nat /\ tail <= tail' /\ tail' <= head
          /\ Retired' /\ RetireTyped' /\ Retiring(r)'
          /\ \A q \in Retirers \ {r} : rpc'[q] = rpc[q] /\ loc'[q] = loc[q]
          /\ r = "dog" => Reading' /\ Reporting'
      BY <1>0, <1>2, <2>1, CasTailKeeps
    <3>2. QueueInv' /\ Accounted'
      <4>1. done' \in Nat /\ completed' \in Nat
        BY <1>0, <2>0 DEF QueueInv, QueueTyped
      <4> QED BY <2>0, <3>1, <4>1, QueueKeeps DEF IInv
    <3>3. MovesOn
      <4>1. head \in Nat /\ completed \in Nat
        BY <1>0 DEF QueueInv, QueueTyped
      <4> QED BY <2>0, <3>1, <4>1 DEF MovesOn, QueueKept, SegOf
    <3>4. \A q \in Retirers : Retiring(q)'
      BY <3>1, <3>3, RetiringKept DEF IInv
    <3>5. Reading' /\ Reporting' /\ ReportTyped'
      <4>1. CASE r = "dog"
        BY <1>0, <2>0, <3>1, <4>1 DEF ReportTyped, dogVars
      <4>2. CASE r # "dog"
        BY <2>0, <3>1, <3>3, <4>2, ReadingKept, ReportingKept DEF IInv, Retirers
      <4> QED BY <4>1, <4>2
    <3> QED BY <3>1, <3>2, <3>4, <3>5 DEF IInv
  <2>2. CASE tail # loc[r].tail
    <3>1. UNCHANGED tail /\ \E pc \in {"check", "idle", "closed"} : Next_(r, pc, Loc0)
      BY <1>2, <2>2 DEF CasTail, Retry, Return, Idle
    <3>2. Goes(r)
      BY <1>0, <1>2, <3>1, RestGoes DEF CasTail, At, Loaded, Lines, Found
    <3>3. Still /\ Retired'
      BY <1>0, <2>0, <3>1 DEF Still, QueueKept, Retired, Complete, WorksTo
    <3> QED BY <1>0, <2>0, <3>2, <3>3, GoesInductive
  <2> QED BY <2>1, <2>2
<1>3. CASE RaiseDone(r)
  <2>0. /\ QueueKept /\ Still /\ UNCHANGED <<tail, stamped, log, completed>>
        /\ done' = Max2(done, loc[r].seq) /\ rpc[r] = "done"
    BY <1>3 DEF RaiseDone, QuietQueue, QueueKept, Still, At
  <2>1. Goes(r)
    BY <1>0, <1>3, MovedStepGoes
  <2>2. /\ loc[r].end \in 1..tail /\ tail \in 1..head /\ head \in Nat
        /\ loc[r].seq = log[loc[r].end].seq /\ loc[r].seq \in Nat
    <3>1. /\ loc[r].end <= tail /\ loc[r].tail < loc[r].end
          /\ loc[r].seq = log[loc[r].end].seq
      BY <1>0, <2>0 DEF Retiring, RetiringAt, Moved
    <3>2. /\ loc[r].end \in Nat /\ loc[r].tail \in Nat /\ loc[r].seq \in Nat
          /\ head \in Nat /\ tail <= head
      BY <1>0, LocalsTyped DEF QueueInv, QueueTyped, Mapped
    <3> QED BY <1>0, <3>1, <3>2
  <2>3. loc[r].seq <= log[tail].seq /\ log[tail].seq \in Nat
    <3>1. /\ log[tail].seq \in 1..seq /\ log[loc[r].end].seq \in 1..seq
          /\ seq \in Nat /\ loc[r].end \in 1..head
      <4>1. seq \in Nat /\ \A i \in 1..head : log[i].seq \in 1..seq
        BY <1>0 DEF QueueInv, QueueTyped, Logged
      <4>2. loc[r].end \in 1..head
        BY <2>2
      <4> QED BY <2>2, <4>1, <4>2
    <3>2. loc[r].end = tail \/ loc[r].end < tail
      BY <2>2
    <3>3. loc[r].end < tail => log[loc[r].end].seq < log[tail].seq
      BY <1>0, <2>2, <3>1 DEF QueueInv, Logged
    <3> QED BY <2>2, <3>1, <3>2, <3>3
  <2>4. done' \in Nat /\ done' <= log[tail].seq
    BY <1>0, <2>0, <2>2, <2>3 DEF Max2, Retired
  <2>5. Retired'
    BY <1>0, <2>0, <2>2, <2>4 DEF Retired, Complete, WorksTo
  <2> QED BY <2>0, <2>1, <2>4, <2>5, GoesInductive
<1>4. CASE Stamp(r)
  <2>0. /\ QueueKept /\ Still /\ UNCHANGED <<tail, done, log, completed>>
        /\ stamped' = stamped \cup loc[r].ids /\ rpc[r] = "stamp"
    BY <1>4 DEF Stamp, QuietQueue, QueueKept, Still, At
  <2>1. Goes(r)
    BY <1>0, <1>4, MovedStepGoes
  <2>2. loc[r].ids \subseteq WorksTo(tail)
    <3>1. loc[r].ids \subseteq WorksTo(loc[r].end) /\ loc[r].end <= tail
      BY <1>0, <2>0 DEF Retiring, RetiringAt, Moved
    <3>2. \A j \in 1..loc[r].end : j \in 1..tail
      BY <1>0, <3>1, LocalsTyped
    <3> QED BY <3>1, <3>2 DEF WorksTo
  <2>3. Retired'
    BY <1>0, <2>0, <2>2 DEF Retired, Complete, WorksTo
  <2> QED BY <1>0, <2>0, <2>1, <2>3, GoesInductive
<1> QED BY <1>1, <1>2, <1>3, <1>4 DEF RetireStep


-----------------------------------------------------------------------------
(* The watchdog's own steps.                                                *)

\* The step leaves what was retired alone.
QuietDog == QuietQueue /\ UNCHANGED <<tail, done, stamped>>

LEMMA QuietDogKeeps ==
  ASSUME IInv, QuietDog
  PROVE  /\ QueueKept /\ MovesOn /\ QueueInv' /\ Accounted' /\ Retired'
         /\ done' \in Nat /\ UNCHANGED <<tail, head, segs, log, completed, claimed>>
<1> USE DEF QuietDog, QuietQueue, segVars, prodVars, gpuVars
<1>1. QueueKept /\ UNCHANGED <<tail, head, segs, log, completed, claimed>>
  BY DEF QueueKept
<1>2. tail \in Nat /\ head \in Nat /\ completed \in Nat /\ done \in Nat
      /\ tail <= head
  BY DEF IInv, QueueInv, QueueTyped, Mapped
<1>3. QueueInv' /\ Accounted'
  BY <1>1, <1>2, QueueKeeps DEF IInv
<1>4. MovesOn
  BY <1>1, <1>2 DEF MovesOn, SegOf
<1>5. Retired'
  BY <1>4, RetiredKept DEF IInv
<1> QED BY <1>1, <1>2, <1>3, <1>4, <1>5

\* A step of the watchdog that may change what was reported.
LEMMA DogInductive ==
  ASSUME IInv, QuietDog, NEW pc \in Resting \cup Loaded, NEW l \in Locals,
         Next_("dog", pc, l), RetiringAt(pc, l), ReadingAt(pc, l),
         ReportingAt(pc, l)', ReportTyped'
  PROVE  IInv'
<1>1. /\ rpc'["dog"] = pc /\ loc'["dog"] = l /\ RetireTyped'
      /\ \A q \in Retirers \ {"dog"} : rpc'[q] = rpc[q] /\ loc'[q] = loc[q]
  BY DEF IInv, RetireTyped, Next_, Retirers
<1>2. RetiringAt(pc, l)' /\ ReadingAt(pc, l)'
  BY QuietDogKeeps DEF RetiringAt, ReadingAt, Complete, WorksTo, SegOf
<1>3. \A q \in Retirers : Retiring(q)'
  <2>1. Retiring("dog")'
    BY <1>1, <1>2 DEF Retiring
  <2>2. \A q \in Retirers \ {"dog"} : Retiring(q)'
    BY <1>1, QuietDogKeeps, RetiringKept DEF IInv
  <2> QED BY <2>1, <2>2
<1>4. Reading' /\ Reporting'
  BY <1>1, <1>2 DEF Reading, Reporting
<1> QED BY <1>1, <1>3, <1>4, QuietDogKeeps DEF IInv

\* ... and one that does not.
LEMMA DogGoes ==
  ASSUME IInv, QuietDog, UNCHANGED dogVars, Goes("dog")
  PROVE  IInv'
BY QuietDogKeeps, GoesInductive DEF Still, Retirers

\* A read collective that has its number reported is behind the tail.
LEMMA SettledBehind ==
  ASSUME IInv, reported # 0, done >= reported, reported = log[report.at].seq,
         report.at # 0
  PROVE  report.at <= tail
<1>1. /\ report.at \in 1..head /\ tail \in Nat /\ done \in Nat /\ head \in Nat
      /\ tail <= head
  BY DEF IInv, ReportTyped, QueueInv, QueueTyped, Mapped, Reporting, ReportingAt
<1> SUFFICES ASSUME tail < report.at PROVE FALSE
  BY <1>1
<1>2. log[report.at].seq \in 1..seq /\ seq \in Nat
  BY <1>1 DEF IInv, QueueInv, Logged, QueueTyped
<1>3. tail # 0
  BY <1>2 DEF IInv, Retired
<1>4. tail \in 1..head /\ done <= log[tail].seq
  BY <1>1, <1>3 DEF IInv, Retired
<1>5. log[tail].seq \in 1..seq /\ log[tail].seq < log[report.at].seq
  BY <1>1, <1>4 DEF IInv, QueueInv, Logged
<1> QED BY <1>1, <1>2, <1>4, <1>5

\* The watchdog's locals in a reading step: nothing but what was read changed.
LEMMA ReadGoes ==
  ASSUME IInv, rpc["dog"] \in Reads \ {"readTail"},
         NEW pc \in Reads, NEW l \in Locals, Next_("dog", pc, l),
         l.tail = Dog.tail, l.pass = Dog.pass,
         tail = Dog.tail =>
           /\ pc \in {"readVer", "readSeq", "readWork"} => l.seg = SegOf(l.tail)
           /\ pc \in {"readWork", "readVer2", "readTail"} =>
                l.rseq = log[l.tail + 1].seq
           /\ pc \in {"readVer2", "readTail"} => l.rwork = log[l.tail + 1].work
  PROVE  Goes("dog")
<1>1. Dog.tail <= tail /\ Dog.tail < head
  BY DEF IInv, Retirers, Retiring, RetiringAt, Reading, ReadingAt, Loaded, Dog
<1>2. RetiringAt(pc, l)
  BY <1>1 DEF RetiringAt, Searching, Found, Moved, Reads
<1>3. ReadingAt(pc, l)
  BY <1>1 DEF ReadingAt, Reads, Lines
<1>4. ReportingAt(pc, l)
  BY DEF IInv, Reporting, ReportingAt, Reads, Lines, Loaded, Resting, Dog
<1> QED BY <1>2, <1>3, <1>4 DEF Goes, Loaded

\* The slot of the entry the watchdog reads.
LEMMA DogSlotHolds ==
  ASSUME IInv, rpc["dog"] \in Reads \cup Lines, tail = Dog.tail,
         Dog.seg = SegOf(Dog.tail)
  PROVE  /\ DogSlot.seq = log[Dog.tail + 1].seq
         /\ DogSlot.work = log[Dog.tail + 1].work
<1>1. Dog.tail \in InFlight
  BY DEF IInv, Reading, ReadingAt, InFlight, QueueInv, QueueTyped, Dog
<1> QED BY <1>1 DEF IInv, QueueInv, Mapped, Written, Holds, DogSlot, Slot

LEMMA DogLocals ==
  ASSUME IInv
  PROVE  /\ Dog \in Locals /\ Dog.tail \in Nat /\ Dog.seg \in 0..NSEG
         /\ SegOf(Dog.tail) \in 0..NSEG /\ DogSlot \in Words
<1>1. Dog \in Locals /\ Dog.tail \in Nat /\ Dog.seg \in 0..NSEG
  BY DEF IInv, RetireTyped, Retirers, Dog, Locals
<1>2. SegOf(Dog.tail) \in 0..NSEG /\ Dog.tail % SEG \in Offsets
  BY <1>1, RowTyped, Divided DEF IInv, QueueInv, QueueTyped, SegOf
<1>3. ZeroSlot \in Words
  BY DEF ZeroSlot, Words
<1>4. Dog.seg # 0 => Dog.seg \in SegIds
  BY <1>1, WatchQueueAssumption DEF SegIds
<1>5. mem \in [SegIds -> [Offsets -> Words]]
  BY DEF IInv, QueueInv, QueueTyped
<1>6. DogSlot \in Words
  BY <1>2, <1>3, <1>4, <1>5 DEF DogSlot, Slot
<1> QED BY <1>1, <1>2, <1>6


\* The watchdog goes to a place where nothing is claimed of its locals.
LEMMA DogRests ==
  ASSUME IInv, rpc["dog"] \notin {"line"}, NEW pc \in Resting \ {"settle", "tail"},
         rpc["dog"] \notin Lines, NEW l \in Locals, Next_("dog", pc, l)
  PROVE  Goes("dog")
<1>1. RetiringAt(pc, l) /\ ReadingAt(pc, l)
  BY DEF RetiringAt, ReadingAt, Resting, Searching, Found, Moved, Reads, Lines,
         Loaded
<1>2. ReportingAt(pc, l)
  BY DEF IInv, Reporting, ReportingAt, Resting, Searching, Found, Moved, Reads,
         Lines, Loaded
<1> QED BY <1>1, <1>2 DEF Goes

LEMMA DogRoundInductive ==
  ASSUME IInv, DogRound \/ DogSettle PROVE IInv'
<1>0. /\ Reporting /\ ReportTyped
      /\ QuietDog /\ UNCHANGED <<tail, head, log, claimed, report>>
  BY DEF IInv, DogRound, DogSettle, QuietDog, QuietQueue
<1>1. CASE DogRound
  <2>1. PICK pc \in {"idle", "fault", "settle"} :
          /\ Next_("dog", pc, Loc0)
          /\ pc = IF claimed \/ unwatched THEN "idle"
                  ELSE IF fault THEN "fault" ELSE "settle"
    BY <1>1 DEF DogRound
  <2>2. rpc["dog"] = "idle" /\ reported' = IF claimed THEN 0 ELSE reported
    BY <1>1 DEF DogRound, At
  <2>3. PICK l : l = Loc0
    OBVIOUS
  <2>4. RetiringAt(pc, l) /\ ReadingAt(pc, l)
    BY <2>1 DEF RetiringAt, ReadingAt, Searching, Found, Moved, Reads, Lines, Loaded
  <2>5. ReportingAt(pc, l)'
    BY <1>0, <2>1, <2>2 DEF Reporting, ReportingAt, Searching, Found, Moved,
                            Reads, Lines, Loaded, Resting
  <2>6. ReportTyped'
    BY <1>0, <2>2 DEF ReportTyped
  <2>7. pc \in Resting \cup Loaded
    BY <2>1 DEF Resting
  <2> QED BY <1>0, <2>1, <2>3, <2>4, <2>5, <2>6, <2>7, Loc0Typed, DogInductive
<1>2. CASE DogSettle
  <2>1. PICK pc, l : pc = "tail" /\ l = Loc0
    OBVIOUS
  <2>2. /\ rpc["dog"] = "settle" /\ Next_("dog", pc, l)
        /\ reported' = IF done >= reported THEN 0 ELSE reported
    BY <1>2, <2>1 DEF DogSettle, At
  <2>3. reported' = 0 => report.at <= tail
    <3>1. reported = 0 => report.at <= tail
      BY <1>0, <2>2 DEF Reporting, ReportingAt, Resting
    <3>2. reported # 0 => report.at # 0 /\ reported = log[report.at].seq
      BY <1>0, <2>2 DEF Reporting, ReportingAt, Lines
    <3> QED BY <2>2, <3>1, <3>2, SettledBehind
  <2>4. RetiringAt(pc, l) /\ ReadingAt(pc, l)
    BY <2>1 DEF RetiringAt, ReadingAt, Searching, Found, Moved, Reads, Lines, Loaded
  <2>5. ReportingAt(pc, l)'
    BY <1>0, <2>1, <2>2, <2>3
       DEF Reporting, ReportingAt, Searching, Found, Moved, Reads, Lines,
           Loaded, Resting
  <2>6. ReportTyped'
    BY <1>0, <2>2 DEF ReportTyped
  <2>7. pc \in Resting \cup Loaded
    BY <2>1 DEF Resting
  <2> QED BY <1>0, <2>1, <2>2, <2>4, <2>5, <2>6, <2>7, Loc0Typed, DogInductive
<1> QED BY <1>1, <1>2

LEMMA DogFaultInductive ==
  ASSUME IInv, DogFault \/ DogBound \/ DogStops PROVE IInv'
<1>0. QuietDog /\ UNCHANGED dogVars
  BY DEF DogFault, DogBound, DogStops, Quiet, QuietDog, dogVars
<1> SUFFICES Goes("dog")
  BY <1>0, DogGoes
<1>1. Dog \in Locals /\ Dog = loc["dog"]
  BY DogLocals DEF Dog
<1>2. CASE DogFault \/ DogStops
  BY <1>2, Loc0Typed, DogRests
     DEF DogFault, DogStops, At, Return, Idle, Resting, Lines
<1>3. CASE DogBound
  <2>0. rpc["dog"] = "bound"
    BY <1>3 DEF DogBound, At
  <2>1. CASE tail # Dog.tail
    BY <1>3, <2>0, <2>1, <1>1, Loc0Typed, DogRests
       DEF DogBound, Return, Idle, Resting, Lines
  <2>2. CASE tail = Dog.tail
    <3>0. /\ Retiring("dog") /\ Reporting /\ "dog" \in Retirers
          /\ Dog.tail <= tail /\ Dog.tail < Dog.head /\ Dog.head <= head
          /\ Dog.tail \in Nat /\ Dog.head \in Nat /\ head \in Nat
      BY <1>1, <2>0, LocalsTyped
         DEF IInv, Retirers, Retiring, RetiringAt, Loaded, Found, QueueInv,
             QueueTyped
    <3>1. CASE Dog.end > Dog.tail
      <4>1. Next_("dog", "seqSeg", Dog)
        BY <1>1, <1>3, <2>2, <3>1 DEF DogBound
      <4>2. RetiringAt("seqSeg", Dog)
        BY <1>1, <2>0, <3>0, <3>1
           DEF Retiring, RetiringAt, Searching, Found, Moved, Loaded
      <4>3. ReadingAt("seqSeg", Dog) /\ ReportingAt("seqSeg", Dog)
        BY <1>1, <2>0, <3>0, NotReading, ReportStays DEF Loaded, Lines, Found
      <4> QED BY <1>1, <4>1, <4>2, <4>3 DEF Goes, Loaded, Found
    <3>2. CASE ~(Dog.end > Dog.tail) /\ Dog.err
      BY <1>1, <1>3, <2>0, <2>2, <3>2, DogRests DEF DogBound, Resting, Lines
    <3>3. CASE ~(Dog.end > Dog.tail) /\ ~Dog.err
      <4>1. Next_("dog", "readSeg", Dog)
        BY <1>1, <1>3, <2>2, <3>3 DEF DogBound
      <4>2. RetiringAt("readSeg", Dog)
        BY <3>0 DEF RetiringAt, Searching, Found, Moved, Loaded
      <4>3. ReadingAt("readSeg", Dog)
        BY <3>0 DEF ReadingAt, Reads, Lines
      <4>4. ReportingAt("readSeg", Dog)
        BY <1>1, <2>0, <3>0
           DEF Reporting, ReportingAt, Reads, Lines, Loaded, Found, Resting
      <4> QED BY <1>1, <4>1, <4>2, <4>3, <4>4 DEF Goes, Loaded, Reads
    <3> QED BY <3>1, <3>2, <3>3
  <2> QED BY <2>1, <2>2
<1> QED BY <1>2, <1>3


\* The reads of a slot, one word after the other.
LEMMA ReadInductive ==
  ASSUME IInv,
         ReadSeg \/ ReadVer \/ ReadSeq \/ ReadWork \/ ReadVer2 \/ ReadGiveUp
           \/ ReadTimedOut \/ LineSeg
  PROVE  IInv'
<1>0. QuietDog /\ UNCHANGED dogVars
  BY DEF ReadSeg, ReadVer, ReadSeq, ReadWork, ReadVer2, ReadGiveUp,
         ReadTimedOut, LineSeg, ReadStep, Quiet, QuietDog, dogVars
<1> SUFFICES Goes("dog")
  BY <1>0, DogGoes
<1>1. /\ Dog \in Locals /\ Dog = loc["dog"] /\ Dog.tail \in Nat
      /\ SegOf(Dog.tail) \in 0..NSEG /\ DogSlot.ver \in Nat
      /\ DogSlot.seq \in Nat /\ DogSlot.work \in Nat
  BY DogLocals DEF Dog, Words
<1>2. Reading /\ Reporting /\ ReportTyped
  BY DEF IInv
<1>3. CASE ReadSeg
  <2> DEFINE l == [Dog EXCEPT !.seg = SegOf(Dog.tail)]
  <2>1. /\ l \in Locals /\ l.tail = Dog.tail /\ l.pass = Dog.pass
        /\ l.seg = SegOf(l.tail)
    BY <1>1 DEF Locals
  <2>2. rpc["dog"] = "readSeg" /\ Next_("dog", "readVer", l)
    BY <1>3 DEF ReadSeg, ReadStep, At
  <2> HIDE DEF l
  <2> QED BY <2>1, <2>2, ReadGoes DEF Reads
<1>4. CASE ReadVer \/ ReadVer2 \/ ReadGiveUp
  <2>0. rpc["dog"] \in {"readVer", "readVer2", "readTail"}
    BY <1>4 DEF ReadVer, ReadVer2, ReadGiveUp, At
  <2>1. CASE Return("dog")
    BY <2>0, <2>1, Loc0Typed, DogRests DEF Return, Idle, Resting, Lines
  <2>2. CASE ReadVer /\ ~Return("dog")
    <3> DEFINE l == [Dog EXCEPT !.ver = DogSlot.ver]
    <3>1. /\ l \in Locals /\ l.tail = Dog.tail /\ l.pass = Dog.pass
          /\ l.seg = Dog.seg
      BY <1>1 DEF Locals
    <3>2. rpc["dog"] = "readVer" /\ Next_("dog", "readSeq", l)
      BY <2>2 DEF ReadVer, At
    <3> HIDE DEF l
    <3>3. tail = Dog.tail => l.seg = SegOf(l.tail)
      BY <1>1, <1>2, <3>1, <3>2 DEF Reading, ReadingAt
    <3> QED BY <3>1, <3>2, <3>3, ReadGoes DEF Reads
  <2>3. CASE ReadVer2 /\ ~Return("dog")
    <3>1. rpc["dog"] = "readVer2" /\ Next_("dog", "readTail", Dog)
      BY <2>3 DEF ReadVer2, At
    <3>2. tail = Dog.tail => /\ Dog.rseq = log[Dog.tail + 1].seq
                             /\ Dog.rwork = log[Dog.tail + 1].work
      BY <1>1, <1>2, <3>1 DEF Reading, ReadingAt
    <3> QED BY <1>1, <3>1, <3>2, ReadGoes DEF Reads
  <2> QED BY <1>4, <2>1, <2>2, <2>3 DEF ReadGiveUp
<1>5. CASE ReadSeq
  <2> DEFINE l == [Dog EXCEPT !.rseq = DogSlot.seq]
  <2>1. /\ l \in Locals /\ l.tail = Dog.tail /\ l.pass = Dog.pass
        /\ l.seg = Dog.seg /\ l.rseq = DogSlot.seq
    BY <1>1 DEF Locals
  <2>2. rpc["dog"] = "readSeq" /\ Next_("dog", "readWork", l)
    BY <1>5 DEF ReadSeq, ReadStep, At
  <2> HIDE DEF l
  <2>3. tail = Dog.tail => Dog.seg = SegOf(Dog.tail)
    BY <1>1, <1>2, <2>2 DEF Reading, ReadingAt
  <2>4. tail = Dog.tail => DogSlot.seq = log[Dog.tail + 1].seq
    BY <2>2, <2>3, DogSlotHolds DEF Reads
  <2> QED BY <2>1, <2>2, <2>3, <2>4, ReadGoes DEF Reads
<1>6. CASE ReadWork
  <2> DEFINE l == [Dog EXCEPT !.rwork = DogSlot.work]
  <2>1. /\ l \in Locals /\ l.tail = Dog.tail /\ l.pass = Dog.pass
        /\ l.rseq = Dog.rseq /\ l.rwork = DogSlot.work
    BY <1>1 DEF Locals
  <2>2. rpc["dog"] = "readWork" /\ Next_("dog", "readVer2", l)
    BY <1>6 DEF ReadWork, ReadStep, At
  <2> HIDE DEF l
  <2>3. tail = Dog.tail => /\ Dog.seg = SegOf(Dog.tail)
                           /\ Dog.rseq = log[Dog.tail + 1].seq
    BY <1>1, <1>2, <2>2 DEF Reading, ReadingAt
  <2>4. tail = Dog.tail => DogSlot.work = log[Dog.tail + 1].work
    BY <2>2, <2>3, DogSlotHolds DEF Reads
  <2> QED BY <2>1, <2>2, <2>3, <2>4, ReadGoes DEF Reads
<1>7. CASE ReadTimedOut
  <2> DEFINE l == [Loc0 EXCEPT !.tail = Dog.tail, !.pass = 1]
  <2>1. l \in Locals /\ l.tail = Dog.tail
    <3>1. 1 \in 0..1
      OBVIOUS
    <3> QED BY <1>1, <3>1, Loc0Typed DEF Locals
  <2>2. /\ rpc["dog"] = "readTail" /\ Next_("dog", "readSeg", l)
        /\ tail = Dog.tail /\ Dog.rseq # reported
    BY <1>7 DEF ReadTimedOut, At, TailMoved
  <2> HIDE DEF l
  <2>3. Dog.tail < head /\ Dog.rseq = log[Dog.tail + 1].seq
    BY <1>1, <1>2, <2>2 DEF Reading, ReadingAt, Reads
  <2>4. report.at <= Dog.tail
    <3>1. report.at \in Nat /\ report.at <= Dog.tail + 1
      BY <1>1, <1>2, <2>2 DEF ReportTyped, Reporting, ReportingAt, Loaded, Reads
    <3>2. report.at # Dog.tail + 1
      <4>1. CASE reported = 0
        <5>1. report.at <= Dog.tail
          BY <1>1, <1>2, <2>2, <4>1 DEF Reporting, ReportingAt, Loaded, Reads
        <5> QED BY <1>1, <3>1, <5>1
      <4>2. CASE reported # 0
        BY <1>2, <2>2, <2>3, <4>2 DEF Reporting, ReportingAt, Lines
      <4> QED BY <4>1, <4>2
    <3> QED BY <1>1, <3>1, <3>2
  <2>5. RetiringAt("readSeg", l)
    BY <1>1, <2>1, <2>2 DEF RetiringAt, Searching, Found, Moved, IInv,
                            QueueInv, QueueTyped
  <2>6. ReadingAt("readSeg", l)
    BY <2>1, <2>3 DEF ReadingAt, Lines
  <2>7. ReportingAt("readSeg", l)
    <3>1. l.tail \in Nat /\ report.at <= l.tail /\ report.at \in Nat
      BY <1>1, <1>2, <2>1, <2>4 DEF ReportTyped
    <3> QED BY <1>2, <2>1, <2>2, <3>1
            DEF Reporting, ReportingAt, Loaded, Reads, Lines, Resting
  <2> QED BY <2>1, <2>2, <2>5, <2>6, <2>7 DEF Goes, Loaded, Reads
<1>8. CASE LineSeg
  <2> DEFINE l == [Dog EXCEPT !.seg = SegOf(Dog.tail)]
  <2>1. /\ l \in Locals /\ l.tail = Dog.tail /\ l.pass = Dog.pass
        /\ l.rseq = Dog.rseq /\ l.rwork = Dog.rwork
    BY <1>1 DEF Locals
  <2>2. rpc["dog"] = "lineSeg" /\ Next_("dog", "line", l)
    BY <1>8 DEF LineSeg, ReadStep, At
  <2> HIDE DEF l
  <2>3. RetiringAt("line", l)
    BY <1>1, <2>1, <2>2 DEF IInv, Retirers, Retiring, RetiringAt, Searching,
                            Found, Moved, Loaded, Lines
  <2>4. ReadingAt("line", l)
    BY <1>1, <1>2, <2>1, <2>2 DEF Reading, ReadingAt, Lines, Reads
  <2>5. ReportingAt("line", l)
    BY <1>1, <1>2, <2>1, <2>2 DEF Reporting, ReportingAt, Lines, Loaded, Resting
  <2> QED BY <2>1, <2>2, <2>3, <2>4, <2>5 DEF Goes, Loaded, Lines
<1> QED BY <1>3, <1>4, <1>5, <1>6, <1>7, <1>8

\* The entry is reported: what was read of it is its own.
LEMMA IncidentInductive ==
  ASSUME IInv, Incident PROVE IInv'
<1>0. QuietDog /\ UNCHANGED <<tail, head, log, claimed, report>>
  BY DEF Incident, QuietDog, QuietQueue
<1>1. PICK pc, l : pc = "lineSeg" /\ l = Dog
  OBVIOUS
<1>2. /\ rpc["dog"] = "readTail" /\ Next_("dog", pc, l)
      /\ reported' = Dog.rseq /\ tail = Dog.tail /\ Dog.pass = 1
  BY <1>1 DEF Incident, At, TailMoved
<1>3. /\ l \in Locals /\ l = loc["dog"] /\ l.tail \in Nat /\ l.rseq \in Nat
  BY <1>1, DogLocals DEF Dog, Locals
<1>4. /\ Dog.tail < head /\ Dog.rseq = log[Dog.tail + 1].seq
      /\ Dog.rwork = log[Dog.tail + 1].work /\ report.at <= Dog.tail
      /\ report.at \in Nat
  BY <1>2 DEF IInv, Reading, ReadingAt, Reporting, ReportingAt, Reads, Loaded,
              Dog, ReportTyped
<1>5. RetiringAt(pc, l)
  BY <1>1, <1>2, <1>3 DEF RetiringAt, Searching, Found, Moved, Lines
<1>6. ReadingAt(pc, l)
  BY <1>1, <1>4 DEF ReadingAt, Lines, Reads
<1>7. ReportingAt(pc, l)'
  <2>1. report.at <= l.tail /\ report.at <= l.tail + 1 /\ reported' = l.rseq
        /\ tail = l.tail
    BY <1>1, <1>2, <1>3, <1>4
  <2>2. /\ report.at <= head /\ report.at <= tail + 1
        /\ report.at # 0 => /\ report.seq = log[report.at].seq
                            /\ report.work = log[report.at].work
        /\ report.at = 0 => report.work = 0
    BY DEF IInv, Reporting, ReportingAt
  <2> QED BY <1>0, <1>1, <2>1, <2>2 DEF ReportingAt, Lines, Reads
<1>8. ReportTyped'
  BY <1>0, <1>1, <1>2, <1>3 DEF IInv, ReportTyped
<1>9. pc \in Resting \cup Loaded
  BY <1>1 DEF Loaded, Lines
<1> QED BY <1>0, <1>2, <1>3, <1>5, <1>6, <1>7, <1>8, <1>9, DogInductive

\* The report names a later entry than the last one.
LEMMA LineReports ==
  ASSUME IInv, Line
  PROVE  /\ report'.at = Dog.tail + 1 /\ report'.at > report.at
         /\ report'.at \in 1..head
         /\ report'.seq = log[report'.at].seq /\ report'.work = log[report'.at].work
         /\ reported = log[report'.at].seq /\ report'.at <= tail + 1
         /\ ReportTyped'
<1>1. /\ rpc["dog"] = "line" /\ reported' = reported
      /\ report' = [seq |-> Dog.rseq, work |-> Dog.rwork, at |-> Dog.tail + 1,
                    fr |-> DogSlot.work]
  BY DEF Line, At
<1>2. /\ Dog.tail \in Nat /\ Dog.rseq \in Nat /\ Dog.rwork \in Nat
      /\ DogSlot.work \in Nat /\ head \in Nat /\ tail \in Nat
      /\ report.at \in Nat /\ reported \in Nat
  BY DogLocals DEF Locals, Words, IInv, QueueInv, QueueTyped, ReportTyped
<1>3. /\ Dog.tail < head /\ Dog.tail <= tail
      /\ Dog.rseq = log[Dog.tail + 1].seq /\ Dog.rwork = log[Dog.tail + 1].work
      /\ report.at <= Dog.tail /\ reported = Dog.rseq
  BY <1>1 DEF IInv, Retirers, Retiring, RetiringAt, Reading, ReadingAt,
              Reporting, ReportingAt, Loaded, Lines, Dog
<1> QED BY <1>1, <1>2, <1>3 DEF ReportTyped

LEMMA LineInductive ==
  ASSUME IInv, Line PROVE IInv'
<1>0. QuietDog /\ UNCHANGED <<tail, head, log, claimed, reported>>
  BY DEF Line, QuietDog, QuietQueue
<1>1. PICK pc, l : pc = "idle" /\ l = Loc0
  OBVIOUS
<1>2. Next_("dog", pc, l) /\ pc \in Resting \cup Loaded
  BY <1>1 DEF Line, Return, Idle, Resting
<1>3. RetiringAt(pc, l) /\ ReadingAt(pc, l)
  BY <1>1 DEF RetiringAt, ReadingAt, Searching, Found, Moved, Reads, Lines, Loaded
<1>4. reported # 0
  <2>1. log[report'.at].seq \in 1..seq /\ seq \in Nat
    BY LineReports DEF IInv, QueueInv, Logged, QueueTyped
  <2> QED BY <2>1, LineReports
<1>5. ReportingAt(pc, l)'
  <2>1. head \in Nat
    BY DEF IInv, QueueInv, QueueTyped
  <2> QED BY <1>0, <1>1, <1>4, <2>1, LineReports
          DEF ReportingAt, Lines, Reads, Loaded, Searching, Found, Moved
<1> QED BY <1>0, <1>1, <1>2, <1>3, <1>5, Loc0Typed, LineReports, DogInductive

LEMMA DownInductive ==
  ASSUME IInv, DownStep PROVE IInv'
<1> USE DEF queueVars, segVars, prodVars, gpuVars, frVars
<1>1. CASE Claim
  <2>1. /\ QueueKept
        /\ UNCHANGED <<tail, done, completed, stamped, rpc, loc, dogVars>>
        /\ claimed'
    BY <1>1 DEF Claim, QueueKept
  <2>2. tail \in Nat /\ done \in Nat /\ completed \in Nat /\ tail <= head /\ head \in Nat
    BY DEF IInv, QueueInv, QueueTyped, Mapped
  <2>3. QueueInv' /\ Accounted'
    BY <2>1, <2>2, QueueKeeps DEF IInv
  <2>4. MovesOn
    BY <2>1, <2>2 DEF MovesOn, QueueKept, SegOf
  <2>5. Retired' /\ RetireTyped' /\ \A q \in Retirers : Retiring(q)'
    BY <2>1, <2>4, RetiredKept, RetiringKept DEF IInv, RetireTyped
  <2>6. Reading' /\ Reporting' /\ ReportTyped'
    BY <2>1, <2>4, ReadingKept, ReportingKept DEF IInv, Retirers
  <2> QED BY <2>3, <2>5, <2>6 DEF IInv
<1>2. CASE DrainStart \/ DrainCheck \/ DrainDeadline \/ ExitStop \/ ExitJoined
  <2>1. /\ QueueKept /\ Still /\ UNCHANGED <<tail, done, stamped, log, completed>>
    BY <1>2 DEF DrainStart, DrainCheck, DrainDeadline, ExitStop, ExitJoined,
                Quiet, QuietQueue, QueueKept, Still, dogVars
  <2>2. \E pc \in {"closed", "check", "tail", "join"} : Next_("down", pc, Loc0)
    BY <1>2 DEF DrainStart, DrainCheck, DrainDeadline, ExitStop, ExitJoined,
                Return, Idle
  <2>3. \A pc \in {"closed", "check", "tail", "join"} : RetiringAt(pc, Loc0)
    BY DEF RetiringAt, Searching, Found, Moved, Reads, Lines, Loaded
  <2>4. Goes("down")
    BY <2>2, <2>3, Loc0Typed DEF Goes, Resting
  <2>5. Retired' /\ done' \in Nat
    BY <2>1 DEF IInv, Retired, Complete, WorksTo, QueueInv, QueueTyped
  <2> QED BY <2>1, <2>4, <2>5, GoesInductive DEF Retirers
<1> QED BY <1>1, <1>2 DEF DownStep


LEMMA StutterInductive ==
  ASSUME IInv, UNCHANGED vars PROVE IInv'
<1> USE DEF vars, queueVars, segVars, prodVars, gpuVars, frVars
<1>1. /\ QueueKept /\ claimed' = claimed
      /\ UNCHANGED <<tail, done, completed, stamped, rpc, loc, dogVars>>
  BY DEF QueueKept
<1>2. tail \in Nat /\ done \in Nat /\ completed \in Nat /\ tail <= head /\ head \in Nat
  BY DEF IInv, QueueInv, QueueTyped, Mapped
<1>3. QueueInv' /\ Accounted'
  BY <1>1, <1>2, QueueKeeps DEF IInv
<1>4. MovesOn
  BY <1>1, <1>2 DEF MovesOn, QueueKept, SegOf
<1>5. Retired' /\ RetireTyped' /\ \A q \in Retirers : Retiring(q)'
  BY <1>1, <1>4, RetiredKept, RetiringKept DEF IInv, RetireTyped
<1>6. Reading' /\ Reporting' /\ ReportTyped'
  BY <1>1, <1>4, ReadingKept, ReportingKept DEF IInv, Retirers
<1> QED BY <1>3, <1>5, <1>6 DEF IInv

LEMMA NextInductive ==
  ASSUME IInv, [Next]_vars PROVE IInv'
<1>1. CASE GpuStep BY <1>1, GpuInductive
<1>2. CASE CommitStep BY <1>2, CommitInductive
<1>3. CASE DogStep
  BY <1>3, DogRoundInductive, DogFaultInductive, ReadInductive,
     IncidentInductive, LineInductive DEF DogStep
<1>4. CASE DownStep BY <1>4, DownInductive
<1>5. CASE \E r \in Retirers : RetireStep(r) BY <1>5, RetireInductive
<1>6. CASE UNCHANGED vars BY <1>6, StutterInductive
<1> QED BY <1>1, <1>2, <1>3, <1>4, <1>5, <1>6 DEF Next

\* Only the last step of an incident writes the report.
LEMMA NextReports ==
  ASSUME IInv, [Next]_vars
  PROVE  [report' # report => report'.at > report.at]_vars
<1> SUFFICES ASSUME Next, report' # report PROVE report'.at > report.at
  OBVIOUS
<1> USE DEF dogVars, Quiet, QuietQueue
<1>1. ~CommitStep
  BY CommitMovesOn
<1>2. ~(GpuStep \/ DownStep)
  BY DEF GpuStep, DownStep, DrainStart, DrainCheck, DrainDeadline, ExitStop,
         ExitJoined, Claim
<1>3. \A r \in Retirers : ~RetireStep(r)
  BY DEF RetireStep, LoadTail, LoadHead, BoundaryPoint, BoundaryEvent,
         QueryDone, QueryPending, QueryError, LoadSeqSeg, LoadSeq, LoadIdSeg,
         LoadId, CasTail, RaiseDone, Stamp
<1>4. ~(\/ DogRound \/ DogSettle \/ DogFault \/ DogBound \/ DogStops
        \/ ReadSeg \/ ReadVer \/ ReadSeq \/ ReadWork \/ ReadVer2 \/ ReadGiveUp
        \/ ReadTimedOut \/ Incident \/ LineSeg)
  BY DEF DogRound, DogSettle, DogFault, DogBound, DogStops, ReadSeg, ReadVer,
         ReadSeq, ReadWork, ReadVer2, ReadGiveUp, ReadTimedOut, Incident,
         LineSeg, ReadStep
<1> QED BY <1>1, <1>2, <1>3, <1>4, LineReports DEF Next, DogStep

-----------------------------------------------------------------------------
(* The queue implements CallLedger: each step is one of the ledger's or      *)
(* leaves its view alone.                                                   *)

Queued == Works(tail + 1, head)
Left   == Works(1, tail)

\* The ledger sees the queue through its indices and its history only.
LEMMA LedgerStays ==
  ASSUME UNCHANGED <<issued, completed, head, tail, log, stamped, untracked, report>>,
         (cpc # "idle")' = (cpc # "idle")
  PROVE  UNCHANGED Ledger!vars
<1>1. UNCHANGED <<Queued, Left>>
  BY DEF Queued, Left, Works
<1> QED BY <1>1 DEF Ledger!vars, Queued, Left

LEMMA LedgerTyped ==
  ASSUME IInv
  PROVE  /\ head \in Nat /\ tail \in Nat /\ issued \in Nat /\ completed \in Nat
         /\ tail <= head
         /\ \A i \in 1..head : log[i].work \in 1..issued
         /\ \A i, j \in 1..head : i < j => log[i].work < log[j].work
BY DEF IInv, QueueInv, QueueTyped, Logged, Mapped

\* The calls of the queue are in the order of their numbers.
LEMMA WorksOrdered ==
  ASSUME IInv, NEW i \in 1..head, NEW j \in 1..head
  PROVE  (log[i].work <= log[j].work) <=> i <= j
<1>1. /\ head \in Nat /\ issued \in Nat
      /\ log[i].work \in 1..issued /\ log[j].work \in 1..issued
      /\ i < j => log[i].work < log[j].work
      /\ j < i => log[j].work < log[i].work
  BY LedgerTyped
<1> QED BY <1>1

LEMMA GpuRefined ==
  ASSUME IInv, GpuStep PROVE Ledger!Finish
<1>1. UNCHANGED <<issued, head, tail, log, stamped, untracked, report, cpc>>
  BY DEF GpuStep, queueVars, prodVars, dogVars, frVars
<1>2. UNCHANGED <<Queued, Left>>
  BY <1>1 DEF Queued, Left, Works
<1> QED BY <1>1, <1>2 DEF GpuStep, Ledger!Finish, Queued, Left

\* A commit is queued by its last store, or told untracked.
LEMMA CommitRefined ==
  ASSUME IInv, CommitStep PROVE Ledger!Next \/ UNCHANGED Ledger!vars
<1> USE DEF Commit, queueVars, gpuVars, frVars, dogVars, prodVars
<1>0. UNCHANGED <<tail, completed, stamped, report>>
  BY CommitMovesOn
<1>1. CASE Onward
  <2>1. /\ UNCHANGED <<head, issued, untracked, log>>
        /\ cpc # "idle" /\ cpc' # "idle"
    BY <1>1, OnwardCounts DEF IInv, QueueInv, Committing, Placing, Writing
  <2> QED BY <1>0, <2>1, LedgerStays
<1>2. CASE CommitBegin
  <2>1. UNCHANGED <<head, issued, untracked, log>> /\ cpc # "idle" /\ cpc' # "idle"
    BY <1>2 DEF CommitBegin
  <2> QED BY <1>0, <2>1, LedgerStays
<1>3. CASE Issue
  <2>1. /\ UNCHANGED <<head, untracked, log>> /\ issued' = issued + 1
        /\ cpc = "idle" /\ cpc' = "begin"
    BY <1>3 DEF Issue
  <2>2. UNCHANGED <<Queued, Left>>
    BY <1>0, <2>1 DEF Queued, Left, Works
  <2>3. Ledger!Issue
    BY <1>0, <2>1, <2>2 DEF Ledger!Issue, Queued, Left
  <2> QED BY <2>3 DEF Ledger!Next
<1>4. CASE CommitRefused \/ CommitDropped \/ CommitFault
  <2>1. /\ UNCHANGED <<head, issued, log>> /\ untracked' = untracked \cup {issued}
        /\ cpc # "idle" /\ cpc' = "idle"
    BY <1>4 DEF CommitRefused, CommitDropped, CommitFault
  <2>2. UNCHANGED <<Queued, Left>>
    BY <1>0, <2>1 DEF Queued, Left, Works
  <2>3. Ledger!Drop
    BY <1>0, <2>1, <2>2 DEF Ledger!Drop, Queued, Left
  <2> QED BY <2>3 DEF Ledger!Next
<1>5. CASE CommitPublish
  <2>1. /\ UNCHANGED <<issued, untracked>> /\ cpc # "idle" /\ cpc' = "idle"
        /\ head' = head + 1
        /\ \A i \in 1..head : log'[i] = log[i]
        /\ log'[head + 1].work = issued
    BY <1>5, Appended DEF CommitPublish, IInv, QueueInv
  <2>2. head \in Nat /\ tail \in Nat /\ tail <= head
    BY LedgerTyped
  <2>3. Queued' = Queued \cup {issued}
    <3>1. (tail + 1)..(head + 1) = ((tail + 1)..head) \cup {head + 1}
      BY <2>2
    <3>2. \A i \in (tail + 1)..head : i \in 1..head
      BY <2>2
    <3> QED BY <1>0, <2>1, <3>1, <3>2 DEF Queued, Works
  <2>4. Left' = Left
    <3>1. \A i \in 1..tail : i \in 1..head
      BY <2>2
    <3> QED BY <1>0, <2>1, <3>1 DEF Left, Works
  <2>5. Ledger!Queue
    BY <1>0, <2>1, <2>3, <2>4 DEF Ledger!Queue, Queued, Left
  <2> QED BY <2>5 DEF Ledger!Next
<1> QED BY <1>1, <1>2, <1>3, <1>4, <1>5 DEF CommitStep, Onward

\* The tail moves over finished calls, the oldest first.
LEMMA CasRefined ==
  ASSUME IInv, NEW r \in Retirers, CasTail(r)
  PROVE  Ledger!Next \/ UNCHANGED Ledger!vars
<1> DEFINE end == loc[r].end
<1>0. UNCHANGED <<issued, completed, head, log, stamped, untracked, report, cpc>>
  BY DEF CasTail, QuietQueue, prodVars, gpuVars, dogVars
<1>1. CASE tail = loc[r].tail
  <2>1. tail' = end
    BY <1>1 DEF CasTail
  <2>2. /\ rpc[r] = "cas" /\ loc[r] \in Locals /\ RetiringAt(rpc[r], loc[r])
    BY DEF CasTail, At, IInv, RetireTyped, Retiring
  <2>3. /\ end \in Nat /\ tail < end /\ end <= head /\ Complete(end)
    <3>1. /\ loc[r].tail < end /\ end <= loc[r].head /\ loc[r].head <= head
          /\ Complete(end)
      BY <1>1, <2>2 DEF RetiringAt, Found, Moved, Searching
    <3>2. /\ loc[r].tail \in Nat /\ end \in Nat /\ loc[r].head \in Nat
      BY <2>2 DEF Locals
    <3>3. head \in Nat
      BY LedgerTyped
    <3> HIDE DEF end
    <3> QED BY <1>1, <3>1, <3>2, <3>3
  <2> HIDE DEF end
  <2> DEFINE n == log[end].work
             leaving == {q \in Queued : q <= n}
  <2>4. head \in Nat /\ tail \in Nat /\ end \in 1..head /\ tail <= head
    BY <2>3, LedgerTyped
  <2>5. leaving = Works(tail + 1, end)
    <3>1. ASSUME NEW i \in (tail + 1)..head
          PROVE  log[i].work <= n <=> i <= end
      <4>1. i \in 1..head
        BY <2>4
      <4> QED BY <2>4, <4>1, WorksOrdered
    <3>2. ASSUME NEW q \in leaving PROVE q \in Works(tail + 1, end)
      <4>1. PICK i \in (tail + 1)..head : q = log[i].work
        BY DEF Queued, Works
      <4>2. i <= end
        BY <3>1, <4>1
      <4>3. i \in (tail + 1)..end
        BY <2>4, <4>2
      <4> QED BY <4>1, <4>3 DEF Works
    <3>3. ASSUME NEW i \in (tail + 1)..end PROVE log[i].work \in leaving
      <4>1. i \in (tail + 1)..head /\ i <= end
        BY <2>4
      <4> QED BY <3>1, <4>1 DEF Queued, Works
    <3> QED BY <3>2, <3>3 DEF Works
  <2>6. Queued' = Queued \ leaving
    <3>1. Queued' = Works(end + 1, head)
      BY <1>0, <2>1 DEF Queued, Works
    <3>2. ASSUME NEW i \in (end + 1)..head
          PROVE  i \in (tail + 1)..head /\ log[i].work \notin leaving
      <4>1. i \in 1..head /\ i \in (tail + 1)..head /\ ~(i <= end)
        BY <2>3, <2>4
      <4>2. ~(log[i].work <= n)
        BY <2>4, <4>1, WorksOrdered
      <4> QED BY <4>1, <4>2
    <3>3. ASSUME NEW i \in (tail + 1)..head, log[i].work \notin leaving
          PROVE  i \in (end + 1)..head
      <4>1. i \notin (tail + 1)..end
        BY <2>5, <3>3 DEF Works
      <4> HIDE DEF leaving
      <4> QED BY <2>3, <2>4, <4>1
    <3>4. ASSUME NEW q \in Queued' PROVE q \in Queued \ leaving
      <4>1. PICK i \in (end + 1)..head : q = log[i].work
        BY <3>1 DEF Works
      <4>2. i \in (tail + 1)..head /\ q \notin leaving
        BY <3>2, <4>1
      <4> HIDE DEF leaving
      <4> QED BY <4>1, <4>2 DEF Queued, Works
    <3>5. ASSUME NEW q \in Queued, q \notin leaving PROVE q \in Queued'
      <4>1. PICK i \in (tail + 1)..head : q = log[i].work
        BY DEF Queued, Works
      <4>2. i \in (end + 1)..head
        BY <3>3, <3>5, <4>1
      <4> QED BY <3>1, <4>1, <4>2 DEF Works
    <3> HIDE DEF leaving
    <3> QED BY <3>4, <3>5
  <2>7. Left' = Left \cup leaving
    <3>1. Left' = Works(1, end)
      BY <1>0, <2>1 DEF Left, Works
    <3>2. 1..end = (1..tail) \cup ((tail + 1)..end)
      BY <2>3, <2>4
    <3> HIDE DEF leaving
    <3> QED BY <2>5, <3>1, <3>2 DEF Left, Works
  <2>8. n <= completed /\ n \in Queued
    <3>1. end \in 1..end /\ end \in (tail + 1)..head
      BY <2>3, <2>4
    <3>2. completed >= n /\ n \in Queued
      BY <2>3, <3>1 DEF Complete, Queued, Works
    <3>3. n \in Nat /\ completed \in Nat
      BY <2>4, LedgerTyped
    <3> QED BY <3>2, <3>3
  <2> HIDE DEF n
  <2>9. Ledger!Retire(n)
    BY <1>0, <2>6, <2>7, <2>8 DEF Ledger!Retire, Queued, Left
  <2> QED BY <2>8, <2>9 DEF Ledger!Next, Queued
<1>2. CASE tail # loc[r].tail
  <2>1. tail' = tail
    BY <1>2 DEF CasTail
  <2> QED BY <1>0, <2>1, LedgerStays
<1> QED BY <1>1, <1>2

LEMMA StampRefined ==
  ASSUME IInv, NEW r \in Retirers, Stamp(r)
  PROVE  Ledger!Next
<1>1. /\ UNCHANGED <<issued, completed, head, tail, log, untracked, report, cpc>>
      /\ stamped' = stamped \cup loc[r].ids
  BY DEF Stamp, QuietQueue, prodVars, gpuVars, dogVars
<1>2. UNCHANGED <<Queued, Left>>
  BY <1>1 DEF Queued, Left, Works
<1>3. loc[r].ids \subseteq Left
  <2>1. /\ loc[r].end <= tail /\ loc[r].ids \subseteq WorksTo(loc[r].end)
        /\ loc[r].end \in Nat
    BY DEF Stamp, At, IInv, Retiring, RetiringAt, Moved, RetireTyped, Locals
  <2>2. 1..loc[r].end \subseteq 1..tail
    BY <2>1, LedgerTyped
  <2> QED BY <2>1, <2>2 DEF WorksTo, Left, Works
<1>4. Ledger!Stamp(loc[r].ids)
  BY <1>1, <1>2 DEF Ledger!Stamp, Queued, Left
<1> QED BY <1>3, <1>4 DEF Ledger!Next, Left

LEMMA RetireRefined ==
  ASSUME IInv, NEW r \in Retirers, RetireStep(r)
  PROVE  Ledger!Next \/ UNCHANGED Ledger!vars
<1>1. CASE CasTail(r) BY <1>1, CasRefined
<1>2. CASE Stamp(r) BY <1>2, StampRefined
<1>3. CASE ~CasTail(r) /\ ~Stamp(r)
  <2>1. UNCHANGED <<issued, completed, head, tail, log, stamped, untracked, report, cpc>>
    BY <1>3 DEF RetireStep, LoadTail, LoadHead, BoundaryPoint, BoundaryEvent,
                QueryDone, QueryPending, QueryError, LoadSeqSeg, LoadSeq,
                LoadIdSeg, LoadId, RaiseDone, Quiet, QuietQueue, prodVars,
                gpuVars, dogVars
  <2> QED BY <2>1, LedgerStays
<1> QED BY <1>1, <1>2, <1>3

\* An incident's call is the oldest one, unless it left the queue meanwhile.
LEMMA LineRefined ==
  ASSUME IInv, Line PROVE Ledger!Next
<1> DEFINE at == report'.at
           n == log[at].work
<1>1. /\ UNCHANGED <<issued, completed, head, tail, log, stamped, untracked, cpc>>
  BY DEF Line, QuietQueue, prodVars, gpuVars
<1>2. UNCHANGED <<Queued, Left>>
  BY <1>1 DEF Queued, Left, Works
<1>3. /\ report'.work = n /\ at > report.at /\ at \in 1..head /\ at <= tail + 1
  BY LineReports
<1>4. /\ head \in Nat /\ tail \in Nat /\ issued \in Nat /\ tail <= head
  BY LedgerTyped
<1>5. /\ report.at \in Nat /\ report.work \in Nat /\ report.at <= head
      /\ report.at # 0 => report.work = log[report.at].work
  BY DEF IInv, ReportTyped, Reporting, ReportingAt
<1> HIDE DEF at
<1>6. n > report.work
  <2>1. CASE report.at # 0
    <3>1. report.at \in 1..head /\ report.at < at
      BY <1>3, <1>4, <1>5, <2>1
    <3> QED BY <1>3, <1>5, <2>1, <3>1, LedgerTyped
  <2>2. CASE report.at = 0
    <3>1. report.work = 0
      BY <2>2 DEF IInv, Reporting, ReportingAt
    <3> QED BY <1>3, <3>1, LedgerTyped
  <2> QED BY <2>1, <2>2
<1>7. n \in Left \/ (n \in Queued /\ \A q \in Queued : n <= q)
  <2>1. CASE at <= tail
    <3>1. at \in 1..tail
      BY <1>3, <1>4, <2>1
    <3> QED BY <3>1 DEF Left, Works
  <2>2. CASE at = tail + 1
    <3>1. at \in (tail + 1)..head
      BY <1>3, <1>4, <2>2
    <3>2. ASSUME NEW i \in (tail + 1)..head PROVE n <= log[i].work
      <4>1. i \in 1..head /\ at <= i
        BY <1>4, <2>2
      <4> QED BY <1>3, <4>1, WorksOrdered
    <3> QED BY <3>1, <3>2 DEF Queued, Works
  <2> QED BY <1>3, <1>4, <2>1, <2>2
<1> HIDE DEF n
<1>8. Ledger!Report(n)
  BY <1>1, <1>2, <1>3, <1>6, <1>7 DEF Ledger!Report, Queued, Left
<1> QED BY <1>7, <1>8 DEF Ledger!Next, Queued, Left

LEMMA DogRefined ==
  ASSUME IInv, DogStep PROVE Ledger!Next \/ UNCHANGED Ledger!vars
<1>1. CASE Line BY <1>1, LineRefined
<1>2. CASE ~Line
  <2>1. UNCHANGED <<issued, completed, head, tail, log, stamped, untracked, report, cpc>>
    BY <1>2 DEF DogStep, DogRound, DogSettle, DogFault, DogBound, DogStops,
                ReadSeg, ReadVer, ReadSeq, ReadWork, ReadVer2, ReadGiveUp,
                ReadTimedOut, Incident, LineSeg, ReadStep, Quiet, QuietQueue,
                prodVars, gpuVars, dogVars
  <2> QED BY <2>1, LedgerStays
<1> QED BY <1>1, <1>2

LEMMA NextRefined ==
  ASSUME IInv, [Next]_vars PROVE [Ledger!Next]_(Ledger!vars)
<1>1. CASE GpuStep BY <1>1, GpuRefined DEF Ledger!Next
<1>2. CASE CommitStep BY <1>2, CommitRefined
<1>3. CASE DogStep BY <1>3, DogRefined
<1>4. CASE DownStep \/ UNCHANGED vars
  <2>1. UNCHANGED <<issued, completed, head, tail, log, stamped, untracked, report, cpc>>
    BY <1>4 DEF DownStep, DrainStart, DrainCheck, DrainDeadline, ExitStop,
                ExitJoined, Claim, Quiet, QuietQueue, vars, queueVars,
                prodVars, gpuVars, dogVars, frVars
  <2> QED BY <2>1, LedgerStays
<1>5. CASE \E r \in Retirers : RetireStep(r) BY <1>5, RetireRefined
<1> QED BY <1>1, <1>2, <1>3, <1>4, <1>5 DEF Next

LEMMA InitRefined == Init => Ledger!Init
<1> SUFFICES ASSUME Init PROVE Ledger!Init OBVIOUS
<1>1. Queued = {} /\ Left = {}
  BY DEF Init, Queued, Left, Works
<1> QED BY <1>1 DEF Init, Ledger!Init, Queued, Left

-----------------------------------------------------------------------------
(* The theorems.                                                            *)

\* The inductive invariant: the queue, what its retirers know of it and what
\* was reported of it.
THEOREM Invariance == Spec => []IInv
<1>1. Init => IInv
  BY InitIInv
<1>2. IInv /\ [Next]_vars => IInv'
  BY NextInductive
<1> QED BY <1>1, <1>2, PTL DEF Spec

\* An entry leaves the queue only once its work finished: no retirer acts on
\* events a racing retirement and a reused segment recorded again
\* (_boundary, and the compare-exchange of _retire_now and _poll_tracker).
THEOREM RetirementIsSound == Spec => []RetiredOnlyWhenComplete
<1>1. IInv => RetiredOnlyWhenComplete
  BY DEF IInv, QueueInv, Logged, Mapped, Retired, Complete, RetiredOnlyWhenComplete
<1> QED BY <1>1, Invariance, PTL

\* No segment of an entry in flight is recycled, no slot of one written
\* (_unmap_retired, _map_segment and _full, for every size of the table).
THEOREM NothingInFlightRecycled == Spec => []InFlightIntact
<1>1. IInv => InFlightIntact
  BY DEF IInv, QueueInv, Mapped, Written, Holds, InFlight, InFlightIntact
<1> QED BY <1>1, Invariance, PTL

\* T_DONE never passes a running collective, whoever raised it last
\* (_raise_done after a compare-exchange that won).
THEOREM DoneNeverPassesRunning == Spec => []DoneIsComplete
<1>1. ASSUME IInv, NEW i \in DOMAIN log, log[i].seq <= done
      PROVE  completed >= log[i].work
  <2>1. /\ i \in 1..head /\ head \in Nat /\ tail \in Nat /\ done \in Nat
        /\ seq \in Nat /\ log[i].seq \in 1..seq /\ tail <= head
    BY <1>1 DEF IInv, QueueInv, QueueTyped, Logged, Mapped
  <2>2. tail # 0
    BY <1>1, <2>1 DEF IInv, Retired
  <2>3. /\ tail \in 1..head /\ done <= log[tail].seq /\ log[tail].seq \in 1..seq
    BY <1>1, <2>1, <2>2 DEF IInv, Retired, QueueInv, Logged
  <2>4. ~(tail < i)
    <3>1. tail < i => log[tail].seq < log[i].seq
      BY <1>1, <2>1, <2>3 DEF IInv, QueueInv, Logged
    <3> QED BY <1>1, <2>1, <2>3, <3>1
  <2>5. i \in 1..tail
    BY <2>1, <2>4
  <2> QED BY <1>1, <2>5 DEF IInv, Retired, Complete
<1>2. IInv => DoneIsComplete
  BY <1>1 DEF DoneIsComplete
<1> QED BY <1>2, Invariance, PTL

\* Only retired entries are stamped: the loser of a compare-exchange stamps
\* nothing it read (_fr_ids before it, _fr_stamp after).
THEOREM StampsFollowTheTail == Spec => []StampedOnlyRetired
<1>1. IInv => StampedOnlyRetired
  BY DEF IInv, Retired, WorksTo, StampedOnlyRetired
<1> QED BY <1>1, Invariance, PTL

\* What an incident says of an entry belongs together, however the producer
\* reused its slot while it was read (_read, _pending, _device_timeout).
THEOREM IncidentIsOneEntry == Spec => []IncidentUntorn
<1>1. IInv => IncidentUntorn
  BY DEF IInv, Reporting, ReportingAt, IncidentUntorn
<1> QED BY <1>1, Invariance, PTL

\* Every call handed to watch_commit is queued or untracked, never both and
\* never neither (its refusals, its faults and the full table).
THEOREM EveryCallAccounted == Spec => []CommitAccounted
<1>1. ASSUME IInv PROVE CommitAccounted
  <2>1. DOMAIN log = 1..head
    BY <1>1 DEF IInv, QueueInv, QueueTyped, Logged
  <2> QED BY <1>1, <2>1 DEF IInv, Accounted, CommitAccounted
<1> QED BY <1>1, Invariance, PTL

\* Incidents follow the queue's order: forgetting the report of a finished
\* collective never lets it be reported again (Tracker.reported).
THEOREM IncidentsMoveOn == Spec => ReportedOnce
<1>1. IInv /\ [Next]_vars => [report' # report => report'.at > report.at]_vars
  BY NextReports
<1> QED BY <1>1, Invariance, PTL DEF Spec, ReportedOnce

\* The whole queue keeps CallLedger's promise: calls leave in their order and
\* finished, or are told untracked, and are stamped and reported as they should
\* (watch_commit, _retire_now, _poll_tracker, _drain, _fr_stamp and
\* _device_timeout, in every interleaving).
THEOREM QueueImplements == Spec => CallsKept
<1>1. Init => IInv /\ Ledger!Init
  BY InitIInv, InitRefined
<1>2. IInv /\ [Next]_vars => IInv' /\ [Ledger!Next]_(Ledger!vars)
  BY NextInductive, NextRefined
<1> QED BY <1>1, <1>2, PTL DEF Spec, CallsKept, Ledger!Spec
=============================================================================
