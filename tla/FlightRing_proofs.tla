--------------------------- MODULE FlightRing_proofs ---------------------------
(***************************************************************************)
(* Proofs about FlightRing, for every ring size and every set of stampers. *)
(***************************************************************************)
EXTENDS FlightRing, TLAPS

\* Every entry has a slot.
LEMMA SlotOfInSlots == ASSUME NEW e \in Nat \ {0} PROVE SlotOf(e) \in Slots
  BY FlightRingAssumption DEF SlotOf, Slots

LEMMA NoStampType == NoStamp \in Nat \X Writers
  BY DEF NoStamp, Writers

LEMMA EmptySlotType == EmptySlot \in SlotWords
  BY NoStampType DEF EmptySlot, SlotWords

\* What a writer's store does to the slots' type.
LEMMA MineType ==
  ASSUME TypeOK, NEW t \in Writers
  PROVE  SlotOf(rid[t]) \in Slots /\ Mine(t) \in SlotWords
  BY SlotOfInSlots DEF TypeOK, Mine

LEMMA VerType ==
  ASSUME TypeOK, NEW t \in Writers, SetMine(t, "ver", Mine(t).ver + 1)
  PROVE  ring' \in [Slots -> SlotWords]
<1>1. Mine(t).ver + 1 \in Nat
  BY MineType DEF SlotWords
<1> DEFINE v == Mine(t).ver + 1
<1> HIDE DEF v
<1>2. ring' = [ring EXCEPT ![SlotOf(rid[t])]["ver"] = v]
  BY DEF SetMine, v
<1> QED BY <1>1, <1>2, MineType DEF TypeOK, SlotWords, v

LEMMA WordType ==
  ASSUME TypeOK, NEW t \in Writers, NEW v,
         \/ SetMine(t, "id", v) /\ v \in Nat
         \/ SetMine(t, "body", v) /\ v \in Nat
         \/ SetMine(t, "mark", v) /\ v \in Nat
         \/ SetMine(t, "done", v) /\ v \in Nat \X Writers
  PROVE  ring' \in [Slots -> SlotWords]
<1>1. CASE SetMine(t, "id", v) /\ v \in Nat
  BY <1>1, MineType DEF TypeOK, SlotWords, SetMine
<1>2. CASE SetMine(t, "body", v) /\ v \in Nat
  BY <1>2, MineType DEF TypeOK, SlotWords, SetMine
<1>3. CASE SetMine(t, "mark", v) /\ v \in Nat
  BY <1>3, MineType DEF TypeOK, SlotWords, SetMine
<1>4. CASE SetMine(t, "done", v) /\ v \in Nat \X Writers
  BY <1>4, MineType DEF TypeOK, SlotWords, SetMine
<1> QED BY <1>1, <1>2, <1>3, <1>4

LEMMA TypeInit == Init => TypeOK
<1> SUFFICES ASSUME Init PROVE TypeOK
  OBVIOUS
<1>1. ring \in [Slots -> SlotWords]  BY EmptySlotType DEF Init
<1>2. pc \in [Writers -> WriterSteps] /\ rid \in [Writers -> Nat \ {0}]
  BY DEF Init, WriterSteps
<1>3. copy \in SlotWords /\ out \in Seq(SlotWords)  BY EmptySlotType DEF Init
<1> QED BY <1>1, <1>2, <1>3 DEF Init, TypeOK, ReaderSteps

LEMMA TypeStep == TypeOK /\ [Next]_vars => TypeOK'
<1> SUFFICES ASSUME TypeOK, [Next]_vars PROVE TypeOK'
  OBVIOUS
<1>1. ASSUME NEW t \in Writers, WriterStep(t) PROVE TypeOK'
  <2>1. CASE Lock(t)
    <3>1. ring' \in [Slots -> SlotWords]  BY <2>1, VerType DEF Lock
    <3> QED BY <2>1, <3>1
            DEF Lock, TypeOK, Step, OnlyWriter, readerVars, WriterSteps
  <2>2. CASE Unlock(t)
    <3>1. ring' \in [Slots -> SlotWords]  BY <2>2, VerType DEF Unlock
    <3> QED BY <2>2, <3>1 DEF Unlock, TypeOK, Step, readerVars, WriterSteps
  <2>3. CASE DoneTest(t)
    BY <2>3 DEF DoneTest, TypeOK, Step, OnlyWriter, readerVars, WriterSteps
  <2>4. CASE DoneTestDone(t)
    BY <2>4 DEF DoneTestDone, TypeOK, Step, OnlyWriter, readerVars, WriterSteps
  <2>5. CASE DoneStamp(t)
    <3>1. <<rid[t], t>> \in Nat \X Writers  BY DEF TypeOK
    <3>2. ring' \in [Slots -> SlotWords]
      BY <2>5, <3>1, WordType DEF DoneStamp
    <3> QED BY <2>5, <3>2
            DEF DoneStamp, TypeOK, Step, OnlyWriter, readerVars, WriterSteps
  <2> QED BY <1>1, <2>1, <2>2, <2>3, <2>4, <2>5 DEF WriterStep
<1>2. ASSUME NEW t \in Writers, NEW e \in Recorded,
             DoneStart(t, e) \/ DoneReused(t, e)
      PROVE  TypeOK'
  <2>1. e \in Nat \ {0}  BY DEF Recorded, TypeOK
  <2>2. CASE DoneStart(t, e)
    BY <2>1, <2>2 DEF DoneStart, TypeOK, Step, readerVars, WriterSteps
  <2>3. CASE DoneReused(t, e)
    BY <2>1, <2>3 DEF DoneReused, TypeOK, readerVars, writerVars
  <2> QED BY <1>2, <2>2, <2>3
<1>3. ASSUME ProducerStep PROVE TypeOK'
  <2>0. "prod" \in Writers /\ rid["prod"] \in Nat
    BY DEF Writers, TypeOK
  <2>1. CASE RecStart
    BY <2>1, <2>0 DEF RecStart, TypeOK, Step, readerVars, WriterSteps
  <2>2. CASE RecId \/ RecBody \/ RecDone \/ RecMark \/ MarkWrite
    <3>1. ring' \in [Slots -> SlotWords]
      BY <2>2, <2>0, WordType, NoStampType, 0 \in Nat
         DEF RecId, RecBody, RecDone, RecMark, MarkWrite
    <3> QED BY <2>2, <2>0, <3>1
            DEF RecId, RecBody, RecDone, RecMark, MarkWrite, TypeOK, Step,
                OnlyWriter, readerVars, WriterSteps
  <2>3. CASE RecPublish
    BY <2>3, <2>0 DEF RecPublish, TypeOK, Step, readerVars, WriterSteps
  <2>4. CASE MarkTest
    BY <2>4, <2>0 DEF MarkTest, TypeOK, Step, OnlyWriter, readerVars, WriterSteps
  <2>5. ASSUME NEW e \in Recorded, MarkStart(e) PROVE TypeOK'
    <3>1. e \in Nat \ {0}  BY DEF Recorded, TypeOK
    <3> QED BY <2>5, <2>0, <3>1
            DEF MarkStart, TypeOK, Step, readerVars, WriterSteps
  <2> QED BY <1>3, <2>1, <2>2, <2>3, <2>4, <2>5 DEF ProducerStep
<1>4. ASSUME ReaderStep PROVE TypeOK'
  <2>1. There \in SlotWords
    <3>1. cursor + 1 \in Nat \ {0}  BY DEF TypeOK
    <3> QED BY <3>1, SlotOfInSlots DEF There, TypeOK
  <2>2. CASE SnapStart
    <3>1. Oldest \in Nat  BY FlightRingAssumption DEF Oldest, TypeOK
    <3> QED BY <2>2, <3>1, EmptySlotType
            DEF SnapStart, TypeOK, Read, OnlyReader, writerVars, ReaderSteps
  <2>3. CASE SnapVer \/ SnapId \/ SnapBody \/ SnapMark \/ SnapDone
    <3>1. copy' \in SlotWords
      <4>1. CASE SnapVer
        BY <2>1, <4>1 DEF SnapVer, Copy, TypeOK, SlotWords
      <4>2. CASE SnapId \/ SnapBody
        BY <2>1, <4>2 DEF SnapId, SnapBody, Copy, TypeOK, SlotWords
      <4>3. CASE SnapMark \/ SnapDone
        BY <2>1, <4>3 DEF SnapMark, SnapDone, Copy, TypeOK, SlotWords
      <4> QED BY <2>3, <4>1, <4>2, <4>3
    <3>2. UNCHANGED <<ring, next, pc, rid, forked, calls, finished, cursor,
                      upto, out>>
      BY <2>3 DEF SnapVer, SnapId, SnapBody, SnapMark, SnapDone, Copy,
                  OnlyReader, writerVars
    <3>3. rpc' \in ReaderSteps
      BY <2>3 DEF SnapVer, SnapId, SnapBody, SnapMark, SnapDone, Read,
                  ReaderSteps
    <3> QED BY <3>1, <3>2, <3>3 DEF TypeOK
  <2>4. CASE SnapRetry \/ SnapEnd
    BY <2>4, EmptySlotType
       DEF SnapRetry, SnapEnd, TypeOK, Read, OnlyReader, writerVars, ReaderSteps
  <2>6. CASE SnapSkip
    <3>1. rpc' \in ReaderSteps  BY <2>6 DEF SnapSkip, Read, ReaderSteps
    <3> QED BY <2>6, <3>1, EmptySlotType
            DEF SnapSkip, TypeOK, OnlyReader, writerVars
  <2>5. CASE SnapKeep
    <3>1. out' \in Seq(SlotWords)
      BY <2>5 DEF SnapKeep, TypeOK
    <3> QED BY <2>5, <3>1, EmptySlotType
            DEF SnapKeep, TypeOK, Read, OnlyReader, writerVars, ReaderSteps
  <2> QED BY <1>4, <2>2, <2>3, <2>4, <2>5, <2>6 DEF ReaderStep
<1>5. CASE Fork
  <2>1. ASSUME NEW s \in Slots PROVE Released(ring[s]) \in SlotWords
    <3>1. ring[s] \in SlotWords  BY DEF TypeOK
    <3>2. ring[s].ver + 1 \in Nat  BY <3>1 DEF SlotWords
    <3> DEFINE v == ring[s].ver + 1
    <3> HIDE DEF v
    <3>3. [ring[s] EXCEPT !.ver = v] \in SlotWords
      BY <3>1, <3>2 DEF SlotWords, v
    <3> QED BY <3>1, <3>3 DEF Released, v
  <2>2. ring' \in [Slots -> SlotWords]
    BY <1>5, <2>1 DEF Fork
  <2> QED BY <1>5, <2>2, EmptySlotType
          DEF Fork, TypeOK, WriterSteps, ReaderSteps
<1>6. CASE UNCHANGED vars
  BY <1>6 DEF vars, writerVars, readerVars, TypeOK
<1> QED BY <1>1, <1>2, <1>3, <1>4, <1>5, <1>6 DEF Next

\* The type invariant holds of every behaviour.
THEOREM TypeCorrect == Spec => []TypeOK
  BY TypeInit, TypeStep, PTL DEF Spec

-----------------------------------------------------------------------------
(* The inductive invariant behind SlotsUnmixed, StampNotLost and            *)
(* SnapshotWhole.                                                           *)

\* Steps in which a writer holds its slot; steps in which the producer's slot
\* already carries the id being recorded; steps in which its words are not
\* yet those of that id.
HoldSteps == {"recId", "recBody", "recDone", "recMark", "recUnlock",
              "markTest", "markWrite", "markUnlock",
              "test", "testDone", "stamp", "unlock"}
NewIdSteps == {"recBody", "recDone", "recMark", "recUnlock", "recPublish"}
MixedSteps == {"recBody", "recDone", "recMark"}
RecSteps   == NewIdSteps \cup {"recLock", "recId"}
OldSteps   == {"markLock", "markTest", "markWrite", "markUnlock",
               "lock", "test", "testDone", "stamp", "unlock"}
StampSteps == {"idle", "lock", "test", "testDone", "stamp", "unlock", "gone"}

\* A held slot is locked, and held by one writer.
HeldOnce ==
  \A t \in Writers : pc[t] \in HoldSteps =>
    /\ Held(Mine(t))
    /\ \A u \in Writers : pc[u] \in HoldSteps /\ SlotOf(rid[u]) = SlotOf(rid[t])
                           => u = t

\* Writers work on recorded entries, the producer also on the next one.
Targets ==
  /\ pc["prod"] \in RecSteps => rid["prod"] = next + 1
  /\ \A t \in Writers : pc[t] \in OldSteps => rid[t] <= next
  /\ \A t \in Stampers : pc[t] \in StampSteps
  /\ finished \subseteq 1..next

\* The child of a fork lost every writer.
Gone == \A t \in Writers : (pc[t] = "gone") <=> (forked = TRUE)

\* What a writer learned under the lock still holds.
LearnedBy(t) ==
  /\ pc[t] \in NewIdSteps => Mine(t).id = next + 1
  /\ pc[t] \in {"recDone", "recMark"} => Mine(t).body = next + 1
  /\ pc[t] = "recMark" => Mine(t).done = NoStamp
  /\ pc[t] \in {"markWrite", "testDone", "stamp"} => Mine(t).id = rid[t]
  /\ pc[t] = "stamp" => Mine(t).done = NoStamp
  /\ pc[t] = "unlock" /\ Mine(t).id = rid[t] => Mine(t).done[1] = rid[t]
Learned == \A t \in Writers : LearnedBy(t)

\* Only the slot of the entry being recorded, or one a fork caught in that
\* state, has the next id; only while its words are replaced is it mixed.
BeingRecorded(s) ==
  forked \/ (pc["prod"] \in NewIdSteps /\ s = SlotOf(next + 1))
Content ==
  \A s \in Slots :
    /\ ring[s].id <= next \/ (ring[s].id = next + 1 /\ BeingRecorded(s))
    /\ \/ Unmixed(ring[s])
       \/ /\ ring[s].id = next + 1
          /\ forked \/ (pc["prod"] \in MixedSteps /\ s = SlotOf(next + 1))
    /\ ring[s].done[1] = 0 => ring[s].done = NoStamp
    /\ ring[s].done[1] <= next

\* While the version the dump read still stands, its copy is the slot.
CopySteps == {"id", "body", "mark", "done", "recheck"}
Copied ==
  /\ upto <= next
  /\ rpc \in CopySteps =>
       /\ ~Held(copy) /\ copy.ver <= There.ver /\ cursor < upto
       /\ There.ver = copy.ver =>
            /\ rpc # "id" => copy.id = There.id
            /\ rpc \in {"mark", "done", "recheck"} => copy.body = There.body
            /\ rpc \in {"done", "recheck"} => copy.mark = There.mark
            /\ rpc = "recheck" => copy.done = There.done

IInv == /\ TypeOK /\ HeldOnce /\ Targets /\ Gone /\ Learned /\ Content
        /\ StampNotLost /\ Copied /\ SnapshotWhole

LEMMA Parity ==
  ASSUME NEW n \in Nat
  PROVE  /\ n % 2 = 1 => (n + 1) % 2 # 1
         /\ n % 2 # 1 => (n + 1) % 2 = 1
  OBVIOUS

\* A store to one word of a writer's slot, as seen from every slot.
LEMMA StoreVer ==
  ASSUME TypeOK, NEW t \in Writers, NEW v \in Nat, SetMine(t, "ver", v)
  PROVE  /\ \A s \in Slots : s # SlotOf(rid[t]) => ring'[s] = ring[s]
         /\ \A s \in Slots : /\ ring'[s].id = ring[s].id
                            /\ ring'[s].body = ring[s].body
                            /\ ring'[s].done = ring[s].done
                            /\ ring'[s].mark = ring[s].mark
         /\ ring'[SlotOf(rid[t])].ver = v
  BY MineType DEF SetMine, Mine, TypeOK, SlotWords

LEMMA StoreId ==
  ASSUME TypeOK, NEW t \in Writers, NEW v \in Nat, SetMine(t, "id", v)
  PROVE  /\ \A s \in Slots : s # SlotOf(rid[t]) => ring'[s] = ring[s]
         /\ \A s \in Slots : /\ ring'[s].ver = ring[s].ver
                            /\ ring'[s].body = ring[s].body
                            /\ ring'[s].done = ring[s].done
                            /\ ring'[s].mark = ring[s].mark
         /\ ring'[SlotOf(rid[t])].id = v
  BY MineType DEF SetMine, Mine, TypeOK, SlotWords

LEMMA StoreBody ==
  ASSUME TypeOK, NEW t \in Writers, NEW v \in Nat, SetMine(t, "body", v)
  PROVE  /\ \A s \in Slots : s # SlotOf(rid[t]) => ring'[s] = ring[s]
         /\ \A s \in Slots : /\ ring'[s].ver = ring[s].ver
                            /\ ring'[s].id = ring[s].id
                            /\ ring'[s].done = ring[s].done
                            /\ ring'[s].mark = ring[s].mark
         /\ ring'[SlotOf(rid[t])].body = v
  BY MineType DEF SetMine, Mine, TypeOK, SlotWords

LEMMA StoreDone ==
  ASSUME TypeOK, NEW t \in Writers, NEW v \in Nat \X Writers, SetMine(t, "done", v)
  PROVE  /\ \A s \in Slots : s # SlotOf(rid[t]) => ring'[s] = ring[s]
         /\ \A s \in Slots : /\ ring'[s].ver = ring[s].ver
                            /\ ring'[s].id = ring[s].id
                            /\ ring'[s].body = ring[s].body
                            /\ ring'[s].mark = ring[s].mark
         /\ ring'[SlotOf(rid[t])].done = v
  BY MineType DEF SetMine, Mine, TypeOK, SlotWords

LEMMA StoreMark ==
  ASSUME TypeOK, NEW t \in Writers, NEW v \in Nat, SetMine(t, "mark", v)
  PROVE  /\ \A s \in Slots : s # SlotOf(rid[t]) => ring'[s] = ring[s]
         /\ \A s \in Slots : /\ ring'[s].ver = ring[s].ver
                            /\ ring'[s].id = ring[s].id
                            /\ ring'[s].body = ring[s].body
                            /\ ring'[s].done = ring[s].done
         /\ ring'[SlotOf(rid[t])].mark = v
  BY MineType DEF SetMine, Mine, TypeOK, SlotWords

\* The mutual exclusion of writers survives a lock, an unlock, and any step
\* that leaves the versions alone and takes no slot.
LEMMA HeldOnceLock ==
  ASSUME IInv, NEW t \in Writers, Lock(t)
  PROVE  HeldOnce'
<1>1. rid' = rid /\ SlotOf(rid[t]) \in Slots
  BY MineType DEF IInv, Lock, OnlyWriter
<1>2. Mine(t).ver \in Nat /\ Mine(t).ver + 1 \in Nat
  BY MineType DEF IInv, SlotWords
<1>3. /\ \A s \in Slots : s # SlotOf(rid[t]) => ring'[s] = ring[s]
      /\ ring'[SlotOf(rid[t])].ver = Mine(t).ver + 1
  BY <1>2, StoreVer DEF IInv, Lock
<1>4. Held(ring'[SlotOf(rid[t])])
  BY <1>2, <1>3, Parity DEF Lock, Held
<1>5. pc' = [pc EXCEPT ![t] = pc'[t]] /\ pc \in [Writers -> WriterSteps]
  BY DEF Lock, Step, IInv, TypeOK
<1>6. \A u \in Writers : u # t /\ pc[u] \in HoldSteps => SlotOf(rid[u]) # SlotOf(rid[t])
  BY DEF IInv, HeldOnce, Lock, Mine
<1>7. ASSUME NEW u \in Writers, u # t PROVE pc'[u] = pc[u]
  BY <1>5, <1>7
<1>8. ASSUME NEW u \in Writers, pc'[u] \in HoldSteps PROVE Held(Mine(u)')
  <2>1. CASE u = t  BY <2>1, <1>1, <1>4 DEF Mine
  <2>2. CASE u # t
    BY <2>2, <1>1, <1>3, <1>6, <1>7, <1>8, MineType DEF IInv, HeldOnce, Mine
  <2> QED BY <2>1, <2>2
<1> QED BY <1>1, <1>6, <1>7, <1>8 DEF HeldOnce, IInv

\* ... any other step: no slot is taken, and held ones keep their versions.
LEMMA HeldOnceKeep ==
  ASSUME IInv,
         \A u \in Writers : pc'[u] \in HoldSteps =>
           /\ pc[u] \in HoldSteps /\ rid'[u] = rid[u]
           /\ ring'[SlotOf(rid[u])].ver = ring[SlotOf(rid[u])].ver
  PROVE  HeldOnce'
  BY DEF IInv, HeldOnce, Mine, Held

LEMMA HeldOnceUnlock ==
  ASSUME IInv, NEW t \in Writers, Unlock(t)
  PROVE  HeldOnce'
<1>1. rid' = rid /\ pc[t] \in HoldSteps /\ pc'[t] \notin HoldSteps
  BY DEF Unlock, Step, IInv, TypeOK, HoldSteps
<1>2. \A u \in Writers : u # t => pc'[u] = pc[u]
  BY DEF Unlock, Step, IInv, TypeOK
<1>3. \A s \in Slots : s # SlotOf(rid[t]) => ring'[s] = ring[s]
  <2>1. Mine(t).ver + 1 \in Nat  BY MineType DEF IInv, SlotWords
  <2> QED BY <2>1, StoreVer DEF IInv, Unlock
<1>4. \A u \in Writers : SlotOf(rid[u]) \in Slots
  BY MineType DEF IInv
<1>5. \A u \in Writers : u # t /\ pc[u] \in HoldSteps => SlotOf(rid[u]) # SlotOf(rid[t])
  BY <1>1 DEF IInv, HeldOnce
<1> QED BY <1>1, <1>2, <1>3, <1>4, <1>5, HeldOnceKeep

\* The steps that store a word under the lock.
WordStore(t) ==
  \/ t = "prod" /\ (RecId \/ RecBody \/ RecDone \/ RecMark \/ MarkWrite)
  \/ DoneStamp(t)

LEMMA WordStoreFacts ==
  ASSUME IInv, NEW t \in Writers, WordStore(t)
  PROVE  /\ pc[t] \in HoldSteps /\ pc'[t] \in HoldSteps
         /\ \A u \in Writers : u # t => pc'[u] = pc[u]
         /\ UNCHANGED <<next, rid, readerVars, forked, calls, finished>>
         /\ \A s \in Slots : ring'[s].ver = ring[s].ver
         /\ \A s \in Slots : s # SlotOf(rid[t]) => ring'[s] = ring[s]
         /\ \A u \in Writers : u # t /\ pc[u] \in HoldSteps
                              => SlotOf(rid[u]) # SlotOf(rid[t])
         /\ Held(Mine(t))
<1>1. pc[t] \in HoldSteps /\ pc'[t] \in HoldSteps
  BY DEF WordStore, RecId, RecBody, RecDone, RecMark, MarkWrite, DoneStamp,
         Step, IInv, TypeOK, HoldSteps
<1>2. /\ \A u \in Writers : u # t => pc'[u] = pc[u]
      /\ UNCHANGED <<next, rid, readerVars, forked, calls, finished>>
  BY DEF WordStore, RecId, RecBody, RecDone, RecMark, MarkWrite, DoneStamp,
         Step, IInv, TypeOK, OnlyWriter
<1>3. /\ \A s \in Slots : ring'[s].ver = ring[s].ver
      /\ \A s \in Slots : s # SlotOf(rid[t]) => ring'[s] = ring[s]
  <2>1. rid[t] \in Nat /\ <<rid[t], t>> \in Nat \X Writers  BY DEF IInv, TypeOK
  <2>2. CASE t = "prod" /\ RecId
    BY <2>1, <2>2, StoreId DEF IInv, RecId
  <2>3. CASE t = "prod" /\ RecBody
    BY <2>1, <2>3, StoreBody DEF IInv, RecBody
  <2>4. CASE t = "prod" /\ RecDone
    BY <2>4, StoreDone, NoStampType DEF IInv, RecDone
  <2>5. CASE t = "prod" /\ RecMark
    BY <2>5, StoreMark, 0 \in Nat DEF IInv, RecMark
  <2>6. CASE t = "prod" /\ MarkWrite
    BY <2>1, <2>6, StoreMark DEF IInv, MarkWrite
  <2>7. CASE DoneStamp(t)
    BY <2>1, <2>7, StoreDone DEF IInv, DoneStamp
  <2> QED BY <2>2, <2>3, <2>4, <2>5, <2>6, <2>7 DEF WordStore
<1>4. /\ \A u \in Writers : u # t /\ pc[u] \in HoldSteps
                           => SlotOf(rid[u]) # SlotOf(rid[t])
      /\ Held(Mine(t))
  BY <1>1 DEF IInv, HeldOnce
<1> QED BY <1>1, <1>2, <1>3, <1>4

\* The steps of a writer that only read, and take no slot.
QuietStep(t) ==
  \/ t = "prod" /\ (RecStart \/ RecPublish \/ MarkTest \/ \E e \in Recorded : MarkStart(e))
  \/ DoneTest(t) \/ DoneTestDone(t)
  \/ \E e \in Recorded : DoneStart(t, e) \/ DoneReused(t, e)

\* Every step is one of these.
LEMMA StepKinds ==
  ASSUME [Next]_vars
  PROVE  \/ \E t \in Writers : Lock(t) \/ Unlock(t) \/ WordStore(t) \/ QuietStep(t)
         \/ ReaderStep \/ Fork \/ UNCHANGED vars
<1>1. "prod" \in Writers  BY DEF Writers
<1>2. CASE \E t \in Writers : WriterStep(t)
  BY <1>2 DEF WriterStep, WordStore, QuietStep
<1>3. CASE \E t \in Writers, e \in Recorded : DoneStart(t, e) \/ DoneReused(t, e)
  BY <1>3 DEF QuietStep
<1>4. CASE ProducerStep
  BY <1>1, <1>4 DEF ProducerStep, WordStore, QuietStep
<1> QED BY <1>2, <1>3, <1>4 DEF Next

LEMMA HeldOnceStep == ASSUME IInv, [Next]_vars PROVE HeldOnce'
<1>1. ASSUME NEW t \in Writers, WordStore(t) PROVE HeldOnce'
  BY <1>1, WordStoreFacts, MineType, HeldOnceKeep DEF IInv
<1>2. ASSUME NEW t \in Writers, QuietStep(t) PROVE HeldOnce'
  <2>1. ring' = ring
    BY <1>2 DEF QuietStep, RecStart, RecPublish, MarkTest, MarkStart, DoneTest,
                DoneTestDone, DoneStart, DoneReused
  <2>2. \A u \in Writers : u # t => pc'[u] = pc[u] /\ rid'[u] = rid[u]
    BY <1>2 DEF QuietStep, RecStart, RecPublish, MarkTest, MarkStart, DoneTest,
                DoneTestDone, DoneStart, DoneReused, Step, OnlyWriter,
                writerVars, IInv, TypeOK
  <2>3. pc'[t] \in HoldSteps => pc[t] \in HoldSteps /\ rid'[t] = rid[t]
    BY <1>2 DEF QuietStep, RecStart, RecPublish, MarkTest, MarkStart, DoneTest,
                DoneTestDone, DoneStart, DoneReused, Step, OnlyWriter,
                writerVars, IInv, TypeOK, HoldSteps
  <2> QED BY <2>1, <2>2, <2>3, HeldOnceKeep
<1>3. CASE ReaderStep \/ UNCHANGED vars
  <2>1. UNCHANGED <<ring, pc, rid>>
    BY <1>3 DEF ReaderStep, SnapStart, SnapVer, SnapId, SnapBody, SnapMark,
                SnapDone, SnapRetry, SnapSkip, SnapKeep, SnapEnd, OnlyReader,
                writerVars, vars
  <2> QED BY <2>1, HeldOnceKeep
<1>4. CASE Fork
  BY <1>4, HeldOnceKeep DEF Fork, HoldSteps
<1> QED BY <1>1, <1>2, <1>3, <1>4, StepKinds, HeldOnceLock, HeldOnceUnlock

\* Who works on what: a writer's own step, and the steps that leave the
\* writers alone.
LEMMA TargetsStep == ASSUME IInv, [Next]_vars PROVE Targets'
<1> USE DEF RecSteps, NewIdSteps, OldSteps, StampSteps
<1>0. /\ TypeOK /\ Targets /\ "prod" \in Writers /\ "prod" \notin Stampers
      /\ \A t \in Writers : t \in Stampers \/ t = "prod"
      /\ \A t \in Stampers : t \in Writers
  BY FlightRingAssumption DEF IInv, Writers
<1>1. ASSUME NEW t \in Writers, Lock(t) \/ WordStore(t) PROVE Targets'
  <2>1. /\ UNCHANGED <<next, rid, finished>>
        /\ \A u \in Writers : u # t => pc'[u] = pc[u]
    BY <1>1, WordStoreFacts DEF Lock, OnlyWriter, Step, IInv, TypeOK
  <2>2. CASE Lock(t)
    <3>1. \/ pc[t] = "recLock" /\ pc'[t] = "recId"
          \/ pc[t] = "markLock" /\ pc'[t] = "markTest"
          \/ pc[t] = "lock" /\ pc'[t] = "test"
      BY <2>2 DEF Lock, Step, IInv, TypeOK
    <3> QED BY <1>0, <2>1, <3>1 DEF Targets
  <2>3. CASE DoneStamp(t)
    <3>1. pc[t] = "stamp" /\ pc'[t] = "unlock"
      BY <2>3 DEF DoneStamp, Step, IInv, TypeOK
    <3> QED BY <1>0, <2>1, <3>1 DEF Targets
  <2>4. CASE t = "prod" /\ (RecId \/ RecBody \/ RecDone \/ RecMark \/ MarkWrite)
    <3>1. \/ pc[t] = "recId" /\ pc'[t] = "recBody"
          \/ pc[t] = "recBody" /\ pc'[t] = "recDone"
          \/ pc[t] = "recDone" /\ pc'[t] = "recMark"
          \/ pc[t] = "recMark" /\ pc'[t] = "recUnlock"
          \/ pc[t] = "markWrite" /\ pc'[t] = "markUnlock"
      BY <2>4 DEF RecId, RecBody, RecDone, RecMark, MarkWrite, Step, IInv, TypeOK
    <3> QED BY <1>0, <2>1, <2>4, <3>1 DEF Targets
  <2> QED BY <1>1, <2>2, <2>3, <2>4 DEF WordStore
<1>2. ASSUME NEW t \in Writers, Unlock(t) PROVE Targets'
  <2>1. /\ UNCHANGED <<next, rid>>
        /\ \A u \in Writers : u # t => pc'[u] = pc[u]
    BY <1>2 DEF Unlock, Step, IInv, TypeOK
  <2>2. \/ pc[t] = "recUnlock" /\ pc'[t] = "recPublish" /\ finished' = finished
        \/ pc[t] = "markUnlock" /\ pc'[t] = "idle" /\ finished' = finished
        \/ pc[t] = "unlock" /\ pc'[t] = "idle" /\ finished' = finished \cup {rid[t]}
    BY <1>2 DEF Unlock, Step, IInv, TypeOK
  <2>3. pc[t] = "unlock" => rid[t] \in 1..next
    BY <1>0 DEF Targets, TypeOK
  <2>4. finished \subseteq 1..next  BY <1>0 DEF Targets
  <2>5. finished' \subseteq 1..next'  BY <2>1, <2>2, <2>3, <2>4
  <2> QED BY <1>0, <2>1, <2>2, <2>5 DEF Targets
<1>3. ASSUME NEW t \in Writers, QuietStep(t) PROVE Targets'
  <2>1. \A u \in Writers : u # t => pc'[u] = pc[u] /\ rid'[u] = rid[u]
    BY <1>3 DEF QuietStep, RecStart, RecPublish, MarkTest, MarkStart, DoneTest,
                DoneTestDone, DoneStart, DoneReused, Step, OnlyWriter,
                writerVars, IInv, TypeOK
  <2>2. CASE t = "prod" /\ RecStart
    <3>1. /\ pc[t] = "idle" /\ pc'[t] = "recLock" /\ rid'[t] = next + 1
          /\ UNCHANGED <<next, finished>>
      BY <2>2 DEF RecStart, Step, IInv, TypeOK
    <3> QED BY <1>0, <2>1, <2>2, <3>1 DEF Targets
  <2>3. CASE t = "prod" /\ RecPublish
    <3>1. /\ pc[t] = "recPublish" /\ pc'[t] = "idle" /\ next' = next + 1
          /\ UNCHANGED <<rid, finished>>
      BY <2>3 DEF RecPublish, Step, IInv, TypeOK
    <3>2. finished' \subseteq 1..next'  BY <1>0, <3>1 DEF Targets, TypeOK
    <3>3. \A u \in Writers : rid[u] <= next => rid'[u] <= next'
      BY <1>0, <3>1 DEF TypeOK
    <3> QED BY <1>0, <2>1, <2>3, <3>1, <3>2, <3>3 DEF Targets
  <2>4. CASE t = "prod" /\ MarkTest
    <3>1. /\ pc[t] = "markTest" /\ pc'[t] \in {"markWrite", "markUnlock"}
          /\ UNCHANGED <<next, rid, finished>>
      BY <2>4 DEF MarkTest, OnlyWriter, Step, IInv, TypeOK
    <3> QED BY <1>0, <2>1, <2>4, <3>1 DEF Targets
  <2>5. ASSUME NEW e \in Recorded, t = "prod" /\ MarkStart(e) PROVE Targets'
    <3>1. /\ pc[t] = "idle" /\ pc'[t] = "markLock" /\ rid'[t] = e /\ e <= next
          /\ UNCHANGED <<next, finished>>
      BY <2>5 DEF MarkStart, Recorded, Step, IInv, TypeOK
    <3> QED BY <1>0, <2>1, <2>5, <3>1 DEF Targets
  <2>6. CASE DoneTest(t) \/ DoneTestDone(t)
    <3>1. /\ pc[t] \in {"test", "testDone"} /\ pc'[t] \in {"testDone", "stamp", "unlock"}
          /\ UNCHANGED <<next, rid, finished>>
      BY <2>6 DEF DoneTest, DoneTestDone, OnlyWriter, Step, IInv, TypeOK
    <3> QED BY <1>0, <2>1, <3>1 DEF Targets
  <2>7. ASSUME NEW e \in Recorded, DoneStart(t, e) PROVE Targets'
    <3>1. /\ pc[t] = "idle" /\ pc'[t] = "lock" /\ rid'[t] = e /\ e <= next
          /\ UNCHANGED <<next, finished>>
      BY <2>7 DEF DoneStart, Recorded, Step, IInv, TypeOK
    <3> QED BY <1>0, <2>1, <3>1 DEF Targets
  <2>8. ASSUME NEW e \in Recorded, DoneReused(t, e) PROVE Targets'
    <3>1. UNCHANGED <<next, pc, rid>> /\ finished' \subseteq 1..next'
      BY <1>0, <2>8 DEF DoneReused, Recorded, writerVars, Targets
    <3> QED BY <1>0, <3>1 DEF Targets
  <2> QED BY <1>3, <2>2, <2>3, <2>4, <2>5, <2>6, <2>7, <2>8 DEF QuietStep
<1>4. CASE ReaderStep \/ UNCHANGED vars
  <2>1. UNCHANGED <<next, pc, rid, finished>>
    BY <1>4 DEF ReaderStep, SnapStart, SnapVer, SnapId, SnapBody, SnapMark,
                SnapDone, SnapRetry, SnapSkip, SnapKeep, SnapEnd, OnlyReader,
                writerVars, vars
  <2> QED BY <1>0, <2>1 DEF Targets
<1>5. CASE Fork
  <2>1. /\ UNCHANGED <<next, rid, finished>>
        /\ \A t \in Writers : pc'[t] = "gone"
    BY <1>5 DEF Fork
  <2> QED BY <1>0, <2>1 DEF Targets
<1> QED BY <1>1, <1>2, <1>3, <1>4, <1>5, StepKinds

\* Two slots that differ in their versions at most.
SameWords(a, b) == a.id = b.id /\ a.body = b.body /\ a.done = b.done /\ a.mark = b.mark

LEMMA VerStoreFacts ==
  ASSUME IInv, NEW t \in Writers, Lock(t) \/ Unlock(t)
  PROVE  /\ \A u \in Writers : u # t => pc'[u] = pc[u]
         /\ UNCHANGED <<next, rid, readerVars, forked, calls>>
         /\ \A s \in Slots : SameWords(ring'[s], ring[s])
         /\ \A s \in Slots : \/ ring'[s].ver = ring[s].ver
                            \/ ring'[s].ver = ring[s].ver + 1
<1>1. /\ \A u \in Writers : u # t => pc'[u] = pc[u]
      /\ UNCHANGED <<next, rid, readerVars, forked, calls>>
  BY DEF Lock, Unlock, Step, OnlyWriter, IInv, TypeOK
<1>2. SetMine(t, "ver", Mine(t).ver + 1) /\ Mine(t).ver + 1 \in Nat /\ TypeOK
  BY MineType DEF Lock, Unlock, IInv, SlotWords
<1>3. /\ \A s \in Slots : s # SlotOf(rid[t]) => ring'[s] = ring[s]
      /\ \A s \in Slots : /\ ring'[s].id = ring[s].id
                         /\ ring'[s].body = ring[s].body
                         /\ ring'[s].done = ring[s].done
                         /\ ring'[s].mark = ring[s].mark
      /\ ring'[SlotOf(rid[t])].ver = Mine(t).ver + 1
  BY <1>2, StoreVer
<1> QED BY <1>1, <1>3 DEF SameWords, Mine

\* How the program counters move.
LEMMA VerStoreMoves ==
  ASSUME IInv, NEW t \in Writers, Lock(t) \/ Unlock(t)
  PROVE  \/ pc[t] = "recLock" /\ pc'[t] = "recId" /\ finished' = finished
         \/ pc[t] = "markLock" /\ pc'[t] = "markTest" /\ finished' = finished
         \/ pc[t] = "lock" /\ pc'[t] = "test" /\ finished' = finished
         \/ pc[t] = "recUnlock" /\ pc'[t] = "recPublish" /\ finished' = finished
         \/ pc[t] = "markUnlock" /\ pc'[t] = "idle" /\ finished' = finished
         \/ /\ pc[t] = "unlock" /\ pc'[t] = "idle"
            /\ finished' = finished \cup {rid[t]}
<1>1. CASE Lock(t)   BY <1>1 DEF Lock, Step, OnlyWriter, IInv, TypeOK
<1>2. CASE Unlock(t) BY <1>2 DEF Unlock, Step, IInv, TypeOK
<1> QED BY <1>1, <1>2

LEMMA QuietFacts ==
  ASSUME IInv, NEW t \in Writers, QuietStep(t)
  PROVE  /\ UNCHANGED <<ring, readerVars, forked>>
         /\ \A u \in Writers : u # t => pc'[u] = pc[u] /\ rid'[u] = rid[u]
<1>1. UNCHANGED <<ring, readerVars, forked>>
  BY DEF QuietStep, RecStart, RecPublish, MarkTest, MarkStart, DoneTest,
         DoneTestDone, DoneStart, DoneReused, OnlyWriter
<1>2. \A u \in Writers : u # t => pc'[u] = pc[u] /\ rid'[u] = rid[u]
  BY DEF QuietStep, RecStart, RecPublish, MarkTest, MarkStart, DoneTest,
         DoneTestDone, DoneStart, DoneReused, Step, OnlyWriter, writerVars,
         IInv, TypeOK
<1> QED BY <1>1, <1>2

LEMMA QuietMoves ==
  ASSUME IInv, NEW t \in Writers, QuietStep(t)
  PROVE  \/ /\ t = "prod" /\ pc[t] = "idle" /\ pc'[t] = "recLock"
            /\ next' = next /\ finished' = finished
         \/ /\ t = "prod" /\ pc[t] = "recPublish" /\ pc'[t] = "idle"
            /\ next' = next + 1 /\ finished' = finished
         \/ /\ pc[t] = "markTest" /\ pc'[t] = "markWrite" /\ Mine(t).id = rid[t]
            /\ rid'[t] = rid[t] /\ next' = next /\ finished' = finished
         \/ /\ pc[t] = "markTest" /\ pc'[t] = "markUnlock"
            /\ next' = next /\ finished' = finished
         \/ /\ pc[t] = "idle" /\ pc'[t] \in {"markLock", "lock"}
            /\ next' = next /\ finished' = finished
         \/ /\ pc[t] = "test" /\ pc'[t] = "testDone" /\ Mine(t).id = rid[t]
            /\ rid'[t] = rid[t] /\ next' = next /\ finished' = finished
         \/ /\ pc[t] = "test" /\ pc'[t] = "unlock" /\ Mine(t).id # rid[t]
            /\ rid'[t] = rid[t] /\ next' = next /\ finished' = finished
         \/ /\ pc[t] = "testDone" /\ pc'[t] = "stamp" /\ Mine(t).done = NoStamp
            /\ rid'[t] = rid[t] /\ next' = next /\ finished' = finished
         \/ /\ pc[t] = "testDone" /\ pc'[t] = "unlock" /\ Mine(t).done # NoStamp
            /\ rid'[t] = rid[t] /\ next' = next /\ finished' = finished
         \/ /\ pc[t] = "idle" /\ pc'[t] = "idle" /\ next' = next
            /\ \E e \in Recorded : /\ finished' = finished \cup {e}
                                   /\ ring[SlotOf(e)].id # e
<1> USE DEF IInv, TypeOK, Step
<1>1. CASE t = "prod" /\ (RecStart \/ RecPublish)
  BY <1>1 DEF RecStart, RecPublish
<1>2. CASE t = "prod" /\ MarkTest
  BY <1>2 DEF MarkTest, OnlyWriter
<1>3. ASSUME NEW e \in Recorded, t = "prod" /\ MarkStart(e)
      PROVE  /\ pc[t] = "idle" /\ pc'[t] \in {"markLock", "lock"}
             /\ next' = next /\ finished' = finished
  BY <1>3 DEF MarkStart
<1>4. CASE DoneTest(t)
  BY <1>4 DEF DoneTest, OnlyWriter
<1>5. CASE DoneTestDone(t)
  BY <1>5 DEF DoneTestDone, OnlyWriter
<1>6. ASSUME NEW e \in Recorded, DoneStart(t, e)
      PROVE  /\ pc[t] = "idle" /\ pc'[t] \in {"markLock", "lock"}
             /\ next' = next /\ finished' = finished
  BY <1>6 DEF DoneStart
<1>7. ASSUME NEW e \in Recorded, DoneReused(t, e)
      PROVE  /\ pc[t] = "idle" /\ pc'[t] = "idle" /\ next' = next
             /\ finished' = finished \cup {e} /\ ring[SlotOf(e)].id # e
  BY <1>7 DEF DoneReused, writerVars
<1> QED BY <1>1, <1>2, <1>3, <1>4, <1>5, <1>6, <1>7 DEF QuietStep

\* What each store under the lock does.
LEMMA WordStoreMoves ==
  ASSUME IInv, NEW t \in Writers, WordStore(t)
  PROVE  LET o == ring[SlotOf(rid[t])]
             n == ring'[SlotOf(rid[t])]
         IN \/ /\ t = "prod" /\ pc[t] = "recId" /\ pc'[t] = "recBody"
               /\ n.id = rid[t] /\ n.body = o.body /\ n.done = o.done /\ n.mark = o.mark
            \/ /\ t = "prod" /\ pc[t] = "recBody" /\ pc'[t] = "recDone"
               /\ n.id = o.id /\ n.body = rid[t] /\ n.done = o.done /\ n.mark = o.mark
            \/ /\ t = "prod" /\ pc[t] = "recDone" /\ pc'[t] = "recMark"
               /\ n.id = o.id /\ n.body = o.body /\ n.done = NoStamp /\ n.mark = o.mark
            \/ /\ t = "prod" /\ pc[t] = "recMark" /\ pc'[t] = "recUnlock"
               /\ n.id = o.id /\ n.body = o.body /\ n.done = o.done /\ n.mark = 0
            \/ /\ t = "prod" /\ pc[t] = "markWrite" /\ pc'[t] = "markUnlock"
               /\ n.id = o.id /\ n.body = o.body /\ n.done = o.done /\ n.mark = rid[t]
            \/ /\ pc[t] = "stamp" /\ pc'[t] = "unlock"
               /\ n.id = o.id /\ n.body = o.body /\ n.done = <<rid[t], t>> /\ n.mark = o.mark
<1>1. /\ rid[t] \in Nat /\ <<rid[t], t>> \in Nat \X Writers
      /\ SlotOf(rid[t]) \in Slots /\ TypeOK
  BY MineType DEF IInv, TypeOK
<1>2. CASE t = "prod" /\ RecId
  BY <1>1, <1>2, StoreId DEF RecId, Step, TypeOK
<1>3. CASE t = "prod" /\ RecBody
  BY <1>1, <1>3, StoreBody DEF RecBody, Step, TypeOK
<1>4. CASE t = "prod" /\ RecDone
  BY <1>1, <1>4, StoreDone, NoStampType DEF RecDone, Step, TypeOK
<1>5. CASE t = "prod" /\ RecMark
  BY <1>1, <1>5, StoreMark, 0 \in Nat DEF RecMark, Step, TypeOK
<1>6. CASE t = "prod" /\ MarkWrite
  BY <1>1, <1>6, StoreMark DEF MarkWrite, Step, TypeOK
<1>7. CASE DoneStamp(t)
  BY <1>1, <1>7, StoreDone DEF DoneStamp, Step, TypeOK
<1> QED BY <1>2, <1>3, <1>4, <1>5, <1>6, <1>7 DEF WordStore

LEMMA ReaderFacts ==
  ASSUME ReaderStep \/ UNCHANGED vars
  PROVE  UNCHANGED <<ring, next, pc, rid, forked, calls, finished>>
  BY DEF ReaderStep, SnapStart, SnapVer, SnapId, SnapBody, SnapMark,
         SnapDone, SnapRetry, SnapSkip, SnapKeep, SnapEnd, OnlyReader,
         writerVars, vars

LEMMA ForkFacts ==
  ASSUME IInv, Fork
  PROVE  /\ UNCHANGED <<next, rid, finished>> /\ forked' = TRUE
         /\ \A u \in Writers : pc'[u] = "gone"
         /\ \A s \in Slots : SameWords(ring'[s], ring[s])
<1>1. /\ UNCHANGED <<next, rid, finished>> /\ forked' = TRUE
      /\ \A u \in Writers : pc'[u] = "gone"
  BY DEF Fork
<1>2. ASSUME NEW s \in Slots PROVE SameWords(ring'[s], ring[s])
  <2>1. ring[s] \in SlotWords  BY DEF IInv, TypeOK
  <2>2. ring'[s] = Released(ring[s])  BY DEF Fork
  <2> QED BY <2>1, <2>2 DEF Released, SameWords, SlotWords
<1> QED BY <1>1, <1>2

LEMMA GoneStep == ASSUME IInv, [Next]_vars PROVE Gone'
<1>1. ASSUME NEW t \in Writers, Lock(t) \/ Unlock(t) PROVE Gone'
  <2>1. pc[t] # "gone" /\ pc'[t] # "gone"  BY <1>1, VerStoreMoves
  <2> QED BY <1>1, <2>1, VerStoreFacts, Zenon DEF IInv, Gone
<1>2. ASSUME NEW t \in Writers, WordStore(t) PROVE Gone'
  <2>1. pc[t] # "gone" /\ pc'[t] # "gone"  BY <1>2, WordStoreMoves
  <2> QED BY <1>2, <2>1, WordStoreFacts, Zenon DEF IInv, Gone
<1>3. ASSUME NEW t \in Writers, QuietStep(t) PROVE Gone'
  <2>1. pc[t] # "gone" /\ pc'[t] # "gone"  BY <1>3, QuietMoves
  <2> QED BY <1>3, <2>1, QuietFacts, Zenon DEF IInv, Gone
<1>4. CASE ReaderStep \/ UNCHANGED vars
  BY <1>4, ReaderFacts, Zenon DEF IInv, Gone
<1>5. CASE Fork
  BY <1>5, ForkFacts DEF Gone
<1> QED BY <1>1, <1>2, <1>3, <1>4, <1>5, StepKinds

\* A step that leaves a writer, the words it looks at and H_NEXT alone.
LEMMA LearnedKeep ==
  ASSUME NEW u \in Writers, LearnedBy(u), pc'[u] = pc[u], rid'[u] = rid[u],
         next' = next,
         SameWords(ring'[SlotOf(rid[u])], ring[SlotOf(rid[u])])
  PROVE  LearnedBy(u)'
  BY DEF LearnedBy, Mine, SameWords

\* A step that takes a writer where it has learned nothing.
LEMMA LearnedNothing ==
  ASSUME NEW u \in Writers,
         pc'[u] \notin NewIdSteps \cup {"markWrite", "testDone", "stamp", "unlock"}
  PROVE  LearnedBy(u)'
  BY DEF LearnedBy, NewIdSteps

LEMMA LearnedStep == ASSUME IInv, [Next]_vars PROVE Learned'
<1>0. /\ TypeOK /\ \A u \in Writers : LearnedBy(u)
      /\ \A u \in Writers : SlotOf(rid[u]) \in Slots
  BY MineType DEF IInv, Learned
<1>1. ASSUME NEW t \in Writers, Lock(t) \/ Unlock(t), NEW u \in Writers
      PROVE  LearnedBy(u)'
  <2>1. CASE u # t
    BY <1>0, <1>1, <2>1, VerStoreFacts, LearnedKeep
  <2>2. CASE u = t /\ pc[t] # "recUnlock"
    <3>1. pc'[u] \in {"recId", "markTest", "test", "idle"}
      BY <1>1, <2>2, VerStoreMoves
    <3> QED BY <3>1, LearnedNothing DEF NewIdSteps
  <2>3. CASE u = t /\ pc[t] = "recUnlock"
    <3>1. /\ pc'[u] = "recPublish" /\ next' = next /\ rid' = rid
          /\ SameWords(ring'[SlotOf(rid[u])], ring[SlotOf(rid[u])])
      BY <1>0, <1>1, <2>3, VerStoreMoves, VerStoreFacts
    <3> QED BY <1>0, <2>3, <3>1 DEF LearnedBy, Mine, SameWords, NewIdSteps
  <2> QED BY <2>1, <2>2, <2>3
<1>2. ASSUME NEW t \in Writers, WordStore(t), NEW u \in Writers
      PROVE  LearnedBy(u)'
  <2>0. next' = next /\ rid' = rid  BY <1>2, WordStoreFacts
  <2>1. CASE u # t /\ SlotOf(rid[u]) # SlotOf(rid[t])
    <3>1. ring'[SlotOf(rid[u])] = ring[SlotOf(rid[u])] /\ pc'[u] = pc[u]
      BY <1>0, <1>2, <2>1, WordStoreFacts
    <3> QED BY <1>0, <2>0, <3>1, LearnedKeep DEF SameWords
  <2>2. CASE u # t /\ SlotOf(rid[u]) = SlotOf(rid[t])
    <3>1. pc'[u] = pc[u] /\ pc[u] \notin HoldSteps
      BY <1>2, <2>2, WordStoreFacts
    <3>2. CASE pc[u] # "recPublish"
      BY <3>1, <3>2, LearnedNothing DEF HoldSteps, NewIdSteps
    <3>3. CASE pc[u] = "recPublish"
      <4>1. u = "prod" /\ t # "prod"
        BY <2>2, <3>3 DEF IInv, Targets, StampSteps, Writers
      <4>2. ring'[SlotOf(rid[u])].id = ring[SlotOf(rid[u])].id
        BY <1>2, <2>2, <4>1, WordStoreMoves
      <4> QED BY <1>0, <2>0, <3>1, <3>3, <4>2 DEF LearnedBy, Mine
    <3> QED BY <3>2, <3>3
  <2>3. CASE u = t
    <3> DEFINE o == ring[SlotOf(rid[t])]
               n == ring'[SlotOf(rid[t])]
    <3>1. Mine(t) = o /\ Mine(t)' = n  BY <2>0 DEF Mine
    <3>2. pc[t] \in RecSteps => rid[t] = next + 1
      BY DEF IInv, Targets, StampSteps, RecSteps, NewIdSteps, Writers
    <3> HIDE DEF o, n
    <3>3. CASE pc'[t] = "recBody"
      <4>1. n.id = rid[t] /\ pc[t] = "recId"  BY <1>2, <3>3, WordStoreMoves DEF o, n
      <4> QED BY <2>0, <2>3, <3>1, <3>2, <3>3, <4>1
              DEF LearnedBy, NewIdSteps, RecSteps
    <3>4. CASE pc'[t] = "recDone"
      <4>1. n.id = o.id /\ n.body = rid[t] /\ pc[t] = "recBody"
        BY <1>2, <3>4, WordStoreMoves DEF o, n
      <4> QED BY <1>0, <2>0, <2>3, <3>1, <3>2, <3>4, <4>1
              DEF LearnedBy, NewIdSteps, RecSteps
    <3>5. CASE pc'[t] = "recMark"
      <4>1. n.id = o.id /\ n.body = o.body /\ n.done = NoStamp /\ pc[t] = "recDone"
        BY <1>2, <3>5, WordStoreMoves DEF o, n
      <4> QED BY <1>0, <2>0, <2>3, <3>1, <3>2, <3>5, <4>1
              DEF LearnedBy, NewIdSteps, RecSteps
    <3>6. CASE pc'[t] = "recUnlock"
      <4>1. n.id = o.id /\ pc[t] = "recMark"  BY <1>2, <3>6, WordStoreMoves DEF o, n
      <4> QED BY <1>0, <2>0, <2>3, <3>1, <3>2, <3>6, <4>1
              DEF LearnedBy, NewIdSteps, RecSteps
    <3>7. CASE pc'[t] = "markUnlock"
      BY <2>3, <3>7, LearnedNothing DEF NewIdSteps
    <3>8. CASE pc'[t] = "unlock"
      <4>1. n.id = o.id /\ n.done = <<rid[t], t>> /\ pc[t] = "stamp"
        BY <1>2, <3>8, WordStoreMoves DEF o, n
      <4> QED BY <2>0, <2>3, <3>1, <3>8, <4>1 DEF LearnedBy, NewIdSteps
    <3>9. pc'[t] \in {"recBody", "recDone", "recMark", "recUnlock", "markUnlock",
                      "unlock"}
      BY <1>2, WordStoreMoves
    <3> QED BY <3>3, <3>4, <3>5, <3>6, <3>7, <3>8, <3>9
  <2> QED BY <2>1, <2>2, <2>3
<1>3. ASSUME NEW t \in Writers, QuietStep(t), NEW u \in Writers
      PROVE  LearnedBy(u)'
  <2>0. ring' = ring  BY <1>3, QuietFacts
  <2>1. CASE u # t
    <3>1. pc'[u] = pc[u] /\ rid'[u] = rid[u]  BY <1>3, <2>1, QuietFacts
    <3>2. CASE next' = next
      BY <1>0, <2>0, <3>1, <3>2, LearnedKeep DEF SameWords
    <3>3. CASE next' # next
      <4>1. t = "prod"  BY <1>3, <3>3, QuietMoves
      <4>2. pc[u] \notin NewIdSteps
        BY <2>1, <4>1 DEF IInv, Targets, StampSteps, NewIdSteps, Writers
      <4> QED BY <1>0, <2>0, <3>1, <4>2 DEF LearnedBy, Mine, NewIdSteps
    <3> QED BY <3>2, <3>3
  <2>2. CASE u = t /\ pc'[t] \in {"recLock", "idle", "markUnlock", "markLock", "lock"}
    BY <2>2, LearnedNothing DEF NewIdSteps
  <2>3. CASE u = t /\ pc'[t] \in {"markWrite", "testDone"}
    <3>1. Mine(t).id = rid[t] /\ rid'[t] = rid[t]  BY <1>3, <2>3, QuietMoves
    <3> QED BY <2>0, <2>3, <3>1 DEF LearnedBy, Mine, NewIdSteps
  <2>4. CASE u = t /\ pc'[t] = "stamp"
    <3>1. /\ pc[t] = "testDone" /\ Mine(t).done = NoStamp /\ rid'[t] = rid[t]
      BY <1>3, <2>4, QuietMoves
    <3> QED BY <1>0, <2>0, <2>4, <3>1 DEF LearnedBy, Mine, NewIdSteps
  <2>5. CASE u = t /\ pc'[t] = "unlock"
    <3>1. /\ rid'[t] = rid[t]
          /\ \/ Mine(t).id # rid[t]
             \/ pc[t] = "testDone" /\ Mine(t).done # NoStamp
      BY <1>3, <2>5, QuietMoves
    <3>2. ASSUME pc[t] = "testDone", Mine(t).done # NoStamp
          PROVE  Mine(t).done[1] = rid[t]
      <4>1. Mine(t).id = rid[t] /\ rid[t] <= next /\ next \in Nat
        BY <1>0, <3>2 DEF LearnedBy, IInv, Targets, OldSteps, TypeOK
      <4>2. Unmixed(Mine(t)) /\ Mine(t).done[1] # 0
        BY <1>0, <3>2, <4>1 DEF IInv, Content, Mine
      <4> QED BY <4>1, <4>2 DEF Unmixed
    <3> QED BY <2>0, <2>5, <3>1, <3>2 DEF LearnedBy, Mine, NewIdSteps
  <2> QED BY <1>3, <2>1, <2>2, <2>3, <2>4, <2>5, QuietMoves
<1>4. ASSUME ReaderStep \/ UNCHANGED vars, NEW u \in Writers PROVE LearnedBy(u)'
  BY <1>0, <1>4, ReaderFacts, LearnedKeep DEF SameWords
<1>5. ASSUME Fork, NEW u \in Writers PROVE LearnedBy(u)'
  BY <1>5, ForkFacts, LearnedNothing DEF NewIdSteps
<1> QED BY <1>1, <1>2, <1>3, <1>4, <1>5, StepKinds DEF Learned

\* Content, slot by slot.
ContentOf(s) ==
  /\ ring[s].id <= next \/ (ring[s].id = next + 1 /\ BeingRecorded(s))
  /\ \/ Unmixed(ring[s])
     \/ /\ ring[s].id = next + 1
        /\ forked \/ (pc["prod"] \in MixedSteps /\ s = SlotOf(next + 1))
  /\ ring[s].done[1] = 0 => ring[s].done = NoStamp
  /\ ring[s].done[1] <= next

LEMMA ContentIs == Content <=> \A s \in Slots : ContentOf(s)
  BY DEF Content, ContentOf

\* A step that leaves a slot's words alone, whatever becomes of the producer:
\* it enters no recording, and leaves none with the slot mixed.
LEMMA ContentKeep ==
  ASSUME NEW s \in Slots, ContentOf(s), SameWords(ring'[s], ring[s]),
         next' = next,
         BeingRecorded(s) => BeingRecorded(s)',
         (forked \/ (pc["prod"] \in MixedSteps /\ s = SlotOf(next + 1)))
           => (forked' \/ (pc'["prod"] \in MixedSteps /\ s = SlotOf(next + 1)))
  PROVE  ContentOf(s)'
  BY DEF ContentOf, SameWords, Unmixed

LEMMA ContentStep == ASSUME IInv, [Next]_vars PROVE Content'
<1>0. /\ TypeOK /\ "prod" \in Writers /\ \A s \in Slots : ContentOf(s)
      /\ next \in Nat
  BY ContentIs DEF IInv, Writers, TypeOK
<1>1. ASSUME NEW t \in Writers, Lock(t) \/ Unlock(t), NEW s \in Slots
      PROVE  ContentOf(s)'
  <2>1. SameWords(ring'[s], ring[s]) /\ next' = next /\ forked' = forked
    BY <1>1, VerStoreFacts
  <2>2. /\ pc["prod"] \in NewIdSteps => pc'["prod"] \in NewIdSteps
        /\ pc["prod"] \in MixedSteps => pc'["prod"] \in MixedSteps
    BY <1>0, <1>1, VerStoreFacts, VerStoreMoves DEF NewIdSteps, MixedSteps
  <2> QED BY <1>0, <2>1, <2>2, ContentKeep DEF BeingRecorded
<1>2. ASSUME NEW t \in Writers, WordStore(t), NEW s \in Slots
      PROVE  ContentOf(s)'
  <2>0. next' = next /\ rid' = rid /\ forked' = forked /\ SlotOf(rid[t]) \in Slots
    BY <1>0, <1>2, WordStoreFacts, MineType
  <2>1. pc["prod"] \in NewIdSteps => pc'["prod"] \in NewIdSteps
    BY <1>0, <1>2, WordStoreFacts, WordStoreMoves DEF NewIdSteps
  <2>2. t = "prod" /\ pc[t] \in RecSteps => rid[t] = next + 1
    BY DEF IInv, Targets
  <2>3. CASE s # SlotOf(rid[t])
    <3>1. ring'[s] = ring[s]  BY <1>2, <2>3, WordStoreFacts
    <3>2. pc["prod"] \in MixedSteps /\ s = SlotOf(next + 1) => pc'["prod"] \in MixedSteps
      <4>1. CASE t = "prod"
        BY <2>2, <2>3, <4>1 DEF MixedSteps, RecSteps, NewIdSteps
      <4>2. CASE t # "prod"
        BY <1>0, <1>2, <4>2, WordStoreFacts
      <4> QED BY <4>1, <4>2
    <3> QED BY <1>0, <2>0, <2>1, <3>1, <3>2, ContentKeep DEF BeingRecorded, SameWords
  <2>4. CASE s = SlotOf(rid[t])
    <3> DEFINE o == ring[s]
               n == ring'[s]
    <3>0. ContentOf(s) /\ LearnedBy(t) /\ Mine(t) = o
      BY <1>0, <2>4 DEF IInv, Learned, Mine
    <3>1. CASE t = "prod" /\ pc[t] = "recId"
      <4>1. /\ n.id = next + 1 /\ n.done = o.done /\ pc'["prod"] = "recBody"
            /\ s = SlotOf(next + 1)
        BY <1>2, <2>2, <2>4, <3>1, WordStoreMoves DEF RecSteps
      <4> QED BY <2>0, <3>0, <4>1
              DEF ContentOf, BeingRecorded, NewIdSteps, MixedSteps
    <3>2. CASE t = "prod" /\ pc[t] = "recBody"
      <4>1. /\ n.id = o.id /\ n.done = o.done /\ pc'["prod"] = "recDone"
            /\ s = SlotOf(next + 1) /\ o.id = next + 1
        BY <1>2, <2>2, <2>4, <3>0, <3>2, WordStoreMoves
           DEF RecSteps, NewIdSteps, LearnedBy
      <4> QED BY <2>0, <3>0, <4>1
              DEF ContentOf, BeingRecorded, NewIdSteps, MixedSteps
    <3>3. CASE t = "prod" /\ pc[t] = "recDone"
      <4>1. /\ n.id = o.id /\ n.done = NoStamp /\ pc'["prod"] = "recMark"
            /\ s = SlotOf(next + 1) /\ o.id = next + 1
        BY <1>2, <2>2, <2>4, <3>0, <3>3, WordStoreMoves
           DEF RecSteps, NewIdSteps, LearnedBy
      <4>2. NoStamp[1] = 0  BY DEF NoStamp
      <4> QED BY <1>0, <2>0, <3>0, <4>1, <4>2
              DEF ContentOf, BeingRecorded, NewIdSteps, MixedSteps
    <3>4. CASE t = "prod" /\ pc[t] = "recMark"
      <4>1. /\ n.id = o.id /\ n.body = o.body /\ n.done = o.done /\ n.mark = 0
            /\ pc'["prod"] = "recUnlock" /\ s = SlotOf(next + 1)
            /\ o.id = next + 1 /\ o.body = next + 1 /\ o.done = NoStamp
        BY <1>2, <2>2, <2>4, <3>0, <3>4, WordStoreMoves
           DEF RecSteps, NewIdSteps, LearnedBy
      <4>2. NoStamp[1] = 0  BY DEF NoStamp
      <4>3. Unmixed(n)  BY <4>1, <4>2 DEF Unmixed
      <4> QED BY <1>0, <2>0, <3>0, <4>1, <4>2, <4>3
              DEF ContentOf, BeingRecorded, NewIdSteps
    <3>5. CASE t = "prod" /\ pc[t] = "markWrite"
      <4>1. /\ n.id = o.id /\ n.body = o.body /\ n.done = o.done /\ n.mark = o.id
            /\ o.id <= next
        BY <1>2, <2>4, <3>0, <3>5, WordStoreMoves
           DEF LearnedBy, IInv, Targets, OldSteps
      <4>2. Unmixed(o)  BY <1>0, <3>0, <4>1 DEF ContentOf
      <4>3. Unmixed(n)  BY <4>1, <4>2 DEF Unmixed
      <4> QED BY <2>0, <3>0, <4>1, <4>3 DEF ContentOf
    <3>6. CASE pc[t] = "stamp"
      <4>1. /\ n.id = o.id /\ n.body = o.body /\ n.done = <<rid[t], t>>
            /\ n.mark = o.mark /\ o.id = rid[t] /\ rid[t] <= next
            /\ rid[t] # 0
        BY <1>0, <1>2, <2>4, <3>0, <3>6, WordStoreMoves
           DEF LearnedBy, IInv, Targets, OldSteps, TypeOK
      <4>2. Unmixed(o)  BY <1>0, <3>0, <4>1 DEF ContentOf
      <4>3. Unmixed(n)  BY <4>1, <4>2 DEF Unmixed
      <4> QED BY <2>0, <3>0, <4>1, <4>3 DEF ContentOf
    <3> QED BY <1>2, <3>1, <3>2, <3>3, <3>4, <3>5, <3>6, WordStoreMoves
  <2> QED BY <2>3, <2>4
<1>3. ASSUME NEW t \in Writers, QuietStep(t), NEW s \in Slots
      PROVE  ContentOf(s)'
  <2>0. ring' = ring /\ forked' = forked  BY <1>3, QuietFacts
  <2>1. CASE next' = next
    <3>1. /\ pc["prod"] \in NewIdSteps => pc'["prod"] \in NewIdSteps
          /\ pc["prod"] \in MixedSteps => pc'["prod"] \in MixedSteps
      <4>1. CASE t = "prod"
        BY <1>0, <1>3, <2>1, <4>1, QuietMoves DEF NewIdSteps, MixedSteps
      <4>2. CASE t # "prod"
        BY <1>0, <1>3, <4>2, QuietFacts
      <4> QED BY <4>1, <4>2
    <3> QED BY <1>0, <2>0, <2>1, <3>1, ContentKeep DEF BeingRecorded, SameWords
  <2>2. CASE next' # next
    <3>1. next' = next + 1 /\ pc["prod"] = "recPublish"
      BY <1>3, <2>2, QuietMoves
    <3>2. ~forked /\ pc["prod"] \notin MixedSteps
      <4>1. forked # TRUE /\ forked \in BOOLEAN  BY <1>0, <3>1 DEF IInv, Gone, TypeOK
      <4> QED BY <3>1, <4>1 DEF MixedSteps
    <3>3. ring[s].id <= next + 1 /\ Unmixed(ring[s])
      <4>1. ring[s].id \in Nat  BY <1>0 DEF TypeOK, SlotWords
      <4> QED BY <1>0, <3>2, <4>1 DEF ContentOf
    <3>4. ring[s].done[1] <= next + 1
      <4>1. ring[s].done \in Nat \X Writers  BY <1>0 DEF TypeOK, SlotWords
      <4> QED BY <1>0, <4>1 DEF ContentOf
    <3> QED BY <1>0, <2>0, <3>1, <3>3, <3>4 DEF ContentOf
  <2> QED BY <2>1, <2>2
<1>4. ASSUME ReaderStep \/ UNCHANGED vars, NEW s \in Slots PROVE ContentOf(s)'
  <2>1. UNCHANGED <<ring, next, pc, forked>>  BY <1>4, ReaderFacts
  <2> QED BY <1>0, <2>1, ContentKeep DEF BeingRecorded, SameWords
<1>5. ASSUME Fork, NEW s \in Slots PROVE ContentOf(s)'
  BY <1>0, <1>5, ForkFacts, ContentKeep DEF BeingRecorded
<1> QED BY <1>1, <1>2, <1>3, <1>4, <1>5, StepKinds, ContentIs DEF ContentOf, Content

LEMMA StampNotLostStep == ASSUME IInv, [Next]_vars PROVE StampNotLost'
<1>0. /\ TypeOK /\ next \in Nat /\ finished \subseteq 1..next
      /\ \A e \in finished : SlotOf(e) \in Slots
      /\ \A u \in Writers : SlotOf(rid[u]) \in Slots
      /\ \A e \in finished : ring[SlotOf(e)].id = e => ring[SlotOf(e)].done[1] = e
  <2>1. finished \subseteq 1..next  BY DEF IInv, Targets
  <2>2. \A e \in finished : e \in Nat \ {0}  BY <2>1 DEF IInv, TypeOK
  <2> QED BY <2>1, <2>2, SlotOfInSlots, MineType DEF IInv, TypeOK, StampNotLost
<1>1. ASSUME NEW t \in Writers, Lock(t) \/ Unlock(t) PROVE StampNotLost'
  <2>1. \A s \in Slots : SameWords(ring'[s], ring[s])  BY <1>1, VerStoreFacts
  <2>2. \/ finished' = finished
        \/ finished' = finished \cup {rid[t]} /\ pc[t] = "unlock"
    BY <1>1, VerStoreMoves
  <2>3. pc[t] = "unlock" /\ ring[SlotOf(rid[t])].id = rid[t]
          => ring[SlotOf(rid[t])].done[1] = rid[t]
    BY DEF IInv, Learned, LearnedBy, Mine
  <2> QED BY <1>0, <2>1, <2>2, <2>3 DEF StampNotLost, SameWords
<1>2. ASSUME NEW t \in Writers, WordStore(t), NEW e \in finished,
             ring'[SlotOf(e)].id = e
      PROVE  ring'[SlotOf(e)].done[1] = e
  <2>1. CASE SlotOf(e) # SlotOf(rid[t])
    BY <1>0, <1>2, <2>1, WordStoreFacts
  <2>2. CASE SlotOf(e) = SlotOf(rid[t])
    <3> DEFINE o == ring[SlotOf(rid[t])]
               n == ring'[SlotOf(rid[t])]
    <3>1. t = "prod" /\ pc[t] \in RecSteps => rid[t] = next + 1
      BY DEF IInv, Targets
    <3>2. e # next + 1  BY <1>0
    <3>3. CASE n.id = o.id /\ n.done = o.done
      BY <1>0, <1>2, <2>2, <3>3
    <3>4. CASE pc[t] = "recId"
      BY <1>2, <2>2, <3>1, <3>2, <3>4, WordStoreMoves DEF RecSteps
    <3>5. CASE pc[t] = "recDone"
      <4>1. o.id = next + 1 /\ n.id = o.id
        BY <1>2, <3>5, WordStoreMoves DEF IInv, Learned, LearnedBy, Mine, NewIdSteps
      <4> QED BY <1>2, <2>2, <3>2, <4>1
    <3>6. CASE pc[t] = "stamp"
      <4>1. o.id = rid[t] /\ n.id = o.id /\ n.done = <<rid[t], t>>
        BY <1>2, <3>6, WordStoreMoves DEF IInv, Learned, LearnedBy, Mine
      <4> QED BY <1>2, <2>2, <4>1
    <3> QED BY <1>2, <3>3, <3>4, <3>5, <3>6, WordStoreMoves
  <2> QED BY <2>1, <2>2
<1>3. ASSUME NEW t \in Writers, QuietStep(t) PROVE StampNotLost'
  <2>1. ring' = ring  BY <1>3, QuietFacts
  <2>2. \/ finished' = finished
        \/ \E e \in Recorded : /\ finished' = finished \cup {e}
                               /\ ring[SlotOf(e)].id # e
    BY <1>3, QuietMoves
  <2> QED BY <1>0, <2>1, <2>2 DEF StampNotLost
<1>4. CASE ReaderStep \/ UNCHANGED vars
  BY <1>0, <1>4, ReaderFacts DEF StampNotLost
<1>5. CASE Fork
  BY <1>0, <1>5, ForkFacts DEF StampNotLost, SameWords
<1>6. ASSUME NEW t \in Writers, WordStore(t) PROVE StampNotLost'
  BY <1>2, <1>6, WordStoreFacts DEF StampNotLost
<1> QED BY <1>1, <1>3, <1>4, <1>5, <1>6, StepKinds

\* The slot the dump looks at.
LEMMA ThereType ==
  ASSUME TypeOK PROVE SlotOf(cursor + 1) \in Slots /\ There \in SlotWords
<1>1. cursor + 1 \in Nat \ {0}  BY DEF TypeOK
<1> QED BY <1>1, SlotOfInSlots DEF There, TypeOK

\* The dump stands still: a writer who changed the slot held it, so its version
\* is not the even one the dump read; or its version moved on.
LEMMA CopiedKeep ==
  ASSUME IInv, UNCHANGED <<rpc, cursor, upto, copy>>, next <= next',
         next' \in Nat,
         LET n == ring'[SlotOf(cursor + 1)]
         IN \/ SameWords(n, There) /\ n.ver = There.ver
            \/ n.ver = There.ver /\ Held(There)
            \/ n.ver = There.ver + 1
  PROVE  Copied'
<1> DEFINE n == ring'[SlotOf(cursor + 1)]
<1>1. /\ There' = n /\ There.ver \in Nat /\ copy.ver \in Nat
      /\ upto \in Nat /\ next \in Nat
  BY ThereType DEF There, IInv, TypeOK, SlotWords
<1>2. upto <= next'  BY <1>1 DEF IInv, Copied
<1> HIDE DEF n
<1>3. ASSUME rpc \in CopySteps
      PROVE  /\ ~Held(copy) /\ copy.ver <= n.ver /\ cursor < upto
             /\ n.ver = copy.ver => SameWords(n, There) /\ There.ver = copy.ver
  <2>1. ~Held(copy) /\ copy.ver <= There.ver /\ cursor < upto
    BY <1>3 DEF IInv, Copied
  <2>2. CASE SameWords(n, There) /\ n.ver = There.ver  BY <2>1, <2>2
  <2>3. CASE n.ver = There.ver /\ Held(There)          BY <2>1, <2>3 DEF Held
  <2>4. CASE n.ver = There.ver + 1                     BY <1>1, <2>1, <2>4
  <2> QED BY <2>1, <2>2, <2>3, <2>4 DEF n
<1> QED BY <1>1, <1>2, <1>3 DEF IInv, Copied, SameWords

LEMMA CopiedStep == ASSUME IInv, [Next]_vars PROVE Copied'
<1>0. TypeOK /\ SlotOf(cursor + 1) \in Slots /\ next \in Nat /\ next + 1 \in Nat
  BY ThereType DEF IInv, TypeOK
<1>1. ASSUME NEW t \in Writers, Lock(t) \/ Unlock(t) PROVE Copied'
  <2>1. next' = next /\ UNCHANGED <<rpc, cursor, upto, copy>>
    BY <1>1, VerStoreFacts DEF readerVars
  <2> QED BY <1>0, <1>1, <2>1, VerStoreFacts, CopiedKeep DEF There
<1>2. ASSUME NEW t \in Writers, WordStore(t) PROVE Copied'
  <2>1. next' = next /\ UNCHANGED <<rpc, cursor, upto, copy>>
    BY <1>2, WordStoreFacts DEF readerVars
  <2>2. ring'[SlotOf(cursor + 1)].ver = There.ver
    BY <1>0, <1>2, WordStoreFacts DEF There
  <2>3. ring'[SlotOf(cursor + 1)] = There \/ Held(There)
    BY <1>0, <1>2, WordStoreFacts DEF There, Mine
  <2> QED BY <1>0, <2>1, <2>2, <2>3, CopiedKeep DEF SameWords
<1>3. ASSUME NEW t \in Writers, QuietStep(t) PROVE Copied'
  <2>1. ring' = ring /\ UNCHANGED <<rpc, cursor, upto, copy>>
    BY <1>3, QuietFacts DEF readerVars
  <2>2. next' \in Nat /\ next <= next'  BY <1>0, <1>3, QuietMoves
  <2> QED BY <2>1, <2>2, CopiedKeep DEF SameWords, There
<1>4. CASE ReaderStep
  <2>0. UNCHANGED <<ring, next>> /\ upto <= next /\ upto \in Nat
    BY <1>4, ReaderFacts DEF IInv, Copied, TypeOK
  <2>1. CASE SnapStart \/ SnapRetry \/ SnapSkip \/ SnapKeep \/ SnapEnd
    <3>1. rpc' \notin CopySteps /\ upto' \in {upto, next}
      BY <2>1 DEF SnapStart, SnapRetry, SnapSkip, SnapKeep, SnapEnd, Read, CopySteps
    <3> QED BY <1>0, <2>0, <3>1 DEF Copied
  <2>2. CASE SnapVer
    <3>1. /\ rpc' = "id" /\ cursor' = cursor /\ upto' = upto /\ There' = There
          /\ copy'.ver = There.ver /\ ~Held(There) /\ cursor < upto
      BY <1>0, <2>0, <2>2 DEF SnapVer, Read, Copy, There, TypeOK, SlotWords
    <3>2. There.ver \in Nat  BY <1>0, ThereType DEF SlotWords
    <3> QED BY <2>0, <3>1, <3>2 DEF Copied, Held
  <2>3. CASE SnapId \/ SnapBody \/ SnapMark \/ SnapDone
    <3>1. /\ rpc \in CopySteps /\ cursor' = cursor /\ upto' = upto
          /\ There' = There /\ copy'.ver = copy.ver
      BY <1>0, <2>0, <2>3 DEF SnapId, SnapBody, SnapMark, SnapDone, Read, Copy,
                              There, TypeOK, SlotWords, CopySteps
    <3>2. \/ rpc' = "body" /\ copy'.id = There.id
          \/ /\ rpc = "body" /\ rpc' = "mark"
             /\ copy'.id = copy.id /\ copy'.body = There.body
          \/ /\ rpc = "mark" /\ rpc' = "done"
             /\ copy'.id = copy.id /\ copy'.body = copy.body
             /\ copy'.mark = There.mark
          \/ /\ rpc = "done" /\ rpc' = "recheck"
             /\ copy'.id = copy.id /\ copy'.body = copy.body
             /\ copy'.mark = copy.mark /\ copy'.done = There.done
      BY <1>0, <2>3 DEF SnapId, SnapBody, SnapMark, SnapDone, Read, Copy,
                        TypeOK, SlotWords
    <3> QED BY <2>0, <3>1, <3>2 DEF IInv, Copied, Held
  <2> QED BY <1>4, <2>1, <2>2, <2>3 DEF ReaderStep
<1>5. CASE Fork
  BY <1>0, <1>5 DEF Fork, Copied, CopySteps
<1>6. CASE UNCHANGED vars
  BY <1>0, <1>6, CopiedKeep DEF vars, readerVars, SameWords, There
<1> QED BY <1>1, <1>2, <1>3, <1>4, <1>5, <1>6, StepKinds

LEMMA SnapshotWholeStep == ASSUME IInv, [Next]_vars PROVE SnapshotWhole'
<1>1. CASE UNCHANGED <<out, upto>>
  BY <1>1 DEF IInv, SnapshotWhole, Unmixed
<1>2. CASE out' = <<>>
  BY <1>2 DEF SnapshotWhole
<1>3. CASE SnapKeep
  <2>1. copy.id # cursor + 1 => out' = out  BY <1>3 DEF SnapKeep
  <2>2. upto' = upto  BY <1>3 DEF SnapKeep
  <2>3. ASSUME copy.id = cursor + 1 PROVE SnapshotWhole'
    <3>1. out' = Append(out, copy)  BY <1>3, <2>3 DEF SnapKeep
    <3>2. /\ copy.id = There.id /\ copy.body = There.body
          /\ copy.mark = There.mark /\ copy.done = There.done /\ cursor < upto
      BY <1>3 DEF SnapKeep, Read, IInv, Copied, CopySteps
    <3>3. /\ SlotOf(cursor + 1) \in Slots /\ cursor \in Nat /\ upto \in Nat
          /\ next \in Nat /\ upto <= next
      BY ThereType DEF IInv, TypeOK, Copied
    <3>4. Unmixed(There)
      BY <2>3, <3>2, <3>3 DEF IInv, Content, There
    <3>5. Unmixed(copy) /\ copy.id \in 1..upto
      BY <2>3, <3>2, <3>3, <3>4 DEF Unmixed
    <3>6. out \in Seq(SlotWords) /\ copy \in SlotWords  BY DEF IInv, TypeOK
    <3>7. ASSUME NEW i \in DOMAIN out'
          PROVE  out'[i] = copy \/ (i \in DOMAIN out /\ out'[i] = out[i])
      BY <3>1, <3>6, <3>7
    <3> QED BY <2>2, <3>5, <3>7 DEF IInv, SnapshotWhole, Unmixed
  <2> QED BY <1>1, <2>1, <2>2, <2>3
<1>4. CASE ReaderStep
  <2>1. \/ UNCHANGED <<out, upto>> \/ out' = <<>> \/ SnapKeep
    BY <1>4 DEF ReaderStep, SnapStart, SnapVer, SnapId, SnapBody, SnapMark,
                SnapDone, SnapRetry, SnapSkip, SnapEnd, Copy
  <2> QED BY <1>1, <1>2, <1>3, <2>1
<1>5. ASSUME NEW t \in Writers, Lock(t) \/ Unlock(t) \/ WordStore(t) \/ QuietStep(t)
      PROVE  UNCHANGED <<out, upto>>
  BY <1>5, VerStoreFacts, WordStoreFacts, QuietFacts DEF readerVars
<1>6. CASE Fork  BY <1>2, <1>6 DEF Fork
<1> QED BY <1>1, <1>4, <1>5, <1>6, StepKinds DEF vars, readerVars

LEMMA IInvInit == Init => IInv
<1> SUFFICES ASSUME Init PROVE IInv
  OBVIOUS
<1>1. TypeOK  BY TypeInit
<1>2. HeldOnce /\ Learned
  BY DEF Init, HeldOnce, Learned, LearnedBy, HoldSteps, NewIdSteps
<1>3. Targets
  BY DEF Init, Targets, RecSteps, NewIdSteps, OldSteps, StampSteps, Writers
<1>4. Gone  BY DEF Init, Gone
<1>5. Content
  BY DEF Init, Content, Unmixed, EmptySlot, NoStamp
<1>6. StampNotLost  BY DEF Init, StampNotLost
<1>7. Copied  BY DEF Init, Copied, CopySteps
<1>8. SnapshotWhole  BY DEF Init, SnapshotWhole
<1> QED BY <1>1, <1>2, <1>3, <1>4, <1>5, <1>6, <1>7, <1>8 DEF IInv

LEMMA IInvStep == IInv /\ [Next]_vars => IInv'
<1> SUFFICES ASSUME IInv, [Next]_vars PROVE IInv'
  OBVIOUS
<1>1. TypeOK'  BY TypeStep DEF IInv
<1> QED BY <1>1, HeldOnceStep, TargetsStep, GoneStep, LearnedStep, ContentStep,
           StampNotLostStep, CopiedStep, SnapshotWholeStep DEF IInv

LEMMA IInvAlways == Spec => []IInv
  BY IInvInit, IInvStep, PTL DEF Spec

\* A stamp, a link or an untracked flag only ever lands on its own entry:
\* fr_done, fr_link and fr_untracked test the id under the slot's lock.
THEOREM SlotsUnmixedAlways == Spec => []SlotsUnmixed
<1>1. IInv => SlotsUnmixed
  <2> SUFFICES ASSUME IInv, NEW s \in Slots, ring[s].id <= next
               PROVE  Unmixed(ring[s])
    BY DEF SlotsUnmixed
  <2>1. next \in Nat  BY DEF IInv, TypeOK
  <2> QED BY <2>1 DEF IInv, Content
<1> QED BY <1>1, IInvAlways, PTL

\* The entry of a completed collective carries its stamp while it is kept.
THEOREM StampNotLostAlways == Spec => []StampNotLost
  BY IInvAlways, PTL DEF IInv

\* Every entry of a dump is whole, and is the one looked for.
THEOREM SnapshotWholeAlways == Spec => []SnapshotWhole
  BY IInvAlways, PTL DEF IInv

\* The first stamp of an entry is never overwritten.
FirstStamp ==
  \A s \in Slots :
    ring[s].done[1] # 0 /\ ring[s].done[1] = ring[s].id
      => ring'[s].done = ring[s].done \/ ring'[s].id # ring[s].id

LEMMA FirstStampStep == ASSUME IInv, [Next]_vars PROVE FirstStamp
<1> SUFFICES ASSUME NEW s \in Slots, ring[s].done[1] # 0,
                    ring[s].done[1] = ring[s].id
             PROVE  ring'[s].done = ring[s].done \/ ring'[s].id # ring[s].id
  BY DEF FirstStamp
<1>1. ASSUME NEW t \in Writers, WordStore(t), s = SlotOf(rid[t])
      PROVE  ring'[s].done = ring[s].done
  <2>1. NoStamp[1] = 0  BY DEF NoStamp
  <2>2. pc[t] # "stamp"
    BY <1>1, <2>1 DEF IInv, Learned, LearnedBy, Mine
  <2>3. CASE pc[t] = "recDone"
    <3>1. t = "prod"  BY <1>1, <2>3, WordStoreMoves
    <3>2. ring[s].id = next + 1
      BY <1>1, <2>3, <3>1 DEF IInv, Learned, LearnedBy, Mine, NewIdSteps
    <3>3. ring[s].done[1] <= next /\ next \in Nat
      BY DEF IInv, Content, TypeOK
    <3> QED BY <3>2, <3>3
  <2> QED BY <1>1, <2>2, <2>3, WordStoreMoves
<1>2. ASSUME NEW t \in Writers, WordStore(t), s # SlotOf(rid[t])
      PROVE  ring'[s].done = ring[s].done
  BY <1>2, WordStoreFacts
<1>3. ASSUME NEW t \in Writers, Lock(t) \/ Unlock(t)
      PROVE  ring'[s].done = ring[s].done
  BY <1>3, VerStoreFacts DEF SameWords
<1>4. ASSUME NEW t \in Writers, QuietStep(t) PROVE ring'[s].done = ring[s].done
  BY <1>4, QuietFacts
<1>5. CASE ReaderStep \/ UNCHANGED vars  BY <1>5, ReaderFacts
<1>6. CASE Fork  BY <1>6, ForkFacts DEF SameWords
<1> QED BY <1>1, <1>2, <1>3, <1>4, <1>5, <1>6, StepKinds

THEOREM FirstStampAlways == Spec => FirstStampStays
<1>1. IInv /\ [Next]_vars => [FirstStamp]_vars  BY FirstStampStep
<1>2. Spec => [][FirstStamp]_vars
  BY <1>1, IInvAlways, PTL DEF Spec
<1> QED BY <1>2 DEF FirstStampStays, FirstStamp
-----------------------------------------------------------------------------
(* The dump in the child of a fork, behind ChildSnapshotComplete.           *)

\* The ring keeps the last Size entries, but for the one whose slot the next
\* entry takes.
Kept == \A e \in Recorded : e + Size > next + 1 => ring[SlotOf(e)].id = e

\* In the child no slot is locked, none changes, and the dump has kept every
\* entry its cursor passed.
Collected == \A e \in (Oldest + 2)..cursor : \E i \in DOMAIN out : out[i].id = e
Child ==
  forked =>
    /\ \A s \in Slots : ~Held(ring[s])
    /\ rpc # "idle" =>
         upto = next /\ Oldest <= cursor /\ cursor <= upto /\ Collected
    /\ rpc \in CopySteps => copy.ver = There.ver

\* Fewer than Size entries apart, two entries never meet in a slot.
LEMMA SlotsApart ==
  ASSUME NEW e \in Nat \ {0}, NEW f \in Nat \ {0}, e < f, f < e + Size
  PROVE  SlotOf(e) # SlotOf(f)
<1> SUFFICES ASSUME SlotOf(e) = SlotOf(f) PROVE FALSE
  OBVIOUS
<1> USE FlightRingAssumption
<1> DEFINE a == (e - 1) \div Size
           b == (f - 1) \div Size
<1>1. /\ a \in Int /\ e - 1 = Size * a + ((e - 1) % Size)
      /\ b \in Int /\ f - 1 = Size * b + ((f - 1) % Size)
  OBVIOUS
<1>2. f - e = Size * (b - a)
  BY <1>1 DEF SlotOf
<1> HIDE DEF a, b
<1>3. CASE b - a >= 1
  BY <1>1, <1>2, <1>3
<1>4. CASE b - a <= 0
  BY <1>1, <1>2, <1>4
<1> QED BY <1>1, <1>3, <1>4

LEMMA KeptStep == ASSUME IInv, Kept, [Next]_vars PROVE Kept'
<1>0. /\ next \in Nat
      /\ \A e \in Recorded : e \in Nat \ {0} /\ e <= next /\ SlotOf(e) \in Slots
  BY SlotOfInSlots DEF IInv, TypeOK, Recorded
<1>1. ASSUME next' = next, \A s \in Slots : ring'[s].id = ring[s].id
      PROVE  Kept'
  BY <1>0, <1>1 DEF Kept, Recorded
<1>2. ASSUME NEW t \in Writers, Lock(t) \/ Unlock(t) PROVE Kept'
  BY <1>1, <1>2, VerStoreFacts DEF SameWords
<1>3. ASSUME NEW t \in Writers, WordStore(t) PROVE Kept'
  <2>1. next' = next  BY <1>3, WordStoreFacts
  <2>2. CASE pc[t] = "recId"
    <3>1. t = "prod" /\ rid[t] = next + 1
      BY <1>3, <2>2, WordStoreMoves DEF IInv, Targets, RecSteps
    <3>2. ASSUME NEW e \in Recorded, e + Size > next + 1
          PROVE  ring'[SlotOf(e)] = ring[SlotOf(e)]
      <4>1. SlotOf(e) # SlotOf(rid[t])
        BY <1>0, <3>1, <3>2, SlotsApart, FlightRingAssumption
      <4> QED BY <1>0, <1>3, <4>1, WordStoreFacts
    <3> QED BY <2>1, <3>2 DEF Kept, Recorded
  <2>3. CASE pc[t] # "recId"
    <3>1. ring'[SlotOf(rid[t])].id = ring[SlotOf(rid[t])].id
      BY <1>3, <2>3, WordStoreMoves
    <3> QED BY <1>1, <1>3, <2>1, <3>1, WordStoreFacts
  <2> QED BY <2>2, <2>3
<1>4. ASSUME NEW t \in Writers, QuietStep(t) PROVE Kept'
  <2>1. ring' = ring  BY <1>4, QuietFacts
  <2>2. CASE next' = next  BY <1>1, <2>1, <2>2
  <2>3. CASE next' # next
    <3>1. next' = next + 1 /\ t = "prod" /\ pc[t] = "recPublish"
      BY <1>4, <2>3, QuietMoves
    <3>2. ring[SlotOf(next + 1)].id = next + 1
      BY <3>1 DEF IInv, Targets, Learned, LearnedBy, Mine, RecSteps, NewIdSteps
    <3> SUFFICES ASSUME NEW e \in 1..(next + 1), e + Size > (next + 1) + 1
                 PROVE  ring[SlotOf(e)].id = e
      BY <2>1, <3>1 DEF Kept, Recorded
    <3>3. CASE e = next + 1  BY <3>2, <3>3
    <3>4. CASE e # next + 1
      <4>1. e \in Recorded /\ e + Size > next + 1
        BY <1>0, <3>4, FlightRingAssumption DEF Recorded
      <4> QED BY <4>1 DEF Kept
    <3> QED BY <3>3, <3>4
  <2> QED BY <2>2, <2>3
<1>5. CASE ReaderStep \/ UNCHANGED vars  BY <1>1, <1>5, ReaderFacts
<1>6. CASE Fork  BY <1>1, <1>6, ForkFacts DEF SameWords
<1> QED BY <1>2, <1>3, <1>4, <1>5, <1>6, StepKinds

\* After the fork only the dump takes steps.
LEMMA OnlyDumps ==
  ASSUME IInv, forked, [Next]_vars
  PROVE  ReaderStep \/ UNCHANGED vars
<1>1. \A t \in Writers : pc[t] = "gone"
  BY DEF IInv, Gone, TypeOK
<1>2. ASSUME NEW t \in Writers, Lock(t) \/ Unlock(t) PROVE FALSE
  BY <1>1, <1>2, VerStoreMoves
<1>3. ASSUME NEW t \in Writers, WordStore(t) PROVE FALSE
  BY <1>1, <1>3, WordStoreMoves
<1>4. ASSUME NEW t \in Writers, QuietStep(t) PROVE FALSE
  BY <1>1, <1>4, QuietMoves
<1>5. ~Fork  BY DEF Fork
<1> QED BY <1>2, <1>3, <1>4, <1>5, StepKinds

LEMMA ForkReleases ==
  ASSUME IInv, Fork, NEW s \in Slots
  PROVE  ~Held(ring'[s])
<1>1. ring[s] \in SlotWords /\ ring'[s] = Released(ring[s])
  BY DEF IInv, TypeOK, Fork
<1>2. CASE Held(ring[s])
  <2>1. ring'[s].ver = ring[s].ver + 1
    BY <1>1, <1>2 DEF Released, SlotWords
  <2> QED BY <1>1, <1>2, <2>1, Parity DEF Held, SlotWords
<1> QED BY <1>1, <1>2 DEF Released

\* A kept copy is the entry looked for, and what was kept stays kept.
LEMMA KeepCollects ==
  ASSUME IInv, Kept, Child, forked, SnapKeep
  PROVE  Collected'
<1>0. /\ next \in Nat /\ cursor \in Nat /\ out \in Seq(SlotWords)
      /\ copy \in SlotWords
  BY DEF IInv, TypeOK
<1>1. /\ rpc = "recheck" /\ There.ver = copy.ver /\ cursor' = cursor + 1
      /\ out' = IF copy.id = cursor + 1 THEN Append(out, copy) ELSE out
      /\ next' = next
  BY DEF SnapKeep, Read, OnlyReader
<1>2. upto = next /\ Oldest <= cursor /\ cursor < next /\ copy.id = There.id
  BY <1>1 DEF Child, IInv, Copied, CopySteps
<1>3. /\ Len(out) + 1 \in DOMAIN Append(out, copy)
      /\ Append(out, copy)[Len(out) + 1] = copy
      /\ \A i \in DOMAIN out : i \in DOMAIN Append(out, copy)
                               /\ Append(out, copy)[i] = out[i]
  BY <1>0
<1>4. \A i \in DOMAIN out : i \in DOMAIN out' /\ out'[i] = out[i]
  BY <1>1, <1>3
<1>5. Oldest \in Nat /\ Oldest' = Oldest
  BY <1>0, <1>1, FlightRingAssumption DEF Oldest
<1> SUFFICES ASSUME NEW e \in (Oldest + 2)..(cursor + 1)
             PROVE  \E i \in DOMAIN out' : out'[i].id = e
  BY <1>1, <1>5 DEF Collected
<1>6. CASE e <= cursor
  <2>1. e \in (Oldest + 2)..cursor  BY <1>0, <1>5, <1>6
  <2>2. PICK i \in DOMAIN out : out[i].id = e
    BY <1>1, <2>1 DEF Child, Collected
  <2> QED BY <1>4, <2>2
<1>7. CASE e = cursor + 1
  <2>1. e \in Recorded /\ e + Size > next + 1
    BY <1>0, <1>2, <1>5, <1>7, FlightRingAssumption DEF Recorded, Oldest
  <2>2. copy.id = e
    BY <1>2, <1>7, <2>1 DEF Kept, There
  <2>3. out' = Append(out, copy)
    BY <1>1, <1>7, <2>2
  <2> QED BY <1>3, <2>2, <2>3
<1> QED BY <1>0, <1>5, <1>6, <1>7

LEMMA ChildStep == ASSUME IInv, Kept, Child, [Next]_vars PROVE Child'
<1>0. next \in Nat /\ cursor \in Nat /\ upto \in Nat /\ Oldest \in Nat
  BY FlightRingAssumption DEF IInv, TypeOK, Oldest
<1>1. CASE ~forked /\ forked'
  <2>1. Fork
    <3>1. ~(ReaderStep \/ UNCHANGED vars)  BY <1>1, ReaderFacts
    <3>2. \A t \in Writers : ~(Lock(t) \/ Unlock(t))
      BY <1>1, VerStoreFacts
    <3>3. \A t \in Writers : ~WordStore(t)  BY <1>1, WordStoreFacts
    <3>4. \A t \in Writers : ~QuietStep(t)  BY <1>1, QuietFacts
    <3> QED BY <3>1, <3>2, <3>3, <3>4, StepKinds
  <2>2. rpc' = "idle"  BY <2>1 DEF Fork
  <2>3. Slots' = Slots  OBVIOUS
  <2> QED BY <2>1, <2>2, ForkReleases DEF Child, CopySteps, Held
<1>2. CASE forked
  <2>1. ReaderStep \/ UNCHANGED vars  BY <1>2, OnlyDumps
  <2>2. UNCHANGED <<ring, next, forked>> /\ Oldest' = Oldest
    BY <2>1, ReaderFacts DEF Oldest
  <2>3. \A s \in Slots : ~Held(ring[s])'
    BY <1>2, <2>2 DEF Child, Held
  <2>4. ~Held(There)
    BY <1>2, ThereType DEF Child, There, IInv
  <2>5. CASE SnapStart
    <3>1. /\ rpc' = "ver" /\ upto' = next /\ cursor' = Oldest /\ next' = next
      BY <2>5, <2>2 DEF SnapStart, Read
    <3>2. Oldest <= next  BY <1>0, FlightRingAssumption DEF Oldest
    <3>3. Collected'
      BY <1>0, <2>2, <3>1 DEF Collected
    <3>4. Oldest' <= cursor' /\ cursor' <= upto' /\ upto' = next'
      BY <2>2, <3>1, <3>2, <1>0
    <3>5. rpc' \notin CopySteps  BY <3>1 DEF CopySteps
    <3> QED BY <2>3, <3>3, <3>4, <3>5 DEF Child
  <2>6. CASE SnapVer \/ SnapId \/ SnapBody \/ SnapMark \/ SnapDone
    <3>1. /\ UNCHANGED <<cursor, upto, out>> /\ rpc # "idle"
          /\ There' = There
      BY <2>2, <2>6 DEF SnapVer, SnapId, SnapBody, SnapMark, SnapDone, Copy, Read,
                        There, CopySteps
    <3>2. copy'.ver = There.ver
      <4>1. CASE SnapVer
        BY <4>1 DEF SnapVer, Copy, IInv, TypeOK, SlotWords
      <4>2. CASE SnapId \/ SnapBody \/ SnapMark \/ SnapDone
        <5>1. rpc \in CopySteps /\ copy'.ver = copy.ver
          BY <4>2 DEF SnapId, SnapBody, SnapMark, SnapDone, Copy, Read, CopySteps,
                      IInv, TypeOK, SlotWords
        <5> QED BY <1>2, <5>1 DEF Child
      <4> QED BY <2>6, <4>1, <4>2
    <3> QED BY <1>2, <2>2, <2>3, <3>1, <3>2 DEF Child, Collected, There
  <2>7. CASE SnapRetry \/ SnapEnd \/ UNCHANGED vars
    <3>1. /\ UNCHANGED <<cursor, upto, out>>
          /\ rpc' # "idle" => rpc # "idle"
          /\ rpc' \in CopySteps => rpc \in CopySteps /\ copy' = copy
      BY <2>7 DEF SnapRetry, SnapEnd, vars, readerVars, Read, CopySteps
    <3> QED BY <1>2, <2>2, <2>3, <3>1 DEF Child, Collected, There
  <2>8. CASE SnapSkip
    BY <1>2, <2>4, <2>8 DEF SnapSkip, Read, Child, CopySteps
  <2>9. CASE SnapKeep
    <3>1. /\ rpc = "recheck" /\ rpc' = "ver" /\ cursor' = cursor + 1
          /\ upto' = upto
      BY <2>9 DEF SnapKeep, Read
    <3>2. upto = next /\ Oldest <= cursor /\ cursor < upto
      BY <1>2, <3>1 DEF Child, IInv, Copied, CopySteps
    <3> QED BY <1>0, <1>2, <2>2, <2>3, <2>9, <3>1, <3>2, KeepCollects
            DEF Child, CopySteps
  <2> QED BY <2>1, <2>5, <2>6, <2>7, <2>8, <2>9 DEF ReaderStep
<1> QED BY <1>1, <1>2 DEF Child

\* A dump in the child of a fork misses at most the oldest entry, whose slot
\* the parent may have been overwriting: _after_fork_in_child released every
\* lock, so no slot is given up after its attempts.
THEOREM ChildMissesNothing == Spec => []ChildSnapshotComplete
<1>1. Init => Kept /\ Child
  BY DEF Init, Kept, Child, Recorded
<1>2. IInv /\ Kept /\ Child /\ [Next]_vars => (Kept /\ Child)'
  BY KeptStep, ChildStep
<1>3. IInv /\ Child => ChildSnapshotComplete
  <2> SUFFICES ASSUME IInv, Child, forked, rpc = "ver", cursor = upto
               PROVE  \A e \in (Oldest + 2)..next : \E i \in DOMAIN out : out[i].id = e
    BY DEF ChildSnapshotComplete
  <2> QED BY DEF Child, Collected
<1> QED BY <1>1, <1>2, <1>3, IInvAlways, PTL DEF Spec
=============================================================================
