------------------------ MODULE LibraryCache_proofs ------------------------
(***************************************************************************)
(* Theorems about LibraryCache, for any set of processes and any number of *)
(* crashes, on a file system that honours locks.                           *)
(***************************************************************************)
EXTENDS LibraryCache, TLAPS

Kinds == {None, "prebuilt", "compiled"}

\* The steps a process takes between the lock and its release.
Inside == {"again", "copy", "compile", "install", "rename", "check", "unmark"}
PCs    == Inside \cup {"look", "lock", "relock", "kept", "load", "loaded", "raised"}

Typed ==
  /\ out \in Kinds /\ mark \in BOOLEAN /\ holder \in Procs \cup {NoOne}
  /\ pc \in [Procs -> PCs] /\ tmp \in [Procs -> Kinds]

\* Whoever is inside holds the lock.
Exclusive == \A p \in Procs : pc[p] \in Inside => holder = p

\* A shipped library is marked from before it is installed.
MarkedFirst ==
  \A p \in Procs : pc[p] \in {"install", "rename"} /\ tmp[p] = "prebuilt" => mark

\* A mark is only removed once there is no library to mark.
Unmarking == \A p \in Procs : pc[p] = "unmark" => out = None

IInv == Typed /\ Exclusive /\ MarkedFirst /\ Unmarking /\ FallbackPossible

\* No process is inside and everyone looks; nothing is installed.
LEMMA InitEstablishes == Init => IInv
  BY DEF Init, IInv, Typed, Exclusive, MarkedFirst, Unmarking, FallbackPossible,
         Inside, PCs, Kinds, None, NoOne

\* A step that changes neither file and takes no lock keeps the invariant if
\* it goes on inside, or comes out and releases; what it has built in scratch
\* is a marked library, or none that needs a mark.
LEMMA PrivateStep ==
  ASSUME IInv, NEW p \in Procs, NEW l \in PCs, Goto(p, l),
         tmp' \in [Procs -> Kinds],
         \A q \in Procs \ {p} : tmp'[q] = tmp[q],
         out' = out, mark' = mark,
         \/ l \in Inside /\ pc[p] \in Inside /\ holder' = holder
         \/ l \notin Inside /\ Release(p)
         \/ l \notin Inside /\ pc[p] \notin Inside /\ holder' = holder,
         l \in {"install", "rename"} /\ tmp'[p] = "prebuilt" => mark,
         l = "unmark" => out = None
  PROVE  IInv'
<1>0. /\ pc' \in [Procs -> PCs] /\ pc'[p] = l
      /\ \A q \in Procs \ {p} : pc'[q] = pc[q]
  BY DEF Goto, IInv, Typed
<1>1. Typed'
  <2>1. holder' \in Procs \cup {NoOne}
    BY DEF IInv, Typed, Release
  <2> QED BY <1>0, <2>1 DEF IInv, Typed
<1>2. Exclusive'
  <2> SUFFICES ASSUME NEW q \in Procs, pc'[q] \in Inside PROVE holder' = q
    BY DEF Exclusive
  <2>1. CASE q = p
    BY <1>0, <2>1 DEF IInv, Exclusive
  <2>2. CASE q # p
    BY <1>0, <2>2 DEF IInv, Exclusive, Release
  <2> QED BY <2>1, <2>2
<1>3. MarkedFirst'
  <2> SUFFICES ASSUME NEW q \in Procs, pc'[q] \in {"install", "rename"},
                      tmp'[q] = "prebuilt"
               PROVE  mark
    BY DEF MarkedFirst
  <2>1. CASE q = p BY <1>0, <2>1
  <2>2. CASE q # p BY <1>0, <2>2 DEF IInv, MarkedFirst
  <2> QED BY <2>1, <2>2
<1>4. Unmarking'
  <2> SUFFICES ASSUME NEW q \in Procs, pc'[q] = "unmark" PROVE out = None
    BY DEF Unmarking
  <2>1. CASE q = p BY <1>0, <2>1
  <2>2. CASE q # p BY <1>0, <2>2 DEF IInv, Unmarking
  <2> QED BY <2>1, <2>2
<1>5. FallbackPossible'
  BY DEF IInv, FallbackPossible
<1> QED BY <1>1, <1>2, <1>3, <1>4, <1>5 DEF IInv

\* Taking the lock: nobody was inside.
LEMMA LockStep ==
  ASSUME IInv, Locks, NEW p \in Procs, Lock(p) PROVE IInv'
<1> DEFINE l == IF pc[p] = "lock" THEN "again" ELSE "check"
<1>0. /\ pc' = [pc EXCEPT ![p] = l] /\ holder = NoOne /\ holder' = p
      /\ UNCHANGED <<out, mark, tmp>> /\ l \in {"again", "check"}
  BY DEF Lock, Goto, files
<1>1. /\ pc' \in [Procs -> PCs] /\ pc'[p] = l
      /\ \A q \in Procs \ {p} : pc'[q] = pc[q] /\ pc[q] \notin Inside
  BY <1>0, CacheAssumption DEF IInv, Typed, Exclusive, PCs, Inside
<1> QED
  BY <1>0, <1>1 DEF IInv, Typed, Exclusive, MarkedFirst, Unmarking,
                    FallbackPossible, Inside

\* While one process is inside, no other installs or unmarks anything.
LEMMA Alone ==
  ASSUME IInv, NEW p \in Procs, pc[p] \in Inside, NEW q \in Procs \ {p}
  PROVE  pc[q] \notin Inside
  BY DEF IInv, Exclusive

\* The mark comes before the library it is for.
LEMMA CopyStep ==
  ASSUME IInv, NEW p \in Procs, CopyPrebuilt(p) PROVE IInv'
<1>1. /\ pc[p] \in Inside /\ mark' = TRUE /\ UNCHANGED <<out, holder>>
      /\ pc' \in [Procs -> PCs] /\ pc'[p] = "install"
      /\ tmp' \in [Procs -> Kinds]
      /\ \A q \in Procs \ {p} : pc'[q] = pc[q] /\ tmp'[q] = tmp[q]
  BY DEF CopyPrebuilt, Goto, IInv, Typed, PCs, Inside, Kinds
<1>2. \A q \in Procs \ {p} : pc[q] \notin Inside
  BY <1>1, Alone
<1> QED
  BY <1>1, <1>2 DEF IInv, Typed, Exclusive, MarkedFirst, Unmarking,
                    FallbackPossible, Inside

\* The rename: what it installs is marked.
LEMMA RenameStep ==
  ASSUME IInv, NEW p \in Procs, Rename(p) PROVE IInv'
<1>1. /\ pc[p] = "rename" /\ out' = tmp[p] /\ UNCHANGED <<mark, tmp>> /\ Release(p)
      /\ pc' \in [Procs -> PCs] /\ pc'[p] = "load"
      /\ \A q \in Procs \ {p} : pc'[q] = pc[q]
  BY DEF Rename, Goto, IInv, Typed, PCs
<1>2. \A q \in Procs : pc'[q] \notin Inside
  BY <1>1, Alone DEF Inside
<1>3. holder' \in Procs \cup {NoOne} /\ out' \in Kinds
  BY <1>1 DEF Release, IInv, Typed
<1>4. out' = "prebuilt" => mark
  BY <1>1 DEF IInv, MarkedFirst
<1> QED
  BY <1>1, <1>2, <1>3, <1>4 DEF IInv, Typed, Exclusive, MarkedFirst, Unmarking,
                                FallbackPossible, Inside

\* The library goes before its mark.
LEMMA CheckStep ==
  ASSUME IInv, NEW p \in Procs, CheckMark(p) PROVE IInv'
<1>1. CASE Marked
  <2>1. /\ pc[p] \in Inside /\ out' = None /\ UNCHANGED <<mark, holder, tmp>>
        /\ pc' \in [Procs -> PCs] /\ pc'[p] = "unmark"
        /\ \A q \in Procs \ {p} : pc'[q] = pc[q]
    BY <1>1 DEF CheckMark, Goto, IInv, Typed, PCs, Inside
  <2> QED
    BY <2>1 DEF IInv, Typed, Exclusive, MarkedFirst, Unmarking, FallbackPossible,
                Inside, Kinds, None
<1>2. CASE ~Marked
  <2>1. Goto(p, "kept") /\ UNCHANGED <<out, mark, tmp>> /\ Release(p)
    BY <1>2 DEF CheckMark
  <2> QED BY <2>1, PrivateStep DEF IInv, Typed, PCs, Inside
<1> QED BY <1>1, <1>2

\* The mark goes while there is no library and nobody is about to install one.
LEMMA UnmarkStep ==
  ASSUME IInv, NEW p \in Procs, Unmark(p) PROVE IInv'
<1>1. /\ pc[p] = "unmark" /\ mark' = FALSE /\ UNCHANGED <<out, tmp>> /\ Release(p)
      /\ pc' \in [Procs -> PCs] /\ pc'[p] = "look"
      /\ \A q \in Procs \ {p} : pc'[q] = pc[q]
  BY DEF Unmark, Goto, IInv, Typed, PCs
<1>2. (\A q \in Procs : pc'[q] \notin Inside) /\ out = None
  BY <1>1, Alone DEF Inside, IInv, Unmarking
<1>3. holder' \in Procs \cup {NoOne}
  BY <1>1 DEF Release, IInv, Typed
<1> QED
  BY <1>1, <1>2, <1>3 DEF IInv, Typed, Exclusive, MarkedFirst, Unmarking,
                          FallbackPossible, Inside, None

\* A crash gives the lock back and forgets what was in scratch.
LEMMA CrashStep ==
  ASSUME IInv, NEW p \in Procs, Crash(p) PROVE IInv'
<1>1. /\ Goto(p, "look") /\ Release(p) /\ UNCHANGED <<out, mark>>
      /\ tmp' \in [Procs -> Kinds] /\ \A q \in Procs \ {p} : tmp'[q] = tmp[q]
  BY DEF Crash, files, IInv, Typed, Kinds
<1> QED BY <1>1, PrivateStep DEF PCs, Inside

\* The other steps leave both files and the lock of others alone.
LEMMA OtherStep ==
  ASSUME IInv, NEW p \in Procs,
         \/ Look(p) \/ LookAgain(p) \/ CopyFails(p) \/ CompileLibrary(p)
         \/ BuildFails(p) \/ LookInstalled(p) \/ Load(p) \/ LookKept(p)
  PROVE  IInv'
<1> USE DEF files, Kinds, PCs, Inside
<1>1. CASE Look(p)
  <2>1. PICK l \in {"load", "lock"} : Goto(p, l)
    BY <1>1 DEF Look
  <2> QED BY <1>1, <2>1, PrivateStep DEF Look, IInv, Typed
<1>2. CASE LookAgain(p)
  <2>1. CASE out # None
    BY <1>2, <2>1, PrivateStep DEF LookAgain, IInv, Typed
  <2>2. CASE out = None
    <3>1. PICK l \in {"copy", "compile"} : Goto(p, l)
      BY <1>2, <2>2 DEF LookAgain
    <3> QED BY <1>2, <2>2, <3>1, PrivateStep DEF LookAgain, IInv, Typed
  <2> QED BY <2>1, <2>2
<1>3. CASE CopyFails(p)
  BY <1>3, PrivateStep DEF CopyFails, IInv, Typed
<1>4. CASE CompileLibrary(p)
  <2>1. tmp' \in [Procs -> Kinds] /\ tmp'[p] = "compiled"
        /\ \A q \in Procs \ {p} : tmp'[q] = tmp[q]
    BY <1>4 DEF CompileLibrary, IInv, Typed
  <2> QED BY <1>4, <2>1, PrivateStep DEF CompileLibrary
<1>5. CASE BuildFails(p)
  BY <1>5, PrivateStep DEF BuildFails, Raise, IInv, Typed
<1>6. CASE LookInstalled(p)
  <2>1. CASE out # None
    BY <1>6, <2>1, PrivateStep DEF LookInstalled, IInv, Typed
  <2>2. CASE out = None
    BY <1>6, <2>2, PrivateStep DEF LookInstalled, IInv, Typed, MarkedFirst
  <2> QED BY <2>1, <2>2
<1>7. CASE Load(p)
  <2>1. PICK l \in {"loaded", "raised", "relock"} : Goto(p, l)
    BY <1>7 DEF Load, Raise
  <2> QED BY <1>7, <2>1, PrivateStep DEF Load, IInv, Typed
<1>8. CASE LookKept(p)
  <2>1. PICK l \in {"load", "raised"} : Goto(p, l)
    BY <1>8 DEF LookKept, Raise
  <2> QED BY <1>8, <2>1, PrivateStep DEF LookKept, IInv, Typed
<1> QED BY <1>1, <1>2, <1>3, <1>4, <1>5, <1>6, <1>7, <1>8

\* Every step keeps the invariant.
LEMMA StepKeeps ==
  ASSUME Locks, IInv, [Next]_vars PROVE IInv'
<1>1. CASE UNCHANGED vars
  BY <1>1 DEF vars, IInv, Typed, Exclusive, MarkedFirst, Unmarking, FallbackPossible
<1>2. CASE Next
  <2> PICK p \in Procs :
        \/ Look(p) \/ Lock(p) \/ LookAgain(p) \/ CopyPrebuilt(p) \/ CopyFails(p)
        \/ CompileLibrary(p) \/ BuildFails(p) \/ LookInstalled(p) \/ Rename(p)
        \/ Load(p) \/ CheckMark(p) \/ LookKept(p) \/ Unmark(p) \/ Crash(p)
    BY <1>2 DEF Next
  <2> QED
    BY LockStep, CopyStep, RenameStep, CheckStep, UnmarkStep, CrashStep, OtherStep
<1> QED BY <1>1, <1>2

\* Where files can be locked, a shipped library is never visible without its
\* mark (_install_prebuilt, _load_or_compile): whoever it does not load in can
\* replace it, whoever crashed between the two files.
THEOREM FallbackAlways ==
  ASSUME Locks PROVE Spec => []FallbackPossible
<1>1. Init => IInv BY InitEstablishes
<1>2. IInv /\ [Next]_vars => IInv' BY StepKeeps
<1>3. IInv => FallbackPossible BY DEF IInv
<1> QED BY <1>1, <1>2, <1>3, PTL DEF Spec

-----------------------------------------------------------------------------
(* Why a process ends for want of a library, as long as none has crashed.   *)

Blame(p) == \E q \in Procs \ {p} : ~pre[q] \/ tmp[q] = "prebuilt"

TypedToo ==
  /\ pre \in [Procs -> BOOLEAN] /\ last \in [Procs -> BOOLEAN]
  /\ why \in [Procs -> {None, "build", "load"}] /\ crashes \in Nat

\* A process that gave up may have left the mark of a shipped library that it
\* did not install.
Failed == \E q \in Procs : pc[q] = "raised" /\ tmp[q] = "prebuilt"

\* A mark is a shipped library's, there, about to be there or just gone; what
\* is compiled is not marked, so it is not taken away, unless an install failed.
Marks ==
  /\ out = "compiled" => ~mark \/ Failed
  /\ out = None /\ mark =>
       \/ \E q \in Procs : \/ pc[q] = "unmark"
                           \/ pc[q] \in {"install", "rename"} /\ tmp[q] = "prebuilt"
       \/ Failed
  /\ \A p \in Procs :
       pc[p] \in {"install", "rename"} /\ tmp[p] = "compiled" => ~mark \/ Failed

\* A process builds while there is no library, and what it may take.
Building ==
  \A p \in Procs :
    /\ pc[p] \in {"copy", "compile", "install", "rename"} => out = None
    /\ pc[p] = "copy" => pre[p]
    /\ pc[p] \in {"install", "rename"} =>
         tmp[p] = "compiled" \/ (tmp[p] = "prebuilt" /\ pre[p])

\* How far a process is: its first build, a library another one has put in the
\* place of its own, or a build of its own without the shipped one.
Stages ==
  \A p \in Procs :
    /\ pc[p] = "unmark" \/ ~pre[p] => last[p]
    /\ pc[p] \in {"relock", "check"} => ~last[p]
    /\ pc[p] = "kept" => last[p] /\ pre[p]
    /\ last[p] /\ pre[p] => pc[p] \in {"unmark", "kept", "load", "loaded", "raised"}
    /\ pre[p] /\ tmp[p] = "prebuilt" =>
         pc[p] \notin {"look", "lock", "again", "copy", "compile"}

\* What a process about to load finds.
Finds ==
  \A p \in Procs :
    /\ pc[p] \in {"kept", "load"} /\ last[p] /\ pre[p] =>
         (out = "compiled" /\ ~mark) \/ \E q \in Procs \ {p} : ~pre[q]
    /\ pc[p] = "load" /\ ~pre[p] => out = "compiled" \/ Blame(p)
    /\ pc[p] \in {"load", "relock", "check"} /\ ~last[p] =>
         \/ out # None
         \/ \E q \in Procs \ {p} : ~pre[q] \/ pc[q] = "unmark"

\* A process that has taken the shipped library away meets it again only if
\* another one has put it back.
PutBack == \A p \in Procs : ~pre[p] /\ out = "prebuilt" => Blame(p)

Calm == TypedToo /\ Marks /\ Building /\ Stages /\ Finds /\ PutBack /\ LoadFallsBack

LInv == IInv /\ TypedToo /\ (crashes = 0 => Calm)

\* What a step of one process may change of the others: nothing.
LEMMA OwnWords ==
  ASSUME Typed, TypedToo, NEW p \in Procs,
         \/ Look(p) \/ Lock(p) \/ LookAgain(p) \/ CopyPrebuilt(p) \/ CopyFails(p)
         \/ CompileLibrary(p) \/ BuildFails(p) \/ LookInstalled(p) \/ Rename(p)
         \/ Load(p) \/ CheckMark(p) \/ LookKept(p) \/ Unmark(p)
  PROVE  /\ TypedToo' /\ crashes' = crashes
         /\ \A q \in Procs \ {p} :
              /\ pc'[q] = pc[q] /\ tmp'[q] = tmp[q] /\ pre'[q] = pre[q]
              /\ last'[q] = last[q] /\ why'[q] = why[q]
<1> USE DEF Typed, TypedToo, Goto, Raise, PCs, Inside, Kinds
<1>1. CASE Look(p) BY <1>1 DEF Look
<1>2. CASE Lock(p) BY <1>2 DEF Lock
<1>3. CASE LookAgain(p) BY <1>3 DEF LookAgain
<1>4. CASE CopyPrebuilt(p) BY <1>4 DEF CopyPrebuilt
<1>5. CASE CopyFails(p) BY <1>5 DEF CopyFails
<1>6. CASE CompileLibrary(p) BY <1>6 DEF CompileLibrary
<1>7. CASE BuildFails(p) BY <1>7 DEF BuildFails
<1>8. CASE LookInstalled(p) BY <1>8 DEF LookInstalled
<1>9. CASE Rename(p) BY <1>9 DEF Rename
<1>10. CASE Load(p) BY <1>10 DEF Load
<1>11. CASE CheckMark(p) BY <1>11 DEF CheckMark
<1>12. CASE Unmark(p) BY <1>12 DEF Unmark
<1>13. CASE LookKept(p) BY <1>13 DEF LookKept
<1> QED BY <1>1, <1>2, <1>3, <1>4, <1>5, <1>6, <1>7, <1>8, <1>9, <1>10, <1>11, <1>12,
           <1>13

\* The library is there, or it has to be built.
LEMMA CalmLook ==
  ASSUME IInv, Calm, crashes = 0, NEW p \in Procs, Look(p) PROVE Calm'
<1> USE DEF IInv, Calm, Typed, TypedToo
<1>0. /\ TypedToo' /\ crashes' = crashes
      /\ \A q \in Procs \ {p} :
           /\ pc'[q] = pc[q] /\ tmp'[q] = tmp[q] /\ pre'[q] = pre[q]
           /\ last'[q] = last[q] /\ why'[q] = why[q]
  BY OwnWords
<1> USE <1>0 DEF Look, Goto, Raise, files, Inside, PCs, Kinds, None
<1>1. Marks'
  BY DEF Marks, Failed, Building, Stages, Exclusive
<1>2. Building'
  BY DEF Building, Exclusive, Shipped
<1>3. Stages'
  BY DEF Stages, Marked
<1>4. Finds'
  BY DEF Finds, Stages, Building, Marks, Failed, PutBack, Blame, FallbackPossible, Exclusive, Marked
<1>5. PutBack'
  BY DEF PutBack, Building, Stages, Blame
<1>6. LoadFallsBack'
  BY DEF LoadFallsBack, Finds, Stages, Building, Exclusive, Blame, Loads, Marked
<1> QED BY <1>1, <1>2, <1>3, <1>4, <1>5, <1>6

\* Whoever takes the lock keeps what it found.
LEMMA CalmLock ==
  ASSUME IInv, Calm, crashes = 0, NEW p \in Procs, Lock(p) PROVE Calm'
<1> USE DEF IInv, Calm, Typed, TypedToo
<1>0. /\ TypedToo' /\ crashes' = crashes
      /\ \A q \in Procs \ {p} :
           /\ pc'[q] = pc[q] /\ tmp'[q] = tmp[q] /\ pre'[q] = pre[q]
           /\ last'[q] = last[q] /\ why'[q] = why[q]
  BY OwnWords
<1> USE <1>0 DEF Lock, Goto, Raise, files, Inside, PCs, Kinds, None
<1>1. Marks'
  BY DEF Marks, Failed, Building, Stages, Exclusive
<1>2. Building'
  BY DEF Building, Exclusive, Shipped
<1>3. Stages'
  BY DEF Stages, Marked
<1>4. Finds'
  BY DEF Finds, Stages, Building, Marks, Failed, PutBack, Blame, FallbackPossible, Exclusive, Marked
<1>5. PutBack'
  BY DEF PutBack, Building, Stages, Blame
<1>6. LoadFallsBack'
  BY DEF LoadFallsBack, Finds, Stages, Building, Exclusive, Blame, Loads, Marked
<1> QED BY <1>1, <1>2, <1>3, <1>4, <1>5, <1>6

\* Under the lock there is a library, or none until this process installs one.
LEMMA CalmLookAgain ==
  ASSUME IInv, Calm, crashes = 0, NEW p \in Procs, LookAgain(p) PROVE Calm'
<1> USE DEF IInv, Calm, Typed, TypedToo
<1>0. /\ TypedToo' /\ crashes' = crashes
      /\ \A q \in Procs \ {p} :
           /\ pc'[q] = pc[q] /\ tmp'[q] = tmp[q] /\ pre'[q] = pre[q]
           /\ last'[q] = last[q] /\ why'[q] = why[q]
  BY OwnWords
<1> USE <1>0 DEF LookAgain, Goto, Raise, files, Inside, PCs, Kinds, None
<1>1. Marks'
  BY DEF Marks, Failed, Building, Stages, Exclusive
<1>2. Building'
  BY DEF Building, Exclusive, Shipped
<1>3. Stages'
  BY DEF Stages, Marked
<1>4. Finds'
  BY DEF Finds, Stages, Building, Marks, Failed, PutBack, Blame, FallbackPossible, Exclusive, Marked
<1>5. PutBack'
  BY DEF PutBack, Building, Stages, Blame
<1>6. LoadFallsBack'
  BY DEF LoadFallsBack, Finds, Stages, Building, Exclusive, Blame, Loads, Marked
<1> QED BY <1>1, <1>2, <1>3, <1>4, <1>5, <1>6

\* The mark of a library about to be there.
LEMMA CalmCopyPrebuilt ==
  ASSUME IInv, Calm, crashes = 0, NEW p \in Procs, CopyPrebuilt(p) PROVE Calm'
<1> USE DEF IInv, Calm, Typed, TypedToo
<1>0. /\ TypedToo' /\ crashes' = crashes
      /\ \A q \in Procs \ {p} :
           /\ pc'[q] = pc[q] /\ tmp'[q] = tmp[q] /\ pre'[q] = pre[q]
           /\ last'[q] = last[q] /\ why'[q] = why[q]
  BY OwnWords
<1> USE <1>0 DEF CopyPrebuilt, Goto, Raise, files, Inside, PCs, Kinds, None
<1>1. Marks'
  BY DEF Marks, Failed, Building, Stages, Exclusive
<1>2. Building'
  BY DEF Building, Exclusive, Shipped
<1>3. Stages'
  BY DEF Stages, Marked
<1>4. Finds'
  BY DEF Finds, Stages, Building, Marks, Failed, PutBack, Blame, FallbackPossible, Exclusive, Marked
<1>5. PutBack'
  BY DEF PutBack, Building, Stages, Blame
<1>6. LoadFallsBack'
  BY DEF LoadFallsBack, Finds, Stages, Building, Exclusive, Blame, Loads, Marked
<1> QED BY <1>1, <1>2, <1>3, <1>4, <1>5, <1>6

\* Without a copy the mark has not been made.
LEMMA CalmCopyFails ==
  ASSUME IInv, Calm, crashes = 0, NEW p \in Procs, CopyFails(p) PROVE Calm'
<1> USE DEF IInv, Calm, Typed, TypedToo
<1>0. /\ TypedToo' /\ crashes' = crashes
      /\ \A q \in Procs \ {p} :
           /\ pc'[q] = pc[q] /\ tmp'[q] = tmp[q] /\ pre'[q] = pre[q]
           /\ last'[q] = last[q] /\ why'[q] = why[q]
  BY OwnWords
<1> USE <1>0 DEF CopyFails, Goto, Raise, files, Inside, PCs, Kinds, None
<1>1. Marks'
  BY DEF Marks, Failed, Building, Stages, Exclusive
<1>2. Building'
  BY DEF Building, Exclusive, Shipped
<1>3. Stages'
  BY DEF Stages, Marked
<1>4. Finds'
  BY DEF Finds, Stages, Building, Marks, Failed, PutBack, Blame, FallbackPossible, Exclusive, Marked
<1>5. PutBack'
  BY DEF PutBack, Building, Stages, Blame
<1>6. LoadFallsBack'
  BY DEF LoadFallsBack, Finds, Stages, Building, Exclusive, Blame, Loads, Marked
<1> QED BY <1>1, <1>2, <1>3, <1>4, <1>5, <1>6

\* Nothing is marked while a compiled library is built.
LEMMA CalmCompileLibrary ==
  ASSUME IInv, Calm, crashes = 0, NEW p \in Procs, CompileLibrary(p) PROVE Calm'
<1> USE DEF IInv, Calm, Typed, TypedToo
<1>0. /\ TypedToo' /\ crashes' = crashes
      /\ \A q \in Procs \ {p} :
           /\ pc'[q] = pc[q] /\ tmp'[q] = tmp[q] /\ pre'[q] = pre[q]
           /\ last'[q] = last[q] /\ why'[q] = why[q]
  BY OwnWords
<1> USE <1>0 DEF CompileLibrary, Goto, Raise, files, Inside, PCs, Kinds, None
<1>1. Marks'
  BY DEF Marks, Failed, Building, Stages, Exclusive
<1>2. Building'
  BY DEF Building, Exclusive, Shipped
<1>3. Stages'
  BY DEF Stages, Marked
<1>4. Finds'
  BY DEF Finds, Stages, Building, Marks, Failed, PutBack, Blame, FallbackPossible, Exclusive, Marked
<1>5. PutBack'
  BY DEF PutBack, Building, Stages, Blame
<1>6. LoadFallsBack'
  BY DEF LoadFallsBack, Finds, Stages, Building, Exclusive, Blame, Loads, Marked
<1> QED BY <1>1, <1>2, <1>3, <1>4, <1>5, <1>6

\* A failed build leaves no library to load.
LEMMA CalmBuildFails ==
  ASSUME IInv, Calm, crashes = 0, NEW p \in Procs, BuildFails(p) PROVE Calm'
<1> USE DEF IInv, Calm, Typed, TypedToo
<1>0. /\ TypedToo' /\ crashes' = crashes
      /\ \A q \in Procs \ {p} :
           /\ pc'[q] = pc[q] /\ tmp'[q] = tmp[q] /\ pre'[q] = pre[q]
           /\ last'[q] = last[q] /\ why'[q] = why[q]
  BY OwnWords
<1> USE <1>0 DEF BuildFails, Goto, Raise, files, Inside, PCs, Kinds, None
<1>1. Marks'
  BY DEF Marks, Failed, Building, Stages, Exclusive
<1>2. Building'
  BY DEF Building, Exclusive, Shipped
<1>3. Stages'
  BY DEF Stages, Marked
<1>4. Finds'
  BY DEF Finds, Stages, Building, Marks, Failed, PutBack, Blame, FallbackPossible, Exclusive, Marked
<1>5. PutBack'
  BY DEF PutBack, Building, Stages, Blame
<1>6. LoadFallsBack'
  BY DEF LoadFallsBack, Finds, Stages, Building, Exclusive, Blame, Loads, Marked
<1> QED BY <1>1, <1>2, <1>3, <1>4, <1>5, <1>6

\* Nobody else has installed a library under this lock.
LEMMA CalmLookInstalled ==
  ASSUME IInv, Calm, crashes = 0, NEW p \in Procs, LookInstalled(p) PROVE Calm'
<1> USE DEF IInv, Calm, Typed, TypedToo
<1>0. /\ TypedToo' /\ crashes' = crashes
      /\ \A q \in Procs \ {p} :
           /\ pc'[q] = pc[q] /\ tmp'[q] = tmp[q] /\ pre'[q] = pre[q]
           /\ last'[q] = last[q] /\ why'[q] = why[q]
  BY OwnWords
<1> USE <1>0 DEF LookInstalled, Goto, Raise, files, Inside, PCs, Kinds, None
<1>1. Marks'
  BY DEF Marks, Failed, Building, Stages, Exclusive
<1>2. Building'
  BY DEF Building, Exclusive, Shipped
<1>3. Stages'
  BY DEF Stages, Marked
<1>4. Finds'
  BY DEF Finds, Stages, Building, Marks, Failed, PutBack, Blame, FallbackPossible, Exclusive, Marked
<1>5. PutBack'
  BY DEF PutBack, Building, Stages, Blame
<1>6. LoadFallsBack'
  BY DEF LoadFallsBack, Finds, Stages, Building, Exclusive, Blame, Loads, Marked
<1> QED BY <1>1, <1>2, <1>3, <1>4, <1>5, <1>6

\* What appears is compiled, or shipped and marked; who removed one sees who put it back.
LEMMA CalmRename ==
  ASSUME IInv, Calm, crashes = 0, NEW p \in Procs, Rename(p) PROVE Calm'
<1> USE DEF IInv, Calm, Typed, TypedToo
<1>0. /\ TypedToo' /\ crashes' = crashes
      /\ \A q \in Procs \ {p} :
           /\ pc'[q] = pc[q] /\ tmp'[q] = tmp[q] /\ pre'[q] = pre[q]
           /\ last'[q] = last[q] /\ why'[q] = why[q]
  BY OwnWords
<1> USE <1>0 DEF Rename, Goto, Raise, files, Inside, PCs, Kinds, None
<1>1. Marks'
  BY DEF Marks, Failed, Building, Stages, Exclusive
<1>2. Building'
  BY DEF Building, Exclusive, Shipped
<1>3. Stages'
  BY DEF Stages, Marked
<1>4. Finds'
  BY DEF Finds, Stages, Building, Marks, Failed, PutBack, Blame, FallbackPossible, Exclusive, Marked
<1>5. PutBack'
  BY DEF PutBack, Building, Stages, Blame
<1>6. LoadFallsBack'
  BY DEF LoadFallsBack, Finds, Stages, Building, Exclusive, Blame, Loads, Marked
<1> QED BY <1>1, <1>2, <1>3, <1>4, <1>5, <1>6

\* A load that fails for good has somebody to blame.
LEMMA CalmLoad ==
  ASSUME IInv, Calm, crashes = 0, NEW p \in Procs, Load(p) PROVE Calm'
<1> USE DEF IInv, Calm, Typed, TypedToo
<1>0. /\ TypedToo' /\ crashes' = crashes
      /\ \A q \in Procs \ {p} :
           /\ pc'[q] = pc[q] /\ tmp'[q] = tmp[q] /\ pre'[q] = pre[q]
           /\ last'[q] = last[q] /\ why'[q] = why[q]
  BY OwnWords
<1> USE <1>0 DEF Load, Goto, Raise, files, Inside, PCs, Kinds, None
<1>1. Marks'
  BY DEF Marks, Failed, Building, Stages, Exclusive
<1>2. Building'
  BY DEF Building, Exclusive, Shipped
<1>3. Stages'
  BY DEF Stages, Marked
<1>4. Finds'
  BY DEF Finds, Stages, Building, Marks, Failed, PutBack, Blame, FallbackPossible, Exclusive, Marked
<1>5. PutBack'
  BY DEF PutBack, Building, Stages, Blame
<1>6. LoadFallsBack'
  BY DEF LoadFallsBack, Finds, Stages, Building, Exclusive, Blame, Loads, Marked
<1> QED BY <1>1, <1>2, <1>3, <1>4, <1>5, <1>6

\* Only a marked library goes.
LEMMA CalmCheckMark ==
  ASSUME IInv, Calm, crashes = 0, NEW p \in Procs, CheckMark(p) PROVE Calm'
<1> USE DEF IInv, Calm, Typed, TypedToo
<1>0. /\ TypedToo' /\ crashes' = crashes
      /\ \A q \in Procs \ {p} :
           /\ pc'[q] = pc[q] /\ tmp'[q] = tmp[q] /\ pre'[q] = pre[q]
           /\ last'[q] = last[q] /\ why'[q] = why[q]
  BY OwnWords
<1> USE <1>0 DEF CheckMark, Goto, Raise, files, Inside, PCs, Kinds, None
<1>1. Marks'
  BY DEF Marks, Failed, Building, Stages, Exclusive
<1>2. Building'
  BY DEF Building, Exclusive, Shipped
<1>3. Stages'
  BY DEF Stages, Marked
<1>4. Finds'
  BY DEF Finds, Stages, Building, Marks, Failed, PutBack, Blame, FallbackPossible, Exclusive, Marked
<1>5. PutBack'
  BY DEF PutBack, Building, Stages, Blame
<1>6. LoadFallsBack'
  BY DEF LoadFallsBack, Finds, Stages, Building, Exclusive, Blame, Loads, Marked
<1> QED BY <1>1, <1>2, <1>3, <1>4, <1>5, <1>6

\* A process that finds nothing knows who took it.
LEMMA CalmLookKept ==
  ASSUME IInv, Calm, crashes = 0, NEW p \in Procs, LookKept(p) PROVE Calm'
<1> USE DEF IInv, Calm, Typed, TypedToo
<1>0. /\ TypedToo' /\ crashes' = crashes
      /\ \A q \in Procs \ {p} :
           /\ pc'[q] = pc[q] /\ tmp'[q] = tmp[q] /\ pre'[q] = pre[q]
           /\ last'[q] = last[q] /\ why'[q] = why[q]
  BY OwnWords
<1> USE <1>0 DEF LookKept, Goto, Raise, files, Inside, PCs, Kinds, None
<1>1. Marks'
  BY DEF Marks, Failed, Building, Stages, Exclusive
<1>2. Building'
  BY DEF Building, Exclusive, Shipped
<1>3. Stages'
  BY DEF Stages, Marked
<1>4. Finds'
  BY DEF Finds, Stages, Building, Marks, Failed, PutBack, Blame, FallbackPossible, Exclusive, Marked
<1>5. PutBack'
  BY DEF PutBack, Building, Stages, Blame
<1>6. LoadFallsBack'
  BY DEF LoadFallsBack, Finds, Stages, Building, Exclusive, Blame, Loads, Marked
<1> QED BY <1>1, <1>2, <1>3, <1>4, <1>5, <1>6

\* From here on this process builds without the shipped library.
LEMMA CalmUnmark ==
  ASSUME IInv, Calm, crashes = 0, NEW p \in Procs, Unmark(p) PROVE Calm'
<1> USE DEF IInv, Calm, Typed, TypedToo
<1>0. /\ TypedToo' /\ crashes' = crashes
      /\ \A q \in Procs \ {p} :
           /\ pc'[q] = pc[q] /\ tmp'[q] = tmp[q] /\ pre'[q] = pre[q]
           /\ last'[q] = last[q] /\ why'[q] = why[q]
  BY OwnWords
<1> USE <1>0 DEF Unmark, Goto, Raise, files, Inside, PCs, Kinds, None
<1>1. Marks'
  BY DEF Marks, Failed, Building, Stages, Exclusive
<1>2. Building'
  BY DEF Building, Exclusive, Shipped
<1>3. Stages'
  BY DEF Stages, Marked, Unmarking
<1>4. Finds'
  BY DEF Finds, Stages, Building, Marks, Failed, PutBack, Blame, FallbackPossible, Exclusive, Marked
<1>5. PutBack'
  BY DEF PutBack, Building, Stages, Blame, Unmarking
<1>6. LoadFallsBack'
  BY DEF LoadFallsBack, Finds, Stages, Building, Exclusive, Blame, Loads, Marked
<1> QED BY <1>1, <1>2, <1>3, <1>4, <1>5, <1>6

\* As long as no process crashes, whatever they do.
LEMMA CalmStep ==
  ASSUME Locks, LInv, [Next]_vars PROVE LInv'
<1>1. IInv'
  BY StepKeeps DEF LInv
<1>2. CASE UNCHANGED vars
  <2>1. TypedToo' /\ crashes' = crashes
    BY <1>2 DEF vars, LInv, TypedToo
  <2>2. Calm => Calm'
    BY <1>2, <2>1 DEF vars, Calm, Marks, Building, Stages, Finds, PutBack,
                      LoadFallsBack, Blame, Failed
  <2> QED BY <1>1, <2>1, <2>2 DEF LInv
<1>3. CASE \E p \in Procs : Crash(p)
  <2>1. crashes' = crashes + 1 /\ crashes' # 0
    BY <1>3 DEF Crash, LInv, TypedToo
  <2>2. TypedToo'
    BY <1>3, <2>1 DEF Crash, LInv, TypedToo, None
  <2> QED BY <1>1, <2>1, <2>2 DEF LInv
<1>4. ASSUME NEW p \in Procs,
             \/ Look(p) \/ Lock(p) \/ LookAgain(p) \/ CopyPrebuilt(p)
             \/ CopyFails(p) \/ CompileLibrary(p) \/ BuildFails(p)
             \/ LookInstalled(p) \/ Rename(p) \/ Load(p) \/ CheckMark(p)
             \/ LookKept(p) \/ Unmark(p)
      PROVE  LInv'
  <2>1. TypedToo' /\ crashes' = crashes
    BY <1>4, OwnWords DEF LInv, IInv
  <2>2. crashes = 0 => Calm'
    BY <1>4, CalmLook, CalmLock, CalmLookAgain, CalmCopyPrebuilt, CalmCopyFails,
       CalmCompileLibrary, CalmBuildFails, CalmLookInstalled, CalmRename,
       CalmLoad, CalmCheckMark, CalmLookKept, CalmUnmark DEF LInv
  <2> QED BY <1>1, <2>1, <2>2 DEF LInv
<1> QED BY <1>2, <1>3, <1>4 DEF Next

\* Where files can be locked, a process that ends although there was a library
\* to load, or one to compile, has met another that was replacing it
\* (_load_or_compile): on its own it always falls back.
THEOREM FallsBackAlways ==
  ASSUME Locks PROVE Spec => []LoadFallsBack
<1>1. Init => LInv
  <2>1. Init => IInv /\ TypedToo
    BY InitEstablishes DEF Init, TypedToo, None
  <2>2. Init => Calm
    BY <2>1 DEF Init, Calm, Marks, Building, Stages, Finds, PutBack, LoadFallsBack, None
  <2> QED BY <2>1, <2>2 DEF LInv
<1>2. LInv /\ [Next]_vars => LInv' BY CalmStep
<1>3. LInv => LoadFallsBack BY DEF LInv, Calm, LoadFallsBack
<1> QED BY <1>1, <1>2, <1>3, PTL DEF Spec

=============================================================================
