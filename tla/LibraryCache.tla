---------------------------- MODULE LibraryCache ----------------------------
(***************************************************************************)
(* The cache of a native library (native/__init__.py): several processes   *)
(* look for it under the name of its hash, build it under a file lock or   *)
(* copy the one the wheel ships, load it, and replace a shipped one that   *)
(* does not load where they run.  The file system is shared (the cache may *)
(* be on a network home), and a process may die between any two steps.     *)
(***************************************************************************)
EXTENDS Naturals, TLC

CONSTANTS
  Procs,
  Locks,      \* whether the file system honours flock
  MaxCrashes  \* bound: processes that die and start again

None == "none"
NoOne == "noone"

ASSUME CacheAssumption == Locks \in BOOLEAN /\ NoOne \notin Procs

VARIABLES
  out,       \* the library under its final name: none, "prebuilt", "compiled"
  mark,      \* whether the mark of a shipped library is there
  holder,    \* the process that holds the lock file
  ships,     \* the wheel has a library whose manifest matches
  compiler,  \* there is a compiler here
  fits,      \* the processes the shipped library loads in
  pc, tmp,   \* where a process is; what it has built in scratch
  pre,       \* build(prebuilt=...): it may take the shipped one
  last,      \* a load that fails now is an error
  why,       \* what it raised: "build", "load"
  crashes

files == <<out, mark>>
world == <<ships, compiler, fits>>
procs == <<pc, tmp, pre, last, why>>
vars  == <<out, mark, holder, ships, compiler, fits, pc, tmp, pre, last, why,
           crashes>>

Init ==
  /\ out = None /\ mark = FALSE /\ holder = NoOne
  /\ ships \in BOOLEAN /\ compiler \in BOOLEAN /\ fits \in SUBSET Procs
  /\ pc = [p \in Procs |-> "look"] /\ tmp = [p \in Procs |-> None]
  /\ pre = [p \in Procs |-> TRUE] /\ last = [p \in Procs |-> FALSE]
  /\ why = [p \in Procs |-> None]
  /\ crashes = 0

Goto(p, l) == pc' = [pc EXCEPT ![p] = l]
Release(p) == holder' = IF holder = p THEN NoOne ELSE holder
Raise(p, w) == Goto(p, "raised") /\ why' = [why EXCEPT ![p] = w]

\* build(): the library is there, or the lock has to be taken.
Look(p) ==
  /\ pc[p] = "look"
  /\ Goto(p, IF out # None THEN "load" ELSE "lock")
  /\ UNCHANGED <<files, holder, world, tmp, pre, last, why, crashes>>

\* Without locks everyone holds it.
Lock(p) ==
  /\ pc[p] \in {"lock", "relock"}
  /\ IF Locks THEN holder = NoOne /\ holder' = p ELSE UNCHANGED holder
  /\ Goto(p, IF pc[p] = "lock" THEN "again" ELSE "check")
  /\ UNCHANGED <<files, world, tmp, pre, last, why, crashes>>

\* Under the lock: another process may have built it meanwhile.
Shipped(p) == pre[p] /\ ships

LookAgain(p) ==
  /\ pc[p] = "again"
  /\ IF out # None THEN Goto(p, "load") /\ Release(p)
     ELSE Goto(p, IF Shipped(p) THEN "copy" ELSE "compile") /\ UNCHANGED holder
  /\ UNCHANGED <<files, world, tmp, pre, last, why, crashes>>

\* The shipped library: marked first, a library visible without its mark
\* could not fall back.
\* Mutant: a library that was shipped is not marked.
Bug_CopyPrebuilt(p) ==
  /\ pc[p] = "copy"
  /\ tmp' = [tmp EXCEPT ![p] = "prebuilt"]
  /\ Goto(p, "install")
  /\ UNCHANGED <<files, holder, world, pre, last, why, crashes>>
CopyPrebuilt(p) ==
  /\ pc[p] = "copy"
  /\ tmp' = [tmp EXCEPT ![p] = "prebuilt"]
  /\ mark' = TRUE
  /\ Goto(p, "install")
  /\ UNCHANGED <<out, holder, world, pre, last, why, crashes>>

CopyFails(p) ==
  /\ pc[p] = "copy" /\ Goto(p, "compile")
  /\ UNCHANGED <<files, holder, world, tmp, pre, last, why, crashes>>

CompileLibrary(p) ==
  /\ pc[p] = "compile" /\ compiler
  /\ tmp' = [tmp EXCEPT ![p] = "compiled"]
  /\ Goto(p, "install")
  /\ UNCHANGED <<files, holder, world, pre, last, why, crashes>>

\* No compiler, or the build failed; or the cache cannot be written, before
\* the mark or after it.
BuildFails(p) ==
  /\ pc[p] \in {"copy", "compile", "install", "rename"}
  /\ Raise(p, "build") /\ Release(p)
  /\ UNCHANGED <<files, world, tmp, pre, last, crashes>>

\* _atomic_install: a library that came meanwhile is kept.
LookInstalled(p) ==
  /\ pc[p] = "install"
  /\ IF out # None THEN Goto(p, "load") /\ Release(p)
     ELSE Goto(p, "rename") /\ UNCHANGED holder
  /\ UNCHANGED <<files, world, tmp, pre, last, why, crashes>>

Rename(p) ==
  /\ pc[p] = "rename"
  /\ out' = tmp[p]
  /\ Goto(p, "load") /\ Release(p)
  /\ UNCHANGED <<mark, world, tmp, pre, last, why, crashes>>

Loads(p) == out = "compiled" \/ (out = "prebuilt" /\ p \in fits)

Load(p) ==
  /\ pc[p] = "load"
  /\ IF Loads(p) THEN Goto(p, "loaded") /\ UNCHANGED why
     ELSE IF last[p] THEN Raise(p, "load")
     ELSE Goto(p, "relock") /\ UNCHANGED why
  /\ UNCHANGED <<files, holder, world, tmp, pre, last, crashes>>

\* The library is removed although it is not a shipped one: what another
\* process has compiled meanwhile goes too.
Bug_Marked == TRUE
\* Whether the library that did not load is still the shipped one.
Marked == mark

\* _load_or_compile: a marked library is removed, then its mark; an unmarked
\* one is what another process put there ...
CheckMark(p) ==
  /\ pc[p] = "check"
  /\ last' = [last EXCEPT ![p] = TRUE]
  /\ IF Marked THEN out' = None /\ Goto(p, "unmark") /\ UNCHANGED holder
     ELSE Goto(p, "kept") /\ Release(p) /\ UNCHANGED out
  /\ UNCHANGED <<mark, world, tmp, pre, why, crashes>>

\* ... and is loaded as it is, if it is still there once the lock is free.
LookKept(p) ==
  /\ pc[p] = "kept"
  /\ IF out = None THEN Raise(p, "load") ELSE Goto(p, "load") /\ UNCHANGED why
  /\ UNCHANGED <<files, holder, world, tmp, pre, last, crashes>>

\* Then it builds one that is compiled here.
Unmark(p) ==
  /\ pc[p] = "unmark"
  /\ mark' = FALSE /\ Release(p)
  /\ pre' = [pre EXCEPT ![p] = FALSE]
  /\ Goto(p, "look")
  /\ UNCHANGED <<out, world, tmp, last, why, crashes>>

\* The process dies, its lock with it, and is started again.
Crash(p) ==
  /\ crashes < MaxCrashes /\ crashes' = crashes + 1
  /\ Goto(p, "look") /\ Release(p)
  /\ tmp' = [tmp EXCEPT ![p] = None] /\ pre' = [pre EXCEPT ![p] = TRUE]
  /\ last' = [last EXCEPT ![p] = FALSE] /\ why' = [why EXCEPT ![p] = None]
  /\ UNCHANGED <<files, world>>

Next ==
  \E p \in Procs :
    \/ Look(p) \/ Lock(p) \/ LookAgain(p) \/ CopyPrebuilt(p) \/ CopyFails(p)
    \/ CompileLibrary(p) \/ BuildFails(p) \/ LookInstalled(p) \/ Rename(p)
    \/ Load(p) \/ CheckMark(p) \/ LookKept(p) \/ Unmark(p) \/ Crash(p)

Spec == Init /\ [][Next]_vars

-----------------------------------------------------------------------------
(* Properties.                                                              *)

\* A shipped library is never visible without its mark, whoever removes one
\* or dies meanwhile: a process it does not load in could not replace it.
FallbackPossible == out = "prebuilt" => mark

\* A process whose shipped library does not load ends with one compiled here,
\* or because it cannot compile.  It fails for want of a library that loads
\* only if another process came between: that one has taken the library away
\* to replace it, or, after this one has, put the shipped one back or failed
\* to, which leaves its mark.
LoadFallsBack ==
  crashes = 0 =>
    \A p \in Procs : why[p] = "load" =>
      \E q \in Procs \ {p} : ~pre[q] \/ (~pre[p] /\ tmp[q] = "prebuilt")

Sym == Permutations(Procs)
=============================================================================
