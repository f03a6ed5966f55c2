--------------------------- MODULE BoundedCalls ---------------------------
(***************************************************************************)
(* What a caller of distributed/store_worker.py is promised, without the   *)
(* threads, the queues and the lock that keep the promise: a call ends     *)
(* with an answer or is given up, a call given up stays behind as one      *)
(* blocked thread until its operation returns, and no call starts while as *)
(* many threads are blocked as the worker tolerates.  StoreWorker.tla      *)
(* implements this module.                                                 *)
(***************************************************************************)
EXTENDS Naturals, FiniteSets

CONSTANTS
  Threads,   \* the threads a worker may start
  Values,    \* what an operation may answer
  Limits     \* values of max_abandoned; 0 stands for None

VARIABLES
  limit,     \* max_abandoned of this worker
  calling,   \* a caller is inside run()
  late,      \* threads whose caller gave up and whose operation still blocks
  ret        \* what the last call returned; Python's None is "refused" when
             \* the call did not start, else "none"

vars == <<limit, calling, late, ret>>

Full == limit # 0 /\ Cardinality(late) >= limit

Init ==
  /\ limit \in Limits
  /\ calling = FALSE
  /\ late = {}
  /\ ret = "none"

Refuse ==
  /\ ~calling /\ Full
  /\ ret' = "refused"
  /\ UNCHANGED <<limit, calling, late>>

Begin ==
  /\ ~calling /\ ~Full
  /\ calling' = TRUE
  /\ UNCHANGED <<limit, late, ret>>

Answer ==
  /\ calling
  /\ calling' = FALSE
  /\ ret' \in Values \cup {"none"}
  /\ UNCHANGED <<limit, late>>

GiveUp(t) ==
  /\ calling /\ t \notin late
  /\ calling' = FALSE
  /\ late' = late \cup {t}
  /\ ret' = "none"
  /\ UNCHANGED limit

Return(t) ==
  /\ t \in late
  /\ late' = late \ {t}
  /\ UNCHANGED <<limit, calling, ret>>

Next ==
  \/ Refuse \/ Begin \/ Answer
  \/ \E t \in Threads : GiveUp(t) \/ Return(t)

Spec == Init /\ [][Next]_vars

(* The limit is a limit: never more blocked threads than max_abandoned,    *)
(* although a call in progress may still be given up.                      *)
BlockedBounded == limit # 0 => Cardinality(late) <= limit
=============================================================================
