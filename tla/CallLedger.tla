----------------------------- MODULE CallLedger -----------------------------
(***************************************************************************)
(* What a communicator's completion queue promises about the calls it is   *)
(* handed, without the table, the slots, the events and the lock-free      *)
(* retirers that keep the promise: every call is queued or untracked, the  *)
(* queue is left in the order of the calls and only by finished ones, only *)
(* calls that left it are stamped in the flight recorder, and incidents    *)
(* name the oldest call at the time they were begun, each at most once.    *)
(* WatchQueue.tla implements this module.                                  *)
(***************************************************************************)
EXTENDS Naturals

VARIABLES
  issued,     \* calls enqueued on the comm stream, numbered in that order
  completed,  \* calls whose work is finished
  open,       \* the newest call is still being committed
  queued,     \* calls in flight
  left,       \* calls that left the queue
  stamped,    \* calls the recorder knows as done
  untracked,  \* calls the recorder knows as not followed
  incident    \* the call of the last incident, 0 before the first

vars == <<issued, completed, open, queued, left, stamped, untracked, incident>>

Init ==
  /\ issued = 0 /\ completed = 0 /\ open = FALSE
  /\ queued = {} /\ left = {} /\ stamped = {} /\ untracked = {}
  /\ incident = 0

Issue ==
  /\ ~open /\ open' = TRUE
  /\ issued' = issued + 1
  /\ UNCHANGED <<completed, queued, left, stamped, untracked, incident>>

Queue ==
  /\ open /\ open' = FALSE
  /\ queued' = queued \cup {issued}
  /\ UNCHANGED <<issued, completed, left, stamped, untracked, incident>>

Drop ==
  /\ open /\ open' = FALSE
  /\ untracked' = untracked \cup {issued}
  /\ UNCHANGED <<issued, completed, queued, left, stamped, incident>>

Finish ==
  /\ completed < issued /\ completed' = completed + 1
  /\ UNCHANGED <<issued, open, queued, left, stamped, untracked, incident>>

\* Call n leaves, with every call before it.
Retire(n) ==
  LET leaving == {q \in queued : q <= n} IN
  /\ n <= completed
  /\ queued' = queued \ leaving
  /\ left' = left \cup leaving
  /\ UNCHANGED <<issued, completed, open, stamped, untracked, incident>>

Stamp(calls) ==
  /\ stamped' = stamped \cup calls
  /\ UNCHANGED <<issued, completed, open, queued, left, untracked, incident>>

\* The oldest call, or one that was the oldest when its incident was begun.
Report(n) ==
  /\ n \in left \/ (n \in queued /\ \A q \in queued : n <= q)
  /\ n > incident /\ incident' = n
  /\ UNCHANGED <<issued, completed, open, queued, left, stamped, untracked>>

Next ==
  \/ Issue \/ Queue \/ Drop \/ Finish
  \/ \E n \in queued : Retire(n)
  \/ \E calls \in SUBSET left : Stamp(calls)
  \/ \E n \in left \cup queued : Report(n)

Spec == Init /\ [][Next]_vars
=============================================================================
