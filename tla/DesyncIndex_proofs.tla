------------------------- MODULE DesyncIndex_proofs -------------------------
(***************************************************************************)
(* What holds of the store worker and of a rank's index for any number of  *)
(* calls, incidents, jobs and communicators, any limit and whatever the    *)
(* store answers.  The worker implements BoundedCalls: its own             *)
(* specification does, and so does any that takes only the worker's steps, *)
(* as the reporter's, whose generations move with every call.  The index   *)
(* only moves to newer generations, whatever abandoned jobs and an earlier *)
(* incarnation still write.                                                *)
(***************************************************************************)
EXTENDS DesyncIndex, FiniteSetTheorems, SequenceTheorems, TLAPS

-----------------------------------------------------------------------------
(* The worker.                                                             *)

\* A step of the worker, of its caller or of one of its threads, whatever
\* generation a job carries and whatever its operation returns.
WorkerStep ==
  \/ RunRefused \/ Answered \/ TimesOut \/ Settle \/ Close \/ NewGen
  \/ \E g : Run(g)
  \/ \E t \in Threads :
       TakeStop(t) \/ TakeJob(t) \/ Leave(t) \/ \E r : OpReturns(t, r)

Typed ==
  /\ limit \in Limits
  /\ pc \in {"idle", "waiting", "overrun"}
  /\ job \in 0..MaxJobs /\ cur \in 0..MaxJobs
  /\ st \in [Threads -> {"unborn", "get", "run", "ran", "dead"}]
  /\ q \in [Threads -> Seq(0..MaxJobs)]
  /\ has \in [Threads -> 0..MaxJobs]
  /\ abandoned \in [Threads -> BOOLEAN]
  /\ done \in [Jobs -> BOOLEAN]
  /\ DOMAIN box = Jobs
  /\ stuck \in Int

\* Calls to come have left no trace: no thread, no queue, no event.
Fresh ==
  /\ \A t \in Threads : t > job => st[t] = "unborn" /\ ~abandoned[t] /\ q[t] = <<>>
  /\ \A j \in Jobs : j > job => ~done[j]
  /\ \A t \in Threads : has[t] <= job /\ Range(q[t]) \subseteq 0..job

\* The thread in use holds the job its caller waits for, or nothing.
Serves ==
  cur # 0 =>
    /\ cur <= job /\ ~abandoned[cur]
    /\ IF pc # "idle" /\ ~done[job]
       THEN \/ st[cur] = "get" /\ q[cur] = <<job>>
            \/ st[cur] \in {"run", "ran"} /\ has[cur] = job /\ q[cur] = <<>>
       ELSE st[cur] = "get" /\ q[cur] = <<>>

\* Nobody else holds that job.
Elsewhere ==
  pc # "idle" =>
    /\ cur # 0
    /\ \A t \in Threads \ {cur} :
         has[t] # job /\ job \notin Range(q[t])

\* A thread given up before it took its job finds the job before the None.
GivenUp ==
  \A t \in Threads :
    /\ abandoned[t] /\ st[t] = "get" => q[t] # <<>> /\ Head(q[t]) # Stop
    /\ st[t] \in {"run", "ran"} => has[t] # 0

\* What _stuck counts.
Counts == stuck = Cardinality(Blocked)

WInv == Typed /\ Fresh /\ Serves /\ Elsewhere /\ GivenUp /\ Counts

-----------------------------------------------------------------------------
(* Sequences, by what they hold.                                           *)

LEMMA RangeEmpty == Range(<<>>) = {}
  BY DEF Range

LEMMA RangeOne ==
  ASSUME NEW x PROVE Range(<<x>>) = {x}
  BY DEF Range

LEMMA RangeAppend ==
  ASSUME NEW S, NEW s \in Seq(S), NEW x \in S
  PROVE  /\ Append(s, x) \in Seq(S) /\ Append(s, x) # <<>>
         /\ Range(Append(s, x)) = Range(s) \cup {x}
         /\ Head(Append(s, x)) = IF s = <<>> THEN x ELSE Head(s)
<1> DEFINE a == Append(s, x)
<1>1. /\ a \in Seq(S) /\ a # <<>> /\ Len(a) = Len(s) + 1
      /\ \A i \in 1..Len(s) : a[i] = s[i]
      /\ a[Len(s) + 1] = x
  BY AppendProperties
<1>2. Range(a) = {a[i] : i \in 1..Len(a)} /\ Range(s) = {s[i] : i \in 1..Len(s)}
  BY <1>1, RangeEquality
<1>3. Len(s) \in Nat /\ 1..Len(a) = 1..Len(s) \cup {Len(s) + 1}
  BY <1>1, LenProperties
<1> HIDE DEF a
<1>4. Range(a) = Range(s) \cup {x}
  BY <1>1, <1>2, <1>3
<1> QED BY <1>1, <1>4, HeadTailAppend DEF a

LEMMA RangeTail ==
  ASSUME NEW S, NEW s \in Seq(S), s # <<>>
  PROVE  /\ Head(s) \in S /\ Head(s) \in Range(s)
         /\ Tail(s) \in Seq(S) /\ Range(Tail(s)) \subseteq Range(s)
<1> DEFINE u == Tail(s)
<1>1. /\ Head(s) \in S /\ u \in Seq(S) /\ Len(u) = Len(s) - 1
      /\ \A i \in 1..Len(u) : u[i] = s[i + 1]
  BY HeadTailProperties
<1>2. Range(u) = {u[i] : i \in 1..Len(u)} /\ Range(s) = {s[i] : i \in 1..Len(s)}
  BY <1>1, RangeEquality
<1>3. Len(s) \in Nat \ {0}
  BY EmptySeq
<1>4. Head(s) = s[1]
  OBVIOUS
<1> HIDE DEF u
<1>5. Range(u) \subseteq Range(s)
  BY <1>1, <1>2, <1>3
<1> QED BY <1>1, <1>2, <1>3, <1>4, <1>5 DEF u

-----------------------------------------------------------------------------
LEMMA BlockedFinite == IsFiniteSet(Blocked) /\ Cardinality(Blocked) \in Nat
<1>1. IsFiniteSet(Threads)
  BY WorkerAssumption, FS_Interval DEF Threads, Jobs
<1>2. IsFiniteSet(Blocked)
  BY <1>1, FS_Subset DEF Blocked
<1> QED BY <1>2, FS_CardinalityType

LEMMA FullIsTooMany ==
  ASSUME WInv PROVE Calls!Full <=> TooManyStuck
  BY DEF WInv, Counts, Calls!Full, TooManyStuck, Calls!Cardinality, Cardinality,
         Calls!IsFiniteSet, IsFiniteSet

LEMMA InitWInv == WorkerInit => WInv
<1> SUFFICES ASSUME WorkerInit PROVE WInv OBVIOUS
<1> USE WorkerAssumption DEF WorkerInit, Jobs, Threads
<1>1. Typed
  <2>1. <<>> \in Seq(0..MaxJobs) OBVIOUS
  <2> QED BY <2>1 DEF Typed
<1>2. Fresh /\ Serves /\ Elsewhere /\ GivenUp
  BY RangeEmpty DEF Fresh, Serves, Elsewhere, GivenUp
<1>3. Counts
  <2>1. Blocked = {} BY DEF Blocked
  <2> QED BY <2>1, FS_EmptySet DEF Counts
<1> QED BY <1>1, <1>2, <1>3 DEF WInv
-----------------------------------------------------------------------------
(* One lemma per step: it keeps the invariant, and is a step of the calls or *)
(* none of them.                                                             *)

Refined == [Calls!Next]_(Calls!vars)

\* A step that leaves what the caller sees and who blocks alone.
LEMMA Hidden ==
  ASSUME UNCHANGED <<limit, ret>>, (pc # "idle") = (pc # "idle")', Blocked' = Blocked
  PROVE  Refined
  BY DEF Refined, Calls!vars

LEMMA StepRefused ==
  ASSUME WInv, RunRefused PROVE WInv' /\ Refined
<1>1. WInv'
  BY DEF WInv, RunRefused, Typed, Fresh, Serves, Elsewhere, GivenUp, Counts, Blocked
<1>2. Blocked' = Blocked
  BY DEF RunRefused, Blocked
<1>3. Calls!Refuse
  BY <1>2, FullIsTooMany DEF RunRefused, Calls!Refuse
<1> QED BY <1>1, <1>3 DEF Refined, Calls!Next

LEMMA StepRun ==
  ASSUME WInv, NEW g, Run(g) PROVE WInv' /\ Refined
<1> DEFINE j == job + 1
           t == IF cur = 0 THEN j ELSE cur
<1> USE WorkerAssumption DEF Jobs, Threads
<1>0. Typed /\ Fresh /\ Serves /\ Elsewhere /\ GivenUp /\ Counts
  BY DEF WInv
<1>1. /\ pc = "idle" /\ pc' = "waiting" /\ job' = j /\ cur' = t
      /\ ~TooManyStuck
      /\ st' = [st EXCEPT ![t] = IF cur = 0 THEN "get" ELSE @]
      /\ q' = [q EXCEPT ![t] = Append(@, j)]
      /\ UNCHANGED <<limit, ret, has, abandoned, done, box, stuck>>
  BY DEF Run
<1>2. j \in Jobs /\ t \in Threads /\ t # 0 /\ t <= j /\ j > job /\ j \in 0..MaxJobs
  <2>1. job < MaxJobs BY DEF Run
  <2>2. cur # 0 => cur <= job BY <1>0 DEF Serves
  <2> QED BY <1>0, <2>1, <2>2 DEF Typed
<1>3. q[t] = <<>> /\ ~abandoned[t] /\ (cur # 0 => st[t] = "get")
  <2>1. CASE cur = 0 BY <1>0, <1>2, <2>1 DEF Fresh
  <2>2. CASE cur # 0 BY <1>0, <1>1, <2>2 DEF Serves
  <2> QED BY <2>1, <2>2
<1>4. \A u \in Threads :
        /\ st'[u] = IF u = t THEN "get" ELSE st[u]
        /\ q'[u] = IF u = t THEN <<j>> ELSE q[u]
  <2> SUFFICES ASSUME NEW u \in Threads
               PROVE  /\ st'[u] = IF u = t THEN "get" ELSE st[u]
                      /\ q'[u] = IF u = t THEN <<j>> ELSE q[u]
    OBVIOUS
  <2>1. Append(q[t], j) = <<j>> BY <1>3
  <2>2. DOMAIN st = Threads /\ DOMAIN q = Threads BY <1>0 DEF Typed
  <2> HIDE DEF j, t
  <2> QED BY <1>1, <1>2, <1>3, <2>1, <2>2
<1>5. Typed'
  <2>1. <<j>> \in Seq(0..MaxJobs) BY <1>2
  <2>2. st' \in [Threads -> {"unborn", "get", "run", "ran", "dead"}]
    BY <1>0, <1>1 DEF Typed
  <2>3. q' \in [Threads -> Seq(0..MaxJobs)]
    <3>1. Append(q[t], j) = <<j>> BY <1>3
    <3>2. q' = [q EXCEPT ![t] = <<j>>] BY <1>1, <3>1
    <3> HIDE DEF j, t
    <3> QED BY <1>0, <2>1, <3>2 DEF Typed
  <2> QED BY <1>0, <1>1, <1>2, <2>2, <2>3 DEF Typed
<1> HIDE DEF t
<1>6. Fresh'
  <2>1. ASSUME NEW u \in Threads, u > job'
        PROVE  st'[u] = "unborn" /\ ~abandoned'[u] /\ q'[u] = <<>>
    <3>1. u > job /\ u # t BY <1>0, <1>1, <1>2, <2>1 DEF Typed
    <3>2. st[u] = "unborn" /\ ~abandoned[u] /\ q[u] = <<>> BY <1>0, <3>1 DEF Fresh
    <3> QED BY <1>1, <1>4, <3>1, <3>2
  <2>2. \A i \in Jobs : i > job' => ~done'[i]
    BY <1>0, <1>1 DEF Fresh, Typed
  <2>3. ASSUME NEW u \in Threads
        PROVE  has'[u] <= job' /\ Range(q'[u]) \subseteq 0..job'
    <3>1. has[u] <= job /\ Range(q[u]) \subseteq 0..job /\ has[u] \in 0..MaxJobs /\ job \in Nat
      BY <1>0 DEF Fresh, Typed
    <3>2. Range(q'[u]) \subseteq Range(q[u]) \cup {j} BY <1>4, RangeOne
    <3>3. has'[u] = has[u] /\ 0..job \cup {j} \subseteq 0..job' /\ job <= job'
      BY <1>1, <3>1
    <3>4. has'[u] <= job' BY <1>1, <3>1, <3>3
    <3> HIDE DEF j
    <3>5. Range(q'[u]) \subseteq 0..job' BY <3>1, <3>2, <3>3
    <3> QED BY <3>4, <3>5
  <2> QED BY <2>1, <2>2, <2>3 DEF Fresh
<1>7. Serves'
  <2>1. ~abandoned'[cur'] /\ cur' <= job' /\ st'[cur'] = "get" /\ q'[cur'] = <<job'>>
    BY <1>1, <1>2, <1>3, <1>4
  <2>2. ~done'[job'] BY <1>0, <1>1, <1>2 DEF Fresh
  <2> QED BY <1>1, <2>1, <2>2 DEF Serves
<1>8. Elsewhere'
  <2> SUFFICES ASSUME NEW u \in Threads \ {t}
               PROVE  has'[u] # job' /\ job' \notin Range(q'[u])
    BY <1>1, <1>2 DEF Elsewhere
  <2>1. has[u] <= job /\ Range(q[u]) \subseteq 0..job /\ has[u] \in 0..MaxJobs /\ job \in Nat
    BY <1>0 DEF Fresh, Typed
  <2>2. q'[u] = q[u] /\ has'[u] = has[u] BY <1>1, <1>4
  <2> QED BY <1>1, <2>1, <2>2
<1>9. GivenUp'
  BY <1>0, <1>1, <1>3, <1>4 DEF GivenUp
<1>10. Blocked' = Blocked
  BY <1>1, <1>3, <1>4 DEF Blocked
<1>11. Counts' BY <1>0, <1>1, <1>10 DEF Counts
<1>12. Calls!Begin
  BY <1>1, <1>10, FullIsTooMany DEF Calls!Begin
<1> QED BY <1>5, <1>6, <1>7, <1>8, <1>9, <1>11, <1>12 DEF WInv, Refined, Calls!Next

LEMMA StepAnswered ==
  ASSUME WInv, Answered PROVE WInv' /\ Refined
<1>1. WInv'
  BY DEF WInv, Answered, Typed, Fresh, Serves, Elsewhere, GivenUp, Counts, Blocked
<1>2. Calls!Answer
  BY DEF Answered, Unboxed, Calls!Answer, Blocked
<1> QED BY <1>1, <1>2 DEF Refined, Calls!Next

LEMMA StepTimesOut ==
  ASSUME WInv, TimesOut PROVE WInv' /\ Refined
<1>1. WInv'
  BY DEF WInv, TimesOut, Typed, Fresh, Serves, Elsewhere, GivenUp, Counts, Blocked
<1>2. Refined
  BY Hidden DEF TimesOut, Blocked
<1> QED BY <1>1, <1>2

\* The deadline passed, the lock decides: the job was answered after all, or
\* its thread is given up, which it was not before.
LEMMA StepSettle ==
  ASSUME WInv, Settle PROVE WInv' /\ Refined
<1> USE WorkerAssumption DEF Jobs, Threads
<1>0. Typed /\ Fresh /\ Serves /\ Elsewhere /\ GivenUp /\ Counts
  BY DEF WInv
<1>1. /\ pc = "overrun" /\ pc' = "idle"
      /\ UNCHANGED <<limit, job, st, has, done, box>>
  BY DEF Settle
<1>2. CASE ~Overran
  <2>1. ret' = Unboxed /\ UNCHANGED <<stuck, abandoned, q, cur>>
    BY <1>2 DEF Settle
  <2>2. WInv'
    BY <1>0, <1>1, <1>2, <2>1 DEF WInv, Overran, Typed, Fresh, Serves, Elsewhere, GivenUp,
                                  Counts, Blocked
  <2>3. Calls!Answer
    BY <1>1, <2>1 DEF Unboxed, Calls!Answer, Blocked
  <2> QED BY <2>2, <2>3 DEF Refined, Calls!Next
<1>3. CASE Overran
  <2>1. cur # 0 BY <1>0, <1>1 DEF Elsewhere
  <2>2. cur \in Threads BY <1>0, <2>1 DEF Typed
  <2>3. ~done[job] BY <1>3 DEF Overran
  <2>4. cur <= job /\ ~abandoned[cur] BY <1>0, <2>1 DEF Serves
  <2>5. \/ st[cur] = "get" /\ q[cur] = <<job>>
        \/ st[cur] \in {"run", "ran"} /\ q[cur] = <<>>
    BY <1>0, <1>1, <2>1, <2>3 DEF Serves
  <2>6. /\ stuck' = stuck + 1 /\ abandoned' = [abandoned EXCEPT ![cur] = TRUE]
        /\ q' = [q EXCEPT ![cur] = Append(@, Stop)] /\ cur' = 0 /\ ret' = "none"
    BY <1>3, <2>1 DEF Settle, Closed
  <2>7. \A u \in Threads : /\ abandoned'[u] = IF u = cur THEN TRUE ELSE abandoned[u]
                           /\ q'[u] = IF u = cur THEN Append(q[u], Stop) ELSE q[u]
    BY <1>0, <2>6 DEF Typed
  <2>8. /\ Append(q[cur], Stop) \in Seq(0..MaxJobs) /\ Append(q[cur], Stop) # <<>>
        /\ Range(Append(q[cur], Stop)) = Range(q[cur]) \cup {0}
        /\ Head(Append(q[cur], Stop)) = IF q[cur] = <<>> THEN 0 ELSE Head(q[cur])
    <3>1. q[cur] \in Seq(0..MaxJobs) /\ 0 \in 0..MaxJobs BY <1>0, <2>2 DEF Typed
    <3> QED BY <3>1, RangeAppend DEF Stop
  <2>9. Typed'
    <3>1. q' \in [Threads -> Seq(0..MaxJobs)] BY <1>0, <2>6, <2>8 DEF Typed
    <3>2. abandoned' \in [Threads -> BOOLEAN] BY <1>0, <2>6 DEF Typed
    <3> QED BY <1>0, <1>1, <2>6, <3>1, <3>2 DEF Typed
  <2>10. Fresh'
    <3>1. \A u \in Threads : Range(q'[u]) \subseteq Range(q[u]) \cup {0}
      BY <2>7, <2>8
    <3>2. \A u \in Threads : Range(q'[u]) \subseteq 0..job'
      BY <1>0, <1>1, <3>1 DEF Fresh, Typed
    <3>3. ASSUME NEW u \in Threads, u > job'
          PROVE  st'[u] = "unborn" /\ ~abandoned'[u] /\ q'[u] = <<>>
      <4>1. u # cur BY <1>0, <1>1, <2>4, <3>3 DEF Typed
      <4> QED BY <1>0, <1>1, <2>7, <3>3, <4>1 DEF Fresh
    <3> QED BY <1>0, <1>1, <3>2, <3>3 DEF Fresh
  <2>11. Serves' /\ Elsewhere'
    BY <1>1, <2>6 DEF Serves, Elsewhere
  <2>12. GivenUp'
    <3>1. st[cur] = "get" => Head(q[cur]) # Stop /\ q[cur] # <<>>
      <4>1. job # 0 BY <1>0, <2>2, <2>4 DEF Typed
      <4> QED BY <2>5, <4>1 DEF Stop
    <3>2. ASSUME NEW u \in Threads, abandoned'[u], st'[u] = "get"
          PROVE  q'[u] # <<>> /\ Head(q'[u]) # Stop
      <4>1. CASE u = cur BY <1>1, <2>7, <2>8, <3>1, <3>2, <4>1
      <4>2. CASE u # cur BY <1>0, <1>1, <2>7, <3>2, <4>2 DEF GivenUp
      <4> QED BY <4>1, <4>2
    <3>3. \A u \in Threads : st'[u] \in {"run", "ran"} => has'[u] # 0
      BY <1>0, <1>1 DEF GivenUp
    <3> QED BY <3>2, <3>3 DEF GivenUp
  <2>13. Blocked' = Blocked \cup {cur} /\ cur \notin Blocked
    <3>1. st[cur] # "dead" BY <2>5
    <3> QED BY <1>1, <2>2, <2>4, <2>7, <3>1 DEF Blocked
  <2>14. Counts'
    BY <1>0, <2>6, <2>13, BlockedFinite, FS_AddElement DEF Counts
  <2>15. Calls!GiveUp(cur)
    BY <1>1, <2>6, <2>13 DEF Calls!GiveUp
  <2> QED BY <2>2, <2>9, <2>10, <2>11, <2>12, <2>14, <2>15 DEF WInv, Refined, Calls!Next
<1> QED BY <1>2, <1>3

LEMMA StepClose ==
  ASSUME WInv, Close PROVE WInv' /\ Refined
<1> USE WorkerAssumption DEF Jobs, Threads
<1>0. Typed /\ Fresh /\ Serves /\ Elsewhere /\ GivenUp /\ Counts
  BY DEF WInv
<1>1. cur # 0 /\ pc = "idle" /\ cur' = 0
      /\ UNCHANGED <<limit, pc, job, ret, st, has, abandoned, done, box, stuck>>
  BY DEF Close
<1>2. cur \in Threads /\ cur <= job /\ ~abandoned[cur] /\ q[cur] = <<>>
  BY <1>0, <1>1 DEF Serves, Typed
<1>3. q' = [q EXCEPT ![cur] = <<0>>]
  <2>1. Append(q[cur], Stop) = <<0>> BY <1>2 DEF Stop
  <2>2. q' = [q EXCEPT ![cur] = Append(q[cur], Stop)] BY <1>1 DEF Close, Closed
  <2> QED BY <2>1, <2>2
<1>4. <<0>> \in Seq(0..MaxJobs) /\ Range(<<0>>) = {0}
  BY RangeOne
<1>5. \A u \in Threads : q'[u] = IF u = cur THEN <<0>> ELSE q[u]
  BY <1>0, <1>3 DEF Typed
<1>6. Typed'
  <2>1. q' \in [Threads -> Seq(0..MaxJobs)] BY <1>0, <1>3, <1>4 DEF Typed
  <2> QED BY <1>0, <1>1, <2>1 DEF Typed
<1>7. Fresh'
  <2>1. ASSUME NEW u \in Threads, u > job' PROVE q'[u] = <<>>
    <3>1. u # cur BY <1>0, <1>1, <1>2, <2>1 DEF Typed
    <3> QED BY <1>0, <1>1, <1>5, <2>1, <3>1 DEF Fresh
  <2>2. ASSUME NEW u \in Threads PROVE Range(q'[u]) \subseteq 0..job'
    <3>1. CASE u = cur
      <4>1. 0 \in 0..job' BY <1>0, <1>1 DEF Typed
      <4> QED BY <1>4, <1>5, <3>1, <4>1
    <3>2. CASE u # cur BY <1>0, <1>1, <1>5, <3>2 DEF Fresh
    <3> QED BY <3>1, <3>2
  <2> QED BY <1>0, <1>1, <2>1, <2>2 DEF Fresh
<1>8. Serves' /\ Elsewhere'
  BY <1>1 DEF Serves, Elsewhere
<1>9. GivenUp'
  BY <1>0, <1>1, <1>2, <1>5 DEF GivenUp
<1>10. Blocked' = Blocked BY <1>1 DEF Blocked
<1> QED BY <1>0, <1>1, <1>6, <1>7, <1>8, <1>9, <1>10, Hidden DEF WInv, Counts

\* A thread that ends on the None was not given up: given up, it would have
\* ended with its job.
LEMMA StepTakeStop ==
  ASSUME WInv, NEW t \in Threads, TakeStop(t) PROVE WInv' /\ Refined
<1> USE WorkerAssumption DEF Jobs, Threads
<1>0. Typed /\ Fresh /\ Serves /\ Elsewhere /\ GivenUp /\ Counts
  BY DEF WInv
<1>1. /\ st[t] = "get" /\ q[t] # <<>> /\ Head(q[t]) = Stop
      /\ st' = [st EXCEPT ![t] = "dead"] /\ q' = [q EXCEPT ![t] = Tail(@)]
      /\ UNCHANGED <<limit, pc, job, cur, ret, has, abandoned, done, box, stuck>>
  BY DEF TakeStop
<1>2. ~abandoned[t]
  BY <1>0, <1>1 DEF GivenUp
<1>3. t # cur
  <2> SUFFICES ASSUME t = cur PROVE FALSE OBVIOUS
  <2>1. cur # 0 /\ t <= job BY <1>0 DEF Serves, Typed
  <2>2. q[t] = <<job>> BY <1>0, <1>1, <2>1 DEF Serves
  <2> QED BY <1>0, <1>1, <2>1, <2>2 DEF Stop, Typed
<1>4. /\ Tail(q[t]) \in Seq(0..MaxJobs)
      /\ Range(Tail(q[t])) \subseteq Range(q[t])
  BY <1>0, <1>1, RangeTail DEF Typed
<1>5. \A u \in Threads : /\ st'[u] = IF u = t THEN "dead" ELSE st[u]
                         /\ q'[u] = IF u = t THEN Tail(q[u]) ELSE q[u]
  BY <1>0, <1>1 DEF Typed
<1>6. Typed'
  <2>1. q' \in [Threads -> Seq(0..MaxJobs)] BY <1>0, <1>1, <1>4 DEF Typed
  <2>2. st' \in [Threads -> {"unborn", "get", "run", "ran", "dead"}]
    BY <1>0, <1>1 DEF Typed
  <2> QED BY <1>0, <1>1, <2>1, <2>2 DEF Typed
<1>7. \A u \in Threads : Range(q'[u]) \subseteq Range(q[u])
  BY <1>4, <1>5
<1>8. Fresh'
  <2>1. t <= job BY <1>0, <1>1 DEF Fresh, Typed
  <2>2. \A u \in Threads : u > job' => st'[u] = "unborn" /\ ~abandoned'[u] /\ q'[u] = <<>>
    BY <1>0, <1>1, <1>5, <2>1 DEF Fresh, Typed
  <2> QED BY <1>0, <1>1, <1>7, <2>2 DEF Fresh
<1>9. Serves'
  <2>1. cur' = cur /\ job' = job /\ pc' = pc /\ done' = done /\ abandoned' = abandoned
        /\ has' = has
    BY <1>1
  <2> SUFFICES ASSUME cur # 0 PROVE Serves'
    BY <2>1 DEF Serves
  <2>2. cur <= job /\ cur \in Threads
    BY <1>0 DEF Serves, Typed
  <2>3. st'[cur] = st[cur] /\ q'[cur] = q[cur]
    BY <1>3, <1>5, <2>2
  <2> QED BY <1>0, <2>1, <2>3 DEF Serves
<1>10. Elsewhere'
  BY <1>0, <1>1, <1>7 DEF Elsewhere
<1>11. GivenUp'
  BY <1>0, <1>1, <1>2, <1>5 DEF GivenUp
<1>12. Blocked' = Blocked
  BY <1>1, <1>2, <1>5 DEF Blocked
<1> QED BY <1>0, <1>1, <1>6, <1>8, <1>9, <1>10, <1>11, <1>12, Hidden DEF WInv, Counts

LEMMA StepTakeJob ==
  ASSUME WInv, NEW t \in Threads, TakeJob(t) PROVE WInv' /\ Refined
<1> USE WorkerAssumption DEF Jobs, Threads
<1>0. Typed /\ Fresh /\ Serves /\ Elsewhere /\ GivenUp /\ Counts
  BY DEF WInv
<1>1. /\ st[t] = "get" /\ q[t] # <<>> /\ Head(q[t]) # Stop
      /\ has' = [has EXCEPT ![t] = Head(q[t])] /\ q' = [q EXCEPT ![t] = Tail(@)]
      /\ UNCHANGED <<limit, pc, job, cur, ret, abandoned, done, stuck>>
      /\ DOMAIN box' = Jobs
  BY <1>0 DEF TakeJob, Typed
<1>2. PICK s \in {"run", "ran"} : st' = [st EXCEPT ![t] = s]
  BY DEF TakeJob
<1>3. /\ Head(q[t]) \in 0..MaxJobs /\ Head(q[t]) \in Range(q[t])
      /\ Tail(q[t]) \in Seq(0..MaxJobs) /\ Range(Tail(q[t])) \subseteq Range(q[t])
  BY <1>0, <1>1, RangeTail DEF Typed
<1>4. \A u \in Threads : /\ st'[u] = IF u = t THEN s ELSE st[u]
                         /\ q'[u] = IF u = t THEN Tail(q[u]) ELSE q[u]
                         /\ has'[u] = IF u = t THEN Head(q[u]) ELSE has[u]
  BY <1>0, <1>1, <1>2 DEF Typed
<1>5. Typed'
  <2>1. q' \in [Threads -> Seq(0..MaxJobs)] BY <1>0, <1>1, <1>3 DEF Typed
  <2>2. st' \in [Threads -> {"unborn", "get", "run", "ran", "dead"}]
    BY <1>0, <1>2 DEF Typed
  <2>3. has' \in [Threads -> 0..MaxJobs] BY <1>0, <1>1, <1>3 DEF Typed
  <2> QED BY <1>0, <1>1, <2>1, <2>2, <2>3 DEF Typed
<1>6. \A u \in Threads : Range(q'[u]) \subseteq Range(q[u])
  BY <1>3, <1>4
<1>7. Fresh'
  <2>1. t <= job BY <1>0, <1>1 DEF Fresh, Typed
  <2>2. \A u \in Threads : u > job' => st'[u] = "unborn" /\ ~abandoned'[u] /\ q'[u] = <<>>
    BY <1>0, <1>1, <1>4, <2>1 DEF Fresh, Typed
  <2>3. Head(q[t]) <= job
    BY <1>0, <1>3 DEF Fresh, Typed
  <2>4. \A u \in Threads : has'[u] <= job'
    BY <1>0, <1>1, <1>4, <2>3 DEF Fresh
  <2> QED BY <1>0, <1>1, <1>6, <2>2, <2>4 DEF Fresh
<1>8. Serves'
  <2>1. CASE t = cur
    <3>1. cur # 0 BY <2>1
    <3>2. q[cur] = <<job>> /\ ~done[job] /\ pc # "idle"
      BY <1>0, <1>1, <2>1, <3>1 DEF Serves
    <3>3. Head(q[cur]) = job /\ Tail(q[cur]) = <<>>
      BY <3>2
    <3>4. st'[cur] \in {"run", "ran"} /\ has'[cur] = job /\ q'[cur] = <<>>
      BY <1>4, <2>1, <3>3
    <3>5. cur <= job /\ ~abandoned[cur] BY <1>0, <3>1 DEF Serves
    <3>6. UNCHANGED <<pc, job, cur, done, abandoned>> BY <1>1
    <3> QED BY <3>1, <3>2, <3>4, <3>5, <3>6 DEF Serves
  <2>2. CASE t # cur
    <3> SUFFICES ASSUME cur # 0 PROVE Serves' BY <1>1 DEF Serves
    <3>1. cur \in Threads BY <1>0 DEF Typed
    <3>2. st'[cur] = st[cur] /\ q'[cur] = q[cur] /\ has'[cur] = has[cur]
      BY <1>4, <2>2, <3>1
    <3> QED BY <1>0, <1>1, <3>2 DEF Serves
  <2> QED BY <2>1, <2>2
<1>9. Elsewhere'
  <2> SUFFICES ASSUME pc # "idle", NEW u \in Threads \ {cur}
               PROVE  has'[u] # job /\ job \notin Range(q'[u])
    BY <1>0, <1>1 DEF Elsewhere
  <2>1. has[u] # job /\ job \notin Range(q[u]) BY <1>0 DEF Elsewhere
  <2> QED BY <1>3, <1>4, <1>6, <2>1
<1>10. GivenUp'
  BY <1>0, <1>1, <1>4 DEF GivenUp, Stop
<1>11. Blocked' = Blocked
  BY <1>1, <1>4 DEF Blocked
<1> QED BY <1>0, <1>1, <1>5, <1>7, <1>8, <1>9, <1>10, <1>11, Hidden DEF WInv, Counts

LEMMA StepOpReturns ==
  ASSUME WInv, NEW t \in Threads, NEW r, OpReturns(t, r) PROVE WInv' /\ Refined
<1>1. /\ st[t] = "run" /\ st' = [st EXCEPT ![t] = "ran"] /\ DOMAIN box' = Jobs
      /\ UNCHANGED <<limit, pc, job, cur, ret, q, has, abandoned, done, stuck>>
  BY DEF OpReturns, WInv, Typed
<1>2. Typed' /\ Fresh' /\ Serves' /\ Elsewhere' /\ GivenUp'
  BY <1>1 DEF WInv, Typed, Fresh, Serves, Elsewhere, GivenUp
<1>3. Blocked' = Blocked
  BY <1>1 DEF Blocked, WInv, Typed
<1> QED BY <1>1, <1>2, <1>3, Hidden DEF WInv, Counts

\* The end of a job: the event, and the end of a thread given up meanwhile.
LEMMA StepLeave ==
  ASSUME WInv, NEW t \in Threads, Leave(t) PROVE WInv' /\ Refined
<1> USE WorkerAssumption DEF Jobs, Threads
<1>0. Typed /\ Fresh /\ Serves /\ Elsewhere /\ GivenUp /\ Counts
  BY DEF WInv
<1>1. /\ st[t] = "ran" /\ done' = [done EXCEPT ![has[t]] = TRUE]
      /\ UNCHANGED <<limit, pc, job, cur, ret, q, has, abandoned, box>>
  BY DEF Leave
<1>2. /\ has[t] \in Jobs /\ has[t] <= job
      /\ \A i \in Jobs : done'[i] = IF i = has[t] THEN TRUE ELSE done[i]
      /\ done' \in [Jobs -> BOOLEAN]
  <2>1. has[t] # 0 BY <1>0, <1>1 DEF GivenUp
  <2>2. has[t] \in Jobs BY <1>0, <2>1 DEF Typed
  <2> QED BY <1>0, <1>1, <2>2 DEF Fresh, Typed
<1>3. PICK s \in {"get", "dead"} :
        /\ st' = [st EXCEPT ![t] = s] /\ (s = "dead") = abandoned[t]
        /\ stuck' = IF abandoned[t] THEN stuck - 1 ELSE stuck
  <2>1. abandoned[t] \in BOOLEAN BY <1>0 DEF Typed
  <2> QED BY <2>1 DEF Leave
<1>4. /\ \A u \in Threads : st'[u] = IF u = t THEN s ELSE st[u]
      /\ st' \in [Threads -> {"unborn", "get", "run", "ran", "dead"}]
  BY <1>0, <1>3 DEF Typed
<1>5. Typed'
  <2>1. stuck' \in Int BY <1>0, <1>3 DEF Typed
  <2> QED BY <1>0, <1>1, <1>2, <1>4, <2>1 DEF Typed
<1>6. Fresh'
  <2>1. t <= job BY <1>0, <1>1 DEF Fresh, Typed
  <2>2. \A u \in Threads : u > job' => st'[u] = "unborn" /\ ~abandoned'[u] /\ q'[u] = <<>>
    BY <1>0, <1>1, <1>4, <2>1 DEF Fresh, Typed
  <2>3. ASSUME NEW i \in Jobs, i > job' PROVE ~done'[i]
    <3>1. ~done[i] BY <1>0, <1>1, <2>3 DEF Fresh
    <3>2. i # has[t] BY <1>0, <1>1, <1>2, <2>3 DEF Typed
    <3> QED BY <1>2, <3>1, <3>2
  <2> QED BY <1>0, <1>1, <2>2, <2>3 DEF Fresh
<1>7. Serves'
  <2>1. CASE t = cur
    <3>1. cur # 0 /\ ~abandoned[cur] BY <1>0, <2>1 DEF Serves
    <3>2. s = "get" BY <1>3, <2>1, <3>1
    <3>3. has[cur] = job /\ q[cur] = <<>> BY <1>0, <1>1, <2>1, <3>1 DEF Serves
    <3>4. done'[job'] BY <1>1, <1>2, <2>1, <3>3
    <3> QED BY <1>0, <1>1, <1>4, <2>1, <3>1, <3>2, <3>3, <3>4 DEF Serves
  <2>2. CASE t # cur
    <3> SUFFICES ASSUME cur # 0 PROVE Serves' BY <1>1 DEF Serves
    <3>1. cur \in Threads /\ st'[cur] = st[cur] BY <1>0, <1>4, <2>2 DEF Typed
    <3>2. CASE pc = "idle" BY <1>0, <1>1, <3>1, <3>2 DEF Serves
    <3>3. CASE pc # "idle"
      <4>1. has[t] # job /\ job \in Jobs
        BY <1>0, <2>2, <3>3, <3>1 DEF Elsewhere, Serves, Typed
      <4>2. done'[job] = done[job] BY <1>2, <4>1
      <4> QED BY <1>0, <1>1, <3>1, <4>2 DEF Serves
    <3> QED BY <3>2, <3>3
  <2> QED BY <2>1, <2>2
<1>8. Elsewhere'
  BY <1>0, <1>1 DEF Elsewhere
<1>9. GivenUp'
  <2>1. ASSUME NEW u \in Threads, abandoned'[u], st'[u] = "get"
        PROVE  q'[u] # <<>> /\ Head(q'[u]) # Stop
    <3>1. u # t BY <1>1, <1>3, <1>4, <2>1
    <3> QED BY <1>0, <1>1, <1>4, <2>1, <3>1 DEF GivenUp
  <2>2. \A u \in Threads : st'[u] \in {"run", "ran"} => has'[u] # 0
    BY <1>0, <1>1, <1>4 DEF GivenUp
  <2> QED BY <2>1, <2>2 DEF GivenUp
<1>10. CASE abandoned[t]
  <2>1. s = "dead" BY <1>3, <1>10
  <2>2. Blocked' = Blocked \ {t} /\ t \in Blocked
    BY <1>1, <1>4, <1>10, <2>1 DEF Blocked
  <2>3. Counts'
    BY <1>0, <1>3, <1>10, <2>2, BlockedFinite, FS_RemoveElement DEF Counts
  <2>4. Calls!Return(t)
    BY <1>1, <2>2 DEF Calls!Return
  <2> QED BY <1>5, <1>6, <1>7, <1>8, <1>9, <2>3, <2>4 DEF WInv, Refined, Calls!Next
<1>11. CASE ~abandoned[t]
  <2>1. Blocked' = Blocked
    BY <1>1, <1>4, <1>11 DEF Blocked
  <2> QED BY <1>0, <1>1, <1>3, <1>5, <1>6, <1>7, <1>8, <1>9, <1>11, <2>1, Hidden
          DEF WInv, Counts
<1> QED BY <1>10, <1>11

-----------------------------------------------------------------------------
LEMMA WorkerSteps ==
  ASSUME WInv, WorkerStep \/ UNCHANGED workerVars PROVE WInv' /\ Refined
<1>1. CASE UNCHANGED workerVars
  BY <1>1, Hidden DEF workerVars, WInv, Typed, Fresh, Serves, Elsewhere, GivenUp,
                      Counts, Blocked
<1>2. CASE NewGen
  <2>1. UNCHANGED <<limit, pc, job, cur, ret, st, q, has, abandoned, done, box, stuck>>
    BY <1>2 DEF NewGen
  <2> QED BY <2>1, Hidden DEF WInv, Typed, Fresh, Serves, Elsewhere, GivenUp,
                              Counts, Blocked
<1>3. CASE WorkerStep /\ ~NewGen
  BY <1>3, StepRefused, StepRun, StepAnswered, StepTimesOut, StepSettle, StepClose,
     StepTakeStop, StepTakeJob, StepOpReturns, StepLeave DEF WorkerStep
<1> QED BY <1>1, <1>2, <1>3

LEMMA InitRefined == WorkerInit => Calls!Init
<1> SUFFICES ASSUME WorkerInit PROVE Calls!Init OBVIOUS
<1>1. Blocked = {} BY DEF WorkerInit, Blocked, Threads, Jobs
<1> QED BY <1>1 DEF WorkerInit, Calls!Init

\* The worker keeps the promise of BoundedCalls (StoreWorker.run, _serve,
\* close): a call is answered or given up once, a call given up blocks one
\* thread until its operation returns, and _stuck counts those threads exactly,
\* so that a call is refused only while max_abandoned of them block.
THEOREM WorkerImplements == Spec => CallsBounded
<1>1. WorkerInit => WInv /\ Calls!Init BY InitWInv, InitRefined
<1>2. WInv /\ [Next]_workerVars => WInv' /\ [Calls!Next]_(Calls!vars)
  BY WorkerSteps DEF Next, WorkerStep, Refined
<1> QED BY <1>1, <1>2, PTL DEF Spec, CallsBounded, Calls!Spec

-----------------------------------------------------------------------------
(* The index.                                                              *)

Indexed == {"publish", "rewrite"}      \* the kinds of jobs that write it

IndexTyped ==
  /\ latest \in Nat /\ index.gen \in Nat
  /\ tag \in [Jobs -> Nat]
  /\ DOMAIN work = Jobs /\ \A j \in Jobs : "kind" \in DOMAIN work[j]
  /\ DOMAIN at = Writers /\ DOMAIN seen = Writers
  /\ \A w \in Writers : seen[w].gen \in Nat

\* Only a running job is inside an operation.
InsideRuns == \A t \in Threads : at[t] # "start" => st[t] = "run"

\* Whoever may write the index has a generation; it is above that of the
\* index it read and will compare.
Newer ==
  /\ \A j \in Jobs : work[j].kind \in Indexed => tag[j] > 0
  /\ \A w \in Writers :
       /\ at[w] \in {"read", "cas"} => GenOf(w) > 0
       /\ at[w] = "cas" => GenOf(w) > seen[w].gen

IndexInv == IndexTyped /\ InsideRuns /\ Newer

-----------------------------------------------------------------------------
LEMMA InitIndexInv == Init => WInv /\ IndexInv
<1> SUFFICES ASSUME Init PROVE WInv /\ IndexInv OBVIOUS
<1> USE WorkerAssumption DEF Jobs, Threads, Writers, Stray
<1>1. WInv BY InitWInv DEF Init
<1>2. index.gen \in Nat
  BY DEF Init, NoIndex, StrayGen
<1>3. seen = [w \in Writers |-> NoIndex] /\ NoIndex.gen = 0
  BY DEF Init, NoIndex
<1>4. /\ latest = 0 /\ tag = [j \in Jobs |-> 0]
      /\ work = [j \in Jobs |-> NoWork]
      /\ NoWork.kind = "none" /\ "kind" \in DOMAIN NoWork
  BY DEF Init, WorkerInit, NoWork
<1>5. PICK left \in {"read", "end"} :
        at = [w \in Writers |-> IF w = Stray THEN left ELSE "start"]
  BY DEF Init
<1>6. IndexTyped
  BY <1>2, <1>3, <1>4, <1>5 DEF IndexTyped
<1>7. InsideRuns
  BY <1>5 DEF InsideRuns
<1>8. Newer
  BY <1>3, <1>4, <1>5 DEF Newer, Indexed, GenOf, StrayGen
<1> QED BY <1>1, <1>6, <1>7, <1>8 DEF IndexInv

\* Every step is one of the worker, or leaves the worker alone.
LEMMA DesyncWorker ==
  ASSUME DesyncNext PROVE WorkerStep \/ UNCHANGED workerVars
<1>1. CASE Reporter
  BY <1>1 DEF Reporter, Incident, Resolved, Collect, Acknowledge, EndOfPipe, CloseWorker,
              Waiting, CallIndexed, WorkerStep
<1>2. CASE Serving
  BY <1>2 DEF Serving, WorkerStep
<1>3. CASE \E w \in Writers : ReadIndex(w) \/ SwapIndex(w)
  BY <1>3 DEF ReadIndex, SwapIndex, Ends, Writers, Stray, WorkerStep
<1>4. CASE \E t \in Threads :
             \/ SetRecord(t) \/ CollectIndex(t) \/ CollectRecords(t) \/ Raises(t)
             \/ SwapUnanswered(t)
  BY <1>4 DEF SetRecord, CollectIndex, CollectRecords, Raises, SwapUnanswered, Ends,
              WorkerStep
<1> QED BY <1>1, <1>2, <1>3, <1>4 DEF DesyncNext, StoreSide

-----------------------------------------------------------------------------
\* A step outside the store: running jobs keep running and keep their
\* generations, and nobody's operation moves.
LEMMA Away ==
  ASSUME IndexInv, UNCHANGED <<index, at, seen>>,
         latest' \in Nat, tag' \in [Jobs -> Nat],
         DOMAIN work' = Jobs, \A j \in Jobs : "kind" \in DOMAIN work'[j],
         \A j \in Jobs : work'[j].kind \in Indexed => tag'[j] > 0,
         \A t \in Threads : st[t] = "run" =>
           /\ st'[t] = "run" /\ has'[t] = has[t] /\ tag'[has[t]] = tag[has[t]]
  PROVE  IndexInv'
<1>0. IndexTyped /\ InsideRuns /\ Newer BY DEF IndexInv
<1>1. IndexTyped' BY <1>0 DEF IndexTyped
<1>2. InsideRuns' BY <1>0 DEF InsideRuns
<1>3. \A w \in Writers : at[w] \in {"read", "cas"} => GenOf(w)' = GenOf(w)
  <2> SUFFICES ASSUME NEW w \in Writers, at[w] \in {"read", "cas"}, w # Stray
               PROVE  tag'[has'[w]] = tag[has[w]]
    BY DEF GenOf
  <2>1. w \in Threads BY DEF Writers
  <2> QED BY <1>0, <2>1 DEF InsideRuns
<1>4. Newer'
  BY <1>0, <1>3 DEF Newer
<1> QED BY <1>1, <1>2, <1>4 DEF IndexInv

\* A step that moves the operation of one writer.
LEMMA Within ==
  ASSUME IndexInv, NEW w \in Writers, NEW s,
         at' = [at EXCEPT ![w] = s],
         UNCHANGED <<latest, tag, work, has>>,
         index'.gen \in Nat,
         DOMAIN seen' = Writers, seen'[w].gen \in Nat,
         \A u \in Writers \ {w} : seen'[u] = seen[u],
         \A t \in Threads \ {w} : st'[t] = st[t],
         w \in Threads /\ s # "start" => st'[w] = "run",
         s \in {"read", "cas"} => GenOf(w) > 0,
         s = "cas" => GenOf(w) > seen'[w].gen
  PROVE  IndexInv'
<1>0. IndexTyped /\ InsideRuns /\ Newer BY DEF IndexInv
<1>1. \A u \in Writers : at'[u] = IF u = w THEN s ELSE at[u]
  BY <1>0 DEF IndexTyped
<1>2. \A u \in Writers : GenOf(u)' = GenOf(u)
  BY DEF GenOf
<1>3. IndexTyped'
  <2>1. \A u \in Writers : seen'[u].gen \in Nat BY <1>0 DEF IndexTyped
  <2>2. DOMAIN at' = Writers BY <1>0 DEF IndexTyped
  <2> QED BY <1>0, <2>1, <2>2 DEF IndexTyped
<1>4. InsideRuns'
  BY <1>0, <1>1 DEF InsideRuns, Writers
<1>5. Newer'
  <2>1. \A j \in Jobs : work'[j].kind \in Indexed => tag'[j] > 0 BY <1>0 DEF Newer
  <2>2. ASSUME NEW u \in Writers
        PROVE  /\ at'[u] \in {"read", "cas"} => GenOf(u)' > 0
               /\ at'[u] = "cas" => GenOf(u)' > seen'[u].gen
    <3>1. CASE u = w BY <1>1, <1>2, <3>1
    <3>2. CASE u # w BY <1>0, <1>1, <1>2, <3>2 DEF Newer
    <3> QED BY <3>1, <3>2
  <2> QED BY <2>1, <2>2 DEF Newer
<1> QED BY <1>3, <1>4, <1>5 DEF IndexInv

\* run() with a generation and what the job captured: no running job is
\* touched, since the thread that gets the job is new or waits for one.
LEMMA Calling ==
  ASSUME WInv, IndexInv, NEW g \in Nat, NEW k, Run(g),
         UNCHANGED <<index, at, seen>>, latest' \in Nat,
         DOMAIN work' = Jobs, "kind" \in DOMAIN work'[job + 1],
         work'[job + 1].kind = k, k \in Indexed => g > 0,
         \A j \in Jobs \ {job + 1} : work'[j] = work[j]
  PROVE  IndexInv'
<1> USE WorkerAssumption DEF Jobs, Threads
<1>0. /\ IndexTyped /\ Newer /\ Typed /\ Fresh /\ Serves /\ GivenUp
  BY DEF IndexInv, WInv
<1>1. tag' = [tag EXCEPT ![job + 1] = g] /\ has' = has /\ job + 1 \in Jobs
  BY <1>0 DEF Run, Typed
<1>2. tag' \in [Jobs -> Nat] BY <1>0, <1>1 DEF IndexTyped
<1>3. \A j \in Jobs : tag'[j] = IF j = job + 1 THEN g ELSE tag[j]
  BY <1>0, <1>1 DEF IndexTyped
<1>4. \A j \in Jobs : "kind" \in DOMAIN work'[j]
  BY <1>0 DEF IndexTyped
<1>5. \A j \in Jobs : work'[j].kind \in Indexed => tag'[j] > 0
  <2> SUFFICES ASSUME NEW j \in Jobs, work'[j].kind \in Indexed PROVE tag'[j] > 0
    OBVIOUS
  <2>1. CASE j = job + 1 BY <1>3, <2>1
  <2>2. CASE j # job + 1 BY <1>0, <1>3, <2>2 DEF Newer
  <2> QED BY <2>1, <2>2
<1>6. ASSUME NEW t \in Threads, st[t] = "run"
      PROVE  st'[t] = "run" /\ has'[t] = has[t] /\ tag'[has[t]] = tag[has[t]]
  <2>1. has[t] \in Jobs /\ has[t] # job + 1
    <3>1. has[t] # 0 BY <1>0, <1>6 DEF GivenUp
    <3>2. has[t] \in 0..MaxJobs /\ job \in 0..MaxJobs BY <1>0 DEF Typed
    <3>3. has[t] <= job BY <1>0 DEF Fresh
    <3> QED BY <3>1, <3>2, <3>3
  <2>2. t # (IF cur = 0 THEN job + 1 ELSE cur)
    <3>1. CASE cur = 0
      <4>1. st[job + 1] = "unborn" BY <1>0, <1>1 DEF Fresh, Typed
      <4> QED BY <1>6, <3>1, <4>1
    <3>2. CASE cur # 0
      <4>1. st[cur] = "get" BY <1>0, <3>2 DEF Serves, Run
      <4> QED BY <1>6, <3>2, <4>1
    <3> QED BY <3>1, <3>2
  <2>3. st' = [st EXCEPT ![IF cur = 0 THEN job + 1 ELSE cur] =
                            IF cur = 0 THEN "get" ELSE @]
    BY DEF Run
  <2>4. st'[t] = st[t] BY <1>0, <2>2, <2>3 DEF Typed
  <2> QED BY <1>1, <1>3, <1>6, <2>1, <2>4
<1> QED BY <1>2, <1>4, <1>5, <1>6, Away

\* A call of an operation that writes the index.
LEMMA CallingIndexed ==
  ASSUME WInv, IndexInv, NEW k, NEW n, NEW a, CallIndexed(k, n, a),
         UNCHANGED <<index, at, seen>>
  PROVE  IndexInv'
<1> USE WorkerAssumption DEF Jobs, Threads
<1>0. IndexTyped /\ Newer /\ Typed BY DEF IndexInv, WInv
<1>1. NextGen \in Nat /\ NextGen > 0 /\ latest' = NextGen
  BY <1>0 DEF IndexTyped, NextGen, Clock, CallIndexed
<1>2. CASE /\ Run(NextGen)
           /\ work' = [work EXCEPT ![job + 1] =
                         [kind |-> k, name |-> n, names |-> Listed(a)]]
  <2>1. job + 1 \in Jobs BY <1>0, <1>2 DEF Run, Typed
  <2>2. DOMAIN work = Jobs BY <1>0 DEF IndexTyped
  <2>3. work'[job + 1] = [kind |-> k, name |-> n, names |-> Listed(a)]
    BY <1>2, <2>1, <2>2
  <2>4. work'[job + 1].kind = k /\ "kind" \in DOMAIN work'[job + 1] BY <2>3
  <2>5. DOMAIN work' = Jobs /\ \A j \in Jobs \ {job + 1} : work'[j] = work[j]
    BY <1>2, <2>2
  <2> QED BY <1>1, <1>2, <2>4, <2>5, Calling
<1>3. CASE RunRefused /\ UNCHANGED work
  <2>1. UNCHANGED <<tag, has, st>> BY <1>3 DEF RunRefused
  <2> QED BY <1>0, <1>1, <1>3, <2>1, Away DEF IndexTyped, Newer
<1> QED BY <1>2, <1>3 DEF CallIndexed

-----------------------------------------------------------------------------
LEMMA ReporterIndex ==
  ASSUME WInv, IndexInv, Reporter PROVE IndexInv'
<1> USE WorkerAssumption
<1>0. IndexTyped /\ Newer /\ Typed BY DEF IndexInv, WInv
<1>1. UNCHANGED <<index, at, seen>>
  BY DEF Reporter, Incident, Resolved, Collect, Acknowledge, EndOfPipe, CloseWorker,
         Waiting, storeVars, desyncVars
<1>2. ASSUME UNCHANGED <<latest, tag, work, has, st>> PROVE IndexInv'
  BY <1>0, <1>1, <1>2, Away DEF IndexTyped, Newer
<1>3. CASE \E k, n, a : CallIndexed(k, n, a)
  BY <1>1, <1>3, CallingIndexed
<1>4. CASE Collect
  <2>1. CASE Run(0) /\ work' = [work EXCEPT ![job + 1].kind = "collect"]
    <3>1. job + 1 \in Jobs BY <1>0, <2>1 DEF Run, Typed, Jobs
    <3>2. DOMAIN work = Jobs /\ "kind" \in DOMAIN work[job + 1] BY <1>0, <3>1 DEF IndexTyped
    <3>3. work'[job + 1] = [work[job + 1] EXCEPT !.kind = "collect"]
      BY <2>1, <3>1, <3>2
    <3>4. work'[job + 1].kind = "collect" /\ "kind" \in DOMAIN work'[job + 1]
      BY <3>2, <3>3
    <3>5. DOMAIN work' = Jobs /\ \A j \in Jobs \ {job + 1} : work'[j] = work[j]
      BY <2>1, <3>2
    <3>6. latest' \in Nat BY <1>0, <1>4 DEF Collect, IndexTyped
    <3> QED BY <1>1, <2>1, <3>4, <3>5, <3>6, Calling DEF Indexed
  <2>2. CASE RunRefused /\ UNCHANGED work
    BY <1>2, <1>4, <2>2 DEF Collect, RunRefused
  <2> QED BY <1>4, <2>1, <2>2 DEF Collect
<1>5. CASE Acknowledge
  BY <1>2, <1>5 DEF Acknowledge, workerVars
<1>6. CASE CloseWorker
  BY <1>2, <1>6 DEF CloseWorker, workerVars, Close
<1>7. CASE Waiting
  BY <1>2, <1>7 DEF Waiting, desyncVars, Answered, TimesOut, Settle
<1>8. CASE EndOfPipe /\ UNCHANGED <<workerVars, work>>
  BY <1>2, <1>8 DEF workerVars
<1> QED BY <1>3, <1>4, <1>5, <1>6, <1>7, <1>8 DEF Reporter, Incident, Resolved, EndOfPipe

\* Taking and leaving jobs: a thread that runs a job does neither.
LEMMA ServingIndex ==
  ASSUME WInv, IndexInv, Serving PROVE IndexInv'
<1>0. IndexTyped /\ Newer /\ Typed BY DEF IndexInv, WInv
<1>1. UNCHANGED <<index, at, seen, work, latest, tag>>
  BY DEF Serving, desyncVars, TakeStop, TakeJob, Leave
<1>2. PICK u \in Threads : TakeStop(u) \/ TakeJob(u) \/ Leave(u)
  BY DEF Serving
<1>3. st[u] # "run" /\ \A t \in Threads \ {u} : st'[t] = st[t] /\ has'[t] = has[t]
  <2>1. CASE TakeStop(u) BY <1>0, <2>1 DEF TakeStop, Typed
  <2>2. CASE TakeJob(u) BY <1>0, <2>2 DEF TakeJob, Typed
  <2>3. CASE Leave(u) BY <1>0, <2>3 DEF Leave, Typed
  <2> QED BY <1>2, <2>1, <2>2, <2>3
<1> QED BY <1>0, <1>1, <1>3, Away DEF IndexTyped, Newer

\* An operation that ends.
LEMMA Ending ==
  ASSUME WInv, IndexInv, NEW w \in Writers, NEW r, Ends(w, r),
         UNCHANGED <<work, seen>>, index'.gen \in Nat
  PROVE  IndexInv'
<1>0. IndexTyped /\ Newer /\ Typed BY DEF IndexInv, WInv
<1>1. CASE w = Stray
  <2>1. at' = [at EXCEPT ![w] = "end"] /\ UNCHANGED workerVars BY <1>1 DEF Ends
  <2>2. w \notin Threads BY <1>1 DEF Stray, Threads, Jobs
  <2> QED BY <1>0, <2>1, <2>2, Within DEF workerVars, IndexTyped
<1>2. CASE w # Stray
  <2>1. at' = [at EXCEPT ![w] = "start"] /\ OpReturns(w, r) BY <1>2 DEF Ends
  <2>2. \A t \in Threads \ {w} : st'[t] = st[t] BY <1>0, <2>1 DEF OpReturns, Typed
  <2>3. UNCHANGED <<latest, tag, has>> BY <2>1 DEF OpReturns
  <2> QED BY <1>0, <2>1, <2>2, <2>3, Within DEF IndexTyped
<1> QED BY <1>1, <1>2

\* What a step on the store may do to the index: nothing, or a compare_set
\* that found what the writer had read.
LEMMA StoreIndex ==
  ASSUME WInv, IndexInv, StoreSide
  PROVE  IndexInv' /\ (index' # index => index'.gen > index.gen)
<1> USE WorkerAssumption
<1>0. IndexTyped /\ InsideRuns /\ Newer /\ Typed /\ GivenUp BY DEF IndexInv, WInv
<1>1. ASSUME Serving PROVE IndexInv' /\ index' = index
  BY <1>1, ServingIndex DEF Serving, desyncVars
<1>2. ASSUME NEW w \in Writers, ReadIndex(w) PROVE IndexInv' /\ index' = index
  <2>1. UNCHANGED <<index, work>> BY <1>2 DEF ReadIndex
  <2>2. CASE Ends(w, "true") /\ UNCHANGED seen
    BY <1>0, <2>1, <2>2, Ending DEF IndexTyped
  <2>3. CASE /\ ~Superseded(index, GenOf(w))
             /\ seen' = [seen EXCEPT ![w] = index] /\ at' = [at EXCEPT ![w] = "cas"]
             /\ UNCHANGED workerVars
    <3>1. w \in Threads => st[w] = "run"
      BY <1>2 DEF ReadIndex, Busy, Stray, Threads, Jobs
    <3>2. GenOf(w) > 0 /\ GenOf(w) \in Nat
      <4>1. CASE w = Stray BY <4>1 DEF GenOf, StrayGen
      <4>2. CASE w # Stray
        <5>1. w \in Threads /\ has[w] \in Jobs
          BY <1>0, <3>1, <4>2 DEF Writers, GivenUp, Typed, Jobs, Threads
        <5>2. tag[has[w]] \in Nat BY <1>0, <5>1 DEF IndexTyped
        <5>3. at[w] = "read" \/ work[has[w]].kind = "rewrite"
          BY <1>2 DEF ReadIndex, Busy, Kind
        <5>4. GenOf(w) > 0 BY <1>0, <5>1, <5>3, <4>2 DEF Newer, GenOf, Indexed
        <5> QED BY <5>2, <5>4, <4>2 DEF GenOf
      <4> QED BY <4>1, <4>2
    <3>3. GenOf(w) > index.gen
      BY <1>0, <2>3, <3>2 DEF Superseded, NoIndex, IndexTyped
    <3>4. seen'[w] = index /\ DOMAIN seen' = Writers
          /\ \A u \in Writers \ {w} : seen'[u] = seen[u]
      BY <1>0, <2>3 DEF IndexTyped
    <3>5. UNCHANGED <<latest, tag, has, st>> BY <2>3 DEF workerVars
    <3> QED BY <1>0, <2>1, <2>3, <3>1, <3>2, <3>3, <3>4, <3>5, Within DEF IndexTyped
  <2> QED BY <1>2, <2>1, <2>2, <2>3 DEF ReadIndex
<1>3. ASSUME NEW w \in Writers, SwapIndex(w)
      PROVE  IndexInv' /\ (index' # index => index'.gen > index.gen)
  <2>1. UNCHANGED <<work, seen>> /\ at[w] = "cas" /\ (w \in Threads => st[w] = "run")
    BY <1>3 DEF SwapIndex, Busy, Stray, Threads, Jobs
  <2>2. CASE Unchanged(w) /\ index' = NewIndex(w) /\ Ends(w, "true")
    <3>1. index'.gen = GenOf(w) BY <2>2 DEF NewIndex, GenOf
    <3>2. GenOf(w) > index.gen BY <1>0, <2>1, <2>2 DEF Newer, Unchanged
    <3>3. GenOf(w) \in Nat
      <4>1. CASE w = Stray BY <4>1 DEF GenOf, StrayGen
      <4>2. CASE w # Stray
        <5>1. has[w] \in Jobs
          BY <1>0, <2>1, <4>2 DEF Writers, GivenUp, Typed, Jobs, Threads
        <5> QED BY <1>0, <5>1, <4>2 DEF GenOf, IndexTyped
      <4> QED BY <4>1, <4>2
    <3> QED BY <2>1, <2>2, <3>1, <3>2, <3>3, Ending
  <2>3. CASE at' = [at EXCEPT ![w] = "read"] /\ UNCHANGED <<workerVars, index>>
    <3>1. UNCHANGED <<latest, tag, has, st>> BY <2>3 DEF workerVars
    <3>2. GenOf(w) > 0 BY <1>0, <2>1 DEF Newer
    <3> QED BY <1>0, <2>1, <2>3, <3>1, <3>2, Within DEF IndexTyped
  <2>4. CASE Ends(w, "false") /\ UNCHANGED index
    BY <1>0, <2>1, <2>4, Ending DEF IndexTyped
  <2> QED BY <1>3, <2>2, <2>3, <2>4 DEF SwapIndex
<1>4. ASSUME NEW t \in Threads, SetRecord(t) PROVE IndexInv' /\ index' = index
  <2>1. /\ at' = [at EXCEPT ![t] = "read"] /\ UNCHANGED <<workerVars, work, index, seen>>
        /\ work[has[t]].kind = "publish" /\ st[t] = "run" /\ t \in Writers /\ t # Stray
    BY <1>4 DEF SetRecord, Busy, Kind, Writers, Stray, Threads, Jobs
  <2>2. has[t] \in Jobs BY <1>0, <2>1 DEF GivenUp, Typed, Jobs, Threads
  <2>3. GenOf(t) > 0 BY <1>0, <2>1, <2>2 DEF Newer, Indexed, GenOf
  <2> QED BY <1>0, <2>1, <2>3, Within DEF workerVars, IndexTyped
<1>5. ASSUME NEW t \in Threads, CollectIndex(t) PROVE IndexInv' /\ index' = index
  <2>1. /\ at' = [at EXCEPT ![t] = "records"] /\ UNCHANGED <<workerVars, work, index>>
        /\ seen' = [seen EXCEPT ![t] = index]
        /\ st[t] = "run" /\ t \in Writers
    BY <1>5 DEF CollectIndex, Busy, Writers, Stray, Threads, Jobs
  <2>2. /\ seen'[t] = index /\ DOMAIN seen' = Writers
        /\ \A u \in Writers \ {t} : seen'[u] = seen[u]
    BY <1>0, <2>1 DEF IndexTyped
  <2> QED BY <1>0, <2>1, <2>2, Within DEF workerVars, IndexTyped
<1>6. ASSUME NEW t \in Threads, CollectRecords(t) \/ Raises(t)
      PROVE  IndexInv' /\ index' = index
  <2>1. t \in Writers /\ UNCHANGED <<work, index, seen>>
    BY <1>6 DEF CollectRecords, Raises, Writers
  <2>2. CASE CollectRecords(t) BY <1>0, <2>1, <2>2, Ending DEF CollectRecords, IndexTyped
  <2>3. CASE Raises(t) BY <1>0, <2>1, <2>3, Ending DEF Raises, IndexTyped
  <2> QED BY <1>6, <2>2, <2>3
<1>7. ASSUME NEW t \in Threads, SwapUnanswered(t)
      PROVE  IndexInv' /\ (index' # index => index'.gen > index.gen)
  <2>1. /\ UNCHANGED <<work, seen>> /\ at[t] = "cas" /\ st[t] = "run" /\ t \in Writers
        /\ t # Stray /\ Unchanged(t) /\ index' = NewIndex(t) /\ Ends(t, "error")
    BY <1>7 DEF SwapUnanswered, Busy, Stray, Threads, Jobs, Writers
  <2>2. index'.gen = GenOf(t) BY <2>1 DEF NewIndex, GenOf
  <2>3. GenOf(t) > index.gen BY <1>0, <2>1 DEF Newer, Unchanged
  <2>4. GenOf(t) \in Nat
    <3>1. has[t] \in Jobs
      BY <1>0, <2>1 DEF Writers, GivenUp, Typed, Jobs, Threads
    <3> QED BY <1>0, <2>1, <3>1 DEF GenOf, IndexTyped
  <2> QED BY <2>1, <2>2, <2>3, <2>4, <1>0, Ending
<1> QED BY <1>1, <1>2, <1>3, <1>4, <1>5, <1>6, <1>7 DEF StoreSide

LEMMA NextIndex ==
  ASSUME WInv, IndexInv, [DesyncNext]_vars
  PROVE  WInv' /\ IndexInv' /\ Refined /\ (index' # index => index'.gen > index.gen)
<1>1. WInv' /\ Refined
  <2>1. WorkerStep \/ UNCHANGED workerVars
    BY DesyncWorker DEF vars
  <2> QED BY <2>1, WorkerSteps
<1>2. CASE UNCHANGED vars
  <2>1. UNCHANGED <<latest, tag, has, st, work, index, at, seen>>
    BY <1>2 DEF vars, workerVars, desyncVars
  <2> QED BY <1>1, <2>1, Away DEF IndexInv, IndexTyped, Newer
<1>3. CASE Reporter
  <2>1. index' = index
    BY <1>3 DEF Reporter, Incident, Resolved, Collect, Acknowledge, EndOfPipe, CloseWorker,
                Waiting, storeVars, desyncVars
  <2> QED BY <1>1, <1>3, <2>1, ReporterIndex
<1>4. CASE StoreSide
  BY <1>1, <1>4, StoreIndex
<1> QED BY <1>2, <1>3, <1>4 DEF DesyncNext

-----------------------------------------------------------------------------
(* What a True tells the reporter: the index is at its latest generation, and *)
(* names what it has published.                                               *)

\* Generations of this incarnation are above the stray write's and given out in
\* order; only what writes the index has one.
Generations ==
  /\ latest = 0 \/ latest >= Clock
  /\ index.gen <= IF latest = 0 THEN StrayGen ELSE latest
  /\ \A j \in Jobs : tag[j] <= latest /\ (tag[j] > 0 => work[j].kind \in Indexed)

\* The latest generation names what is published.
NamesPublished ==
  /\ \A j \in Jobs : work[j].kind \in Indexed /\ tag[j] = latest =>
                       work[j].names = Listed(active)
  /\ index.gen = latest => index.names = Listed(active)

\* A job that wrote the index and answered True left it at its generation, or
\* found it above.
Written ==
  /\ \A j \in Jobs : j > job => box[j] = "empty"
  /\ \A j \in Jobs : work[j].kind \in Indexed /\ box[j] = "true" => index.gen >= tag[j]
  /\ \A t \in Threads : at[t] = "records" => Kind(t) = "collect"

\* What a call asks for, and what a True of the last call tells: the index is
\* at the latest generation.
AtLatest == latest > 0 /\ index.gen >= latest
Asked == pc # "idle" => \/ work[job].kind \in Indexed /\ tag[job] = latest /\ latest > 0
                        \/ work[job].kind = "collect" /\ AtLatest
Told  == pc = "idle" /\ ret = "true" => AtLatest

\* The reporter ends with nothing published.
EndsEmpty == /\ rp \in {"last", "closing", "ended"} => Listed(active) = {}
             /\ rp = "ended" => pc = "idle"

EmptyInv == /\ Generations /\ NamesPublished /\ Written /\ Asked /\ Told /\ EndsEmpty

LEMMA InitEmptyInv == Init => EmptyInv
<1> SUFFICES ASSUME Init PROVE EmptyInv OBVIOUS
<1> USE WorkerAssumption DEF Init, WorkerInit, Jobs, Threads
<1>1. index.gen \in {0, 1} /\ (index.gen = 0 => index.names = {})
  BY DEF NoIndex, StrayGen
<1>2. \A j \in Jobs : work[j].kind \notin Indexed
  BY DEF NoWork, Indexed
<1>3. Listed(active) = {}
  BY DEF Listed
<1>4. \A t \in Threads : at[t] = "start"
  BY DEF Writers, Stray
<1>5. latest = 0 /\ \A j \in Jobs : tag[j] = 0 /\ box[j] = "empty"
  OBVIOUS
<1>6. Generations
  BY <1>1, <1>5 DEF Generations, StrayGen, Clock
<1>7. NamesPublished
  BY <1>1, <1>2, <1>3, <1>5 DEF NamesPublished
<1>8. Written
  BY <1>4, <1>5 DEF Written
<1>9. Asked /\ Told /\ EndsEmpty
  BY DEF Asked, Told, EndsEmpty
<1> QED BY <1>6, <1>7, <1>8, <1>9 DEF EmptyInv

\* A step outside the reporter's calls: the index may move on, to a generation
\* that was given out and to what it names, and a running job may end.
LEMMA EmptyStore ==
  ASSUME WInv, IndexInv, EmptyInv, UNCHANGED <<latest, tag, work, active, rp, pc, ret, job>>,
         index' = index \/
           /\ index'.gen \in Nat /\ index'.gen > index.gen
           /\ index'.gen <= IF latest = 0 THEN StrayGen ELSE latest
           /\ index'.gen = latest => index'.names = Listed(active),
         \A j \in Jobs : box'[j] = box[j] \/
           (j <= job /\ (work[j].kind \in Indexed /\ box'[j] = "true" => index'.gen >= tag[j])),
         \A t \in Threads : at'[t] = "records" => work[has'[t]].kind = "collect"
  PROVE  EmptyInv'
<1>1. /\ latest \in Nat /\ index.gen \in Nat /\ \A j \in Jobs : tag[j] \in Nat
      /\ job \in Nat
  BY DEF IndexInv, IndexTyped, WInv, Typed
<1>2. index'.gen \in Nat /\ index'.gen >= index.gen  BY <1>1
<1>3. Listed(active)' = Listed(active)  BY DEF Listed
<1>4. Generations' /\ NamesPublished'
  BY <1>3 DEF EmptyInv, Generations, NamesPublished
<1>5. Written'
  <2>1. \A j \in Jobs : j > job' => box'[j] = "empty"
    BY <1>1 DEF EmptyInv, Written, Jobs
  <2>2. \A j \in Jobs : work'[j].kind \in Indexed /\ box'[j] = "true" => index'.gen >= tag'[j]
    BY <1>1, <1>2 DEF EmptyInv, Written
  <2> QED BY <2>1, <2>2 DEF Written, Kind
<1>6. AtLatest => AtLatest'  BY <1>1, <1>2 DEF AtLatest
<1> QED BY <1>3, <1>4, <1>5, <1>6 DEF EmptyInv, Asked, Told, EndsEmpty

\* What the writer of the index writes: a generation that was given out, and if
\* it is the latest, what is published.
LEMMA EmptyWrites ==
  ASSUME WInv, IndexInv, EmptyInv, NEW w \in Writers, at[w] = "cas",
         w \in Threads => st[w] = "run"
  PROVE  /\ NewIndex(w).gen = GenOf(w) /\ GenOf(w) \in Nat
         /\ GenOf(w) <= IF latest = 0 THEN StrayGen ELSE latest
         /\ GenOf(w) = latest => NewIndex(w).names = Listed(active)
<1>1. CASE w = Stray
  BY <1>1 DEF NewIndex, GenOf, EmptyInv, Generations, StrayGen, Clock, IndexInv, IndexTyped
<1>2. CASE w # Stray
  <2>1. w \in Threads /\ has[w] \in Jobs
    BY <1>2 DEF Writers, WInv, GivenUp, Typed, Jobs, Threads
  <2>2. GenOf(w) = tag[has[w]] /\ tag[has[w]] > 0 /\ tag[has[w]] \in Nat /\ latest \in Nat
    BY <1>2, <2>1 DEF GenOf, IndexInv, Newer, IndexTyped
  <2>3. work[has[w]].kind \in Indexed /\ tag[has[w]] <= latest
    BY <2>1, <2>2 DEF EmptyInv, Generations
  <2>4. NewIndex(w) = [gen |-> tag[has[w]], names |-> work[has[w]].names]
    BY <1>2 DEF NewIndex
  <2> QED BY <2>1, <2>2, <2>3, <2>4 DEF EmptyInv, NamesPublished
<1> QED BY <1>1, <1>2

\* An operation that ends: True only with the index at its generation.
LEMMA EmptyEnds ==
  ASSUME WInv, IndexInv, EmptyInv, NEW w \in Writers, NEW r, Ends(w, r),
         w \in Threads => st[w] = "run",
         UNCHANGED <<rp, active, work>>,
         index' = index \/ (at[w] = "cas" /\ index' = NewIndex(w) /\ index'.gen > index.gen),
         w # Stray /\ r = "true" => work[has[w]].kind \notin Indexed \/ index'.gen >= tag[has[w]]
  PROVE  EmptyInv'
<1>0. IndexTyped /\ Typed /\ Fresh /\ GivenUp  BY DEF IndexInv, WInv
<1>1. UNCHANGED <<latest, tag, pc, ret, job, has>>
  BY DEF Ends, workerVars, OpReturns
<1>2. \A t \in Threads : at'[t] = "records" => at[t] = "records" /\ has'[t] = has[t]
  BY <1>0, <1>1 DEF Ends, IndexTyped, Writers
<1>3. \A t \in Threads : at'[t] = "records" => work[has'[t]].kind = "collect"
  BY <1>2 DEF EmptyInv, Written, Kind
<1>4. \A j \in Jobs : box'[j] = box[j] \/
        (j <= job /\ (work[j].kind \in Indexed /\ box'[j] = "true" => index'.gen >= tag[j]))
  <2>1. CASE w = Stray
    <3>1. UNCHANGED workerVars  BY <2>1 DEF Ends
    <3>2. UNCHANGED box  BY <3>1 DEF workerVars
    <3> QED BY <3>2
  <2>2. CASE w # Stray
    <3>1. w \in Threads /\ has[w] \in Jobs /\ has[w] <= job
      BY <1>0, <2>2 DEF Writers, GivenUp, Typed, Jobs, Threads, Fresh
    <3>2. box' = [box EXCEPT ![has[w]] = r]  BY <2>2 DEF Ends, OpReturns
    <3>3. box'[has[w]] = r /\ \A j \in Jobs : j # has[w] => box'[j] = box[j]
      BY <1>0, <3>1, <3>2 DEF Typed
    <3>4. work[has[w]].kind \in Indexed /\ r = "true" => index'.gen >= tag[has[w]]
      BY <2>2
    <3> HIDE DEF Indexed
    <3> QED BY <3>1, <3>3, <3>4
  <2> QED BY <2>1, <2>2
<1>5. index' = index \/
        /\ index'.gen \in Nat /\ index'.gen > index.gen
        /\ index'.gen <= IF latest = 0 THEN StrayGen ELSE latest
        /\ index'.gen = latest => index'.names = Listed(active)
  BY EmptyWrites
<1> QED BY <1>1, <1>3, <1>4, <1>5, EmptyStore

LEMMA EmptyStoreSide ==
  ASSUME WInv, IndexInv, EmptyInv, StoreSide,
         index' # index => index'.gen > index.gen
  PROVE  EmptyInv'
<1> USE WorkerAssumption
<1>0. IndexTyped /\ InsideRuns /\ Typed /\ GivenUp /\ Fresh  BY DEF IndexInv, WInv
<1>r. \A t \in Threads : at[t] = "records" => work[has[t]].kind = "collect"
  BY DEF EmptyInv, Written, Kind
<1>1. ASSUME NEW u \in Threads, TakeStop(u) \/ TakeJob(u) \/ Leave(u), UNCHANGED desyncVars
      PROVE  EmptyInv'
  <2>1. UNCHANGED <<latest, tag, work, active, rp, pc, ret, job, index, at>>
    BY <1>1 DEF desyncVars, TakeStop, TakeJob, Leave
  <2>2. \A t \in Threads : at'[t] = "records" => work[has'[t]].kind = "collect"
    <3>1. at[u] = "start"  BY <1>0, <1>1 DEF InsideRuns, TakeStop, TakeJob, Leave
    <3>2. \A t \in Threads : t # u => has'[t] = has[t]
      BY <1>0, <1>1 DEF TakeStop, TakeJob, Leave, Typed
    <3> QED BY <1>r, <2>1, <3>1, <3>2
  <2>3. \A j \in Jobs : box'[j] = box[j] \/ (j <= job /\ box'[j] # "true")
    <3>1. CASE UNCHANGED box  BY <3>1
    <3>2. CASE TakeJob(u) /\ box' = [box EXCEPT ![Head(q[u])] = "none"]
      <4>1. Head(q[u]) <= job
        BY <1>0, <3>2, RangeTail DEF TakeJob, Typed, Fresh
      <4> QED BY <1>0, <3>2, <4>1 DEF Typed
    <3> QED BY <1>1, <3>1, <3>2 DEF TakeStop, TakeJob, Leave
  <2>4. index' = index /\ \A j \in Jobs : box'[j] = box[j] \/
          (j <= job /\ (work[j].kind \in Indexed /\ box'[j] = "true" => index'.gen >= tag[j]))
    BY <2>1, <2>3
  <2> QED BY <2>1, <2>2, <2>4, EmptyStore
<1>2. ASSUME NEW w \in Writers, NEW s, at' = [at EXCEPT ![w] = s],
             UNCHANGED <<workerVars, rp, active, work, index>>,
             s # "records" \/ (w \in Threads /\ Kind(w) = "collect")
      PROVE  EmptyInv'
  <2>1. UNCHANGED <<latest, tag, pc, ret, job, has, box>>  BY <1>2 DEF workerVars
  <2>2. \A t \in Threads : at'[t] = IF t = w THEN s ELSE at[t]
    BY <1>0, <1>2 DEF IndexTyped, Writers
  <2>3. \A t \in Threads : at'[t] = "records" => work[has'[t]].kind = "collect"
    BY <1>2, <1>r, <2>1, <2>2 DEF Kind
  <2>4. index' = index /\ \A j \in Jobs : box'[j] = box[j]
    BY <1>2, <2>1
  <2> QED BY <1>2, <2>1, <2>3, <2>4, EmptyStore
<1>3. ASSUME NEW w \in Writers, ReadIndex(w) PROVE EmptyInv'
  <2>1. CASE Superseded(index, GenOf(w)) /\ Ends(w, "true")
    <3>1. w # Stray => index.gen >= tag[has[w]]  BY <2>1 DEF Superseded, GenOf
    <3>2. w \in Threads => st[w] = "run"  BY <1>3 DEF ReadIndex, Busy, Stray, Threads, Jobs
    <3> QED BY <1>3, <2>1, <3>1, <3>2, EmptyEnds DEF ReadIndex
  <2>2. CASE at' = [at EXCEPT ![w] = "cas"] /\ UNCHANGED workerVars
    BY <1>2, <1>3, <2>2 DEF ReadIndex
  <2> QED BY <1>3, <2>1, <2>2 DEF ReadIndex
<1>4. ASSUME NEW w \in Writers, SwapIndex(w) PROVE EmptyInv'
  <2>0. at[w] = "cas" /\ (w \in Threads => st[w] = "run") /\ UNCHANGED <<rp, active, work>>
    BY <1>4 DEF SwapIndex, Busy, Stray, Threads, Jobs
  <2>1. CASE Unchanged(w) /\ index' = NewIndex(w) /\ Ends(w, "true")
    <3>1. index'.gen = GenOf(w) /\ GenOf(w) \in Nat  BY <2>0, <2>1, EmptyWrites
    <3>2. w # Stray => index'.gen >= tag[has[w]]  BY <3>1 DEF GenOf
    <3> QED BY <2>0, <2>1, <3>2, EmptyEnds
  <2>2. CASE at' = [at EXCEPT ![w] = "read"] /\ UNCHANGED <<workerVars, index>>
    BY <1>2, <2>0, <2>2
  <2>3. CASE Ends(w, "false") /\ UNCHANGED index
    BY <2>0, <2>3, EmptyEnds
  <2> QED BY <1>4, <2>1, <2>2, <2>3 DEF SwapIndex
<1>5. ASSUME NEW t \in Threads, SetRecord(t) PROVE EmptyInv'
  BY <1>2, <1>5 DEF SetRecord, Writers
<1>6. ASSUME NEW t \in Threads, CollectIndex(t) PROVE EmptyInv'
  BY <1>2, <1>6 DEF CollectIndex, Writers
<1>7. ASSUME NEW t \in Threads, CollectRecords(t) PROVE EmptyInv'
  <2>1. st[t] = "run" /\ work[has[t]].kind = "collect"
    BY <1>7, <1>r DEF CollectRecords, Busy, Stray, Threads, Jobs
  <2> QED BY <1>7, <2>1, EmptyEnds DEF CollectRecords, Indexed, Writers
<1>8. ASSUME NEW t \in Threads, Raises(t) PROVE EmptyInv'
  BY <1>8, EmptyEnds DEF Raises, Writers
<1>9. ASSUME NEW t \in Threads, SwapUnanswered(t) PROVE EmptyInv'
  <2>1. /\ at[t] = "cas" /\ st[t] = "run" /\ t \in Writers /\ UNCHANGED <<rp, active, work>>
        /\ Unchanged(t) /\ index' = NewIndex(t) /\ Ends(t, "error")
    BY <1>9 DEF SwapUnanswered, Busy, Stray, Threads, Jobs, Writers
  <2>2. index'.gen = GenOf(t) /\ GenOf(t) \in Nat  BY <2>1, EmptyWrites
  <2>3. t # Stray => index'.gen >= tag[has[t]]  BY <2>2 DEF GenOf
  <2> QED BY <2>1, <2>3, EmptyEnds
<1> QED BY <1>1, <1>3, <1>4, <1>5, <1>6, <1>7, <1>8, <1>9 DEF StoreSide, Serving

\* A call that writes the index: no index and no job is at its generation yet.
LEMMA EmptyCall ==
  ASSUME WInv, IndexInv, EmptyInv, NEW k \in Indexed, NEW n, NEW a, CallIndexed(k, n, a),
         UNCHANGED <<index, at>>, rp' \in {"publish", "rewrite", "last"},
         rp' = "last" => Listed(a) = {}
  PROVE  EmptyInv'
<1> USE WorkerAssumption
<1>0. IndexTyped /\ InsideRuns /\ Newer /\ Typed /\ Fresh  BY DEF IndexInv, WInv
<1>1. /\ latest \in Nat /\ index.gen \in Nat /\ latest' = NextGen /\ latest' \in Nat
      /\ latest' >= Clock /\ latest' > 0 /\ latest' > latest /\ latest' > index.gen
  BY <1>0 DEF CallIndexed, NextGen, IndexTyped, EmptyInv, Generations, Clock, StrayGen
<1>2. active' = a /\ UNCHANGED <<box, has>> /\ job \in 0..MaxJobs
  BY <1>0 DEF CallIndexed, Run, RunRefused, Typed
<1>3. EndsEmpty'  BY <1>2 DEF EndsEmpty, Listed
<1>4. CASE Run(NextGen) /\ work' = [work EXCEPT ![job + 1] =
                             [kind |-> k, name |-> n, names |-> Listed(a)]]
  <2>1. job' = job + 1 /\ job + 1 \in Jobs /\ pc' = "waiting"
        /\ tag' = [tag EXCEPT ![job + 1] = latest']
    BY <1>1, <1>2, <1>4 DEF Run, Jobs
  <2>2. /\ \A j \in Jobs : tag'[j] = IF j = job + 1 THEN latest' ELSE tag[j]
        /\ work'[job + 1] = [kind |-> k, name |-> n, names |-> Listed(a)]
        /\ \A j \in Jobs : j # job + 1 => work'[j] = work[j]
    BY <1>0, <1>4, <2>1 DEF IndexTyped
  <2>3. work'[job + 1].kind = k /\ work'[job + 1].names = Listed(a)  BY <2>2
  <2>4. \A j \in Jobs : j # job + 1 => tag'[j] = tag[j] /\ tag[j] <= latest /\ tag[j] \in Nat
    BY <1>0, <2>2 DEF EmptyInv, Generations, IndexTyped
  <2>5. Generations'
    <3>1. \A j \in Jobs : tag'[j] <= latest' /\ (tag'[j] > 0 => work'[j].kind \in Indexed)
      BY <1>1, <2>2, <2>3, <2>4 DEF EmptyInv, Generations
    <3> QED BY <1>1, <3>1 DEF Generations
  <2>6. NamesPublished'
    <3>1. \A j \in Jobs : tag'[j] = latest' => j = job + 1  BY <1>1, <2>4
    <3> QED BY <1>1, <1>2, <2>3, <3>1 DEF NamesPublished, Listed
  <2>7. Written'
    <3>1. \A t \in Threads : at[t] = "records" => has[t] \in Jobs /\ has[t] # job + 1
      <4> SUFFICES ASSUME NEW t \in Threads, at[t] = "records"
                   PROVE  has[t] \in Jobs /\ has[t] # job + 1
        OBVIOUS
      <4>1. st[t] = "run"  BY <1>0 DEF InsideRuns
      <4>2. has[t] # 0 /\ has[t] \in 0..MaxJobs /\ has[t] <= job
        BY <1>0, <4>1 DEF WInv, GivenUp, Typed, Fresh
      <4> QED BY <1>2, <4>2 DEF Jobs
    <3>2. \A j \in Jobs : j > job' => box'[j] = "empty"
      BY <1>2, <2>1 DEF EmptyInv, Written, Jobs
    <3>3. box[job + 1] = "empty"  BY <1>2, <2>1 DEF EmptyInv, Written, Jobs
    <3>4. \A j \in Jobs : work'[j].kind \in Indexed /\ box'[j] = "true" => index'.gen >= tag'[j]
      BY <1>2, <2>2, <2>4, <3>3 DEF EmptyInv, Written
    <3>5. \A t \in Threads : at'[t] = "records" => Kind(t)' = "collect"
      BY <1>2, <2>2, <3>1 DEF EmptyInv, Written, Kind
    <3> QED BY <3>2, <3>4, <3>5 DEF Written
  <2>8. Asked' /\ Told'
    BY <1>1, <2>1, <2>2, <2>3 DEF Asked, Told
  <2> QED BY <1>3, <2>5, <2>6, <2>7, <2>8 DEF EmptyInv
<1>5. CASE RunRefused /\ UNCHANGED work
  <2>1. UNCHANGED <<tag, job, pc>> /\ pc = "idle" /\ ret' = "refused"  BY <1>5 DEF RunRefused
  <2>2. \A j \in Jobs : tag[j] <= latest /\ tag[j] \in Nat
    BY <1>0 DEF EmptyInv, Generations, IndexTyped
  <2>3. Generations'
    BY <1>1, <1>5, <2>1, <2>2 DEF EmptyInv, Generations
  <2>4. NamesPublished'
    BY <1>1, <2>1, <2>2 DEF NamesPublished
  <2>5. Written' /\ Asked' /\ Told'
    BY <1>2, <1>5, <2>1 DEF EmptyInv, Written, Kind, Asked, Told
  <2> QED BY <1>3, <2>3, <2>4, <2>5 DEF EmptyInv
<1> QED BY <1>4, <1>5 DEF CallIndexed

\* The second call of a report, made on a True.
LEMMA EmptyCollect ==
  ASSUME WInv, IndexInv, EmptyInv, Collect
  PROVE  EmptyInv'
<1> USE WorkerAssumption
<1>0. IndexTyped /\ InsideRuns /\ Newer /\ Typed /\ Fresh  BY DEF IndexInv, WInv
<1>1. /\ UNCHANGED <<latest, active, index, at, box, has>> /\ rp' = "collect"
      /\ pc = "idle" /\ ret = "true" /\ job \in 0..MaxJobs
  BY <1>0 DEF Collect, Run, RunRefused, storeVars, Typed
<1>2. AtLatest /\ AtLatest'  BY <1>1 DEF EmptyInv, Told, AtLatest
<1>3. Listed(active)' = Listed(active)  BY <1>1 DEF Listed
<1>4. EndsEmpty'  BY <1>1 DEF EndsEmpty
<1>5. CASE Run(0) /\ work' = [work EXCEPT ![job + 1].kind = "collect"]
  <2>1. job' = job + 1 /\ job + 1 \in Jobs /\ tag' = [tag EXCEPT ![job + 1] = 0]
        /\ pc' = "waiting"
    BY <1>1, <1>5 DEF Run, Jobs
  <2>2. /\ \A j \in Jobs : tag'[j] = IF j = job + 1 THEN 0 ELSE tag[j]
        /\ \A j \in Jobs : j # job + 1 => work'[j] = work[j]
        /\ work'[job + 1].kind = "collect"
    <3>1. DOMAIN work = Jobs /\ "kind" \in DOMAIN work[job + 1]  BY <1>0, <2>1 DEF IndexTyped
    <3>2. work'[job + 1] = [work[job + 1] EXCEPT !.kind = "collect"]
      BY <1>5, <2>1, <3>1
    <3>3. \A j \in Jobs : j # job + 1 => work'[j] = work[j]
      BY <1>5, <3>1
    <3> QED BY <1>0, <2>1, <3>1, <3>2, <3>3 DEF IndexTyped
  <2>3. work'[job + 1].kind \notin Indexed  BY <2>2 DEF Indexed
  <2>4. Generations'
    <3>1. latest \in Nat  BY <1>0 DEF IndexTyped
    <3> QED BY <1>1, <2>2, <3>1 DEF EmptyInv, Generations
  <2>5. NamesPublished'
    BY <1>1, <1>3, <2>2, <2>3 DEF EmptyInv, NamesPublished
  <2>6. Written'
    <3>1. \A j \in Jobs : j > job' => box'[j] = "empty"
      BY <1>1, <2>1 DEF EmptyInv, Written, Jobs
    <3>2. \A t \in Threads : at'[t] = "records" => Kind(t)' = "collect"
      <4> SUFFICES ASSUME NEW t \in Threads, at[t] = "records" PROVE Kind(t)' = "collect"
        BY <1>1
      <4>1. st[t] = "run"  BY <1>0 DEF InsideRuns
      <4>2. has[t] \in Jobs
        BY <1>0, <4>1 DEF WInv, GivenUp, Typed, Jobs, Threads
      <4> QED BY <1>1, <2>2, <4>2 DEF EmptyInv, Written, Kind
    <3> QED BY <1>1, <2>2, <2>3, <3>1, <3>2 DEF EmptyInv, Written
  <2>7. Asked' /\ Told'
    BY <1>2, <2>1, <2>2 DEF Asked, Told
  <2> QED BY <1>4, <2>4, <2>5, <2>6, <2>7 DEF EmptyInv
<1>6. CASE RunRefused /\ UNCHANGED work
  <2>1. UNCHANGED <<tag, job, pc>> /\ ret' = "refused"  BY <1>6 DEF RunRefused
  <2>2. Generations' /\ NamesPublished' /\ Written'
    BY <1>1, <1>3, <1>6, <2>1 DEF EmptyInv, Generations, NamesPublished, Written, Kind
  <2> QED BY <1>1, <1>4, <2>1, <2>2 DEF EmptyInv, Asked, Told
<1> QED BY <1>5, <1>6 DEF Collect

LEMMA EmptyReporter ==
  ASSUME WInv, IndexInv, EmptyInv, Reporter
  PROVE  EmptyInv'
<1>1. ASSUME NEW c \in Comms, Incident(c) \/ Resolved(c) PROVE EmptyInv'
  BY <1>1, EmptyCall DEF Incident, Resolved, storeVars, Indexed
\* What the reporter does between two calls, and the end of a call.
<1>2. ASSUME UNCHANGED <<latest, active, work, index, at, box, has, tag, job>>,
             pc' = "idle" \/ pc' = pc, Told',
             rp' \in {"last", "closing", "ended"} => Listed(active) = {},
             rp' = "ended" => pc' = "idle"
      PROVE  EmptyInv'
  <2>1. Listed(active)' = Listed(active)  BY <1>2 DEF Listed
  <2>2. Generations' /\ NamesPublished' /\ Written'
    BY <1>2, <2>1 DEF EmptyInv, Generations, NamesPublished, Written, Kind
  <2>3. Asked' /\ EndsEmpty'
    BY <1>2, <2>1 DEF EmptyInv, Asked, AtLatest, EndsEmpty
  <2> QED BY <1>2, <2>2, <2>3 DEF EmptyInv
<1>3. CASE Acknowledge
  <2>1. Told'  BY <1>3 DEF Acknowledge, workerVars, storeVars, EmptyInv, Told, AtLatest
  <2> QED BY <1>2, <1>3, <2>1 DEF Acknowledge, workerVars, storeVars
<1>4. CASE EndOfPipe
  <2>1. CASE CallIndexed("rewrite", 0, [c \in Comms |-> 0]) /\ rp' = "last"
    <3>1. Listed([c \in Comms |-> 0]) = {}  BY DEF Listed
    <3> QED BY <1>4, <2>1, <3>1, EmptyCall DEF EndOfPipe, storeVars, Indexed
  <2>2. CASE Listed(active) = {} /\ rp' = "closing" /\ UNCHANGED <<workerVars, active, work>>
    <3>1. Told'
      BY <1>4, <2>2 DEF EndOfPipe, storeVars, workerVars, EmptyInv, Told, AtLatest
    <3> QED BY <1>2, <1>4, <2>2, <3>1 DEF EndOfPipe, storeVars, workerVars
  <2> QED BY <1>4, <2>1, <2>2 DEF EndOfPipe
<1>5. CASE CloseWorker
  <2>1. UNCHANGED <<pc, ret, latest, active, work, index, at, box, has, tag, job>>
    BY <1>5 DEF CloseWorker, workerVars, storeVars, Close
  <2>2. Told'  BY <2>1 DEF EmptyInv, Told, AtLatest
  <2>3. Listed(active) = {} /\ pc = "idle"  BY <1>5 DEF CloseWorker, EmptyInv, EndsEmpty
  <2> QED BY <1>2, <2>1, <2>2, <2>3
<1>6. CASE Waiting
  <2>1. /\ UNCHANGED <<rp, latest, active, work, index, at, box, has, tag, job>>
        /\ pc # "idle"
        /\ \/ pc' # "idle"
           \/ pc' = "idle" /\ ret' \in {"none", Unboxed}
    BY <1>6 DEF Waiting, desyncVars, Answered, TimesOut, Settle
  <2>2. ret' = "true" /\ pc' = "idle" => AtLatest'
    <3> SUFFICES ASSUME ret' = "true", pc' = "idle" PROVE AtLatest
      BY <2>1 DEF AtLatest
    <3>1. box[job] = "true"  BY <2>1 DEF Unboxed
    <3>2. job \in Jobs
      BY <2>1, WorkerAssumption DEF WInv, Elsewhere, Serves, Typed, Jobs
    <3>3. CASE work[job].kind \in Indexed /\ tag[job] = latest /\ latest > 0
      BY <3>1, <3>2, <3>3 DEF EmptyInv, Written, AtLatest
    <3> QED BY <2>1, <3>3 DEF EmptyInv, Asked
  <2>3. Told'  BY <2>2 DEF Told
  <2>4. rp # "ended"  BY <2>1 DEF EmptyInv, EndsEmpty
  <2>5. EndsEmpty'  BY <2>1, <2>4 DEF EmptyInv, EndsEmpty, Listed
  <2>6. Listed(active)' = Listed(active)  BY <2>1 DEF Listed
  <2>7. Generations' /\ NamesPublished' /\ Written' /\ Asked'
    BY <2>1, <2>6 DEF EmptyInv, Generations, NamesPublished, Written, Kind, Asked, AtLatest
  <2> QED BY <2>3, <2>5, <2>7 DEF EmptyInv
<1> QED BY <1>1, <1>3, <1>4, <1>5, <1>6, EmptyCollect DEF Reporter

LEMMA NextEmpty ==
  ASSUME WInv, IndexInv, EmptyInv, [DesyncNext]_vars
  PROVE  EmptyInv'
<1>1. CASE UNCHANGED vars
  <2>1. UNCHANGED <<index, latest, tag, work, active, rp, pc, ret, job, box, has, at>>
    BY <1>1 DEF vars, workerVars, desyncVars
  <2>2. \A t \in Threads : at'[t] = "records" => work[has'[t]].kind = "collect"
    BY <2>1 DEF EmptyInv, Written, Kind
  <2> QED BY <2>1, <2>2, EmptyStore
<1> QED BY <1>1, NextIndex, EmptyStoreSide, EmptyReporter DEF DesyncNext

-----------------------------------------------------------------------------
\* A rank's index never moves back (_set_index: "a write that lands late never
\* rolls a newer index back"), for any number of abandoned jobs, and with the
\* write an earlier incarnation left behind.
THEOREM IndexMovesForward == DesyncSpec => IndexForward
<1>1. WInv /\ IndexInv /\ [DesyncNext]_vars => [index'.gen > index.gen]_index
  BY NextIndex
<1>2. WInv /\ IndexInv /\ [DesyncNext]_vars => (WInv /\ IndexInv)'
  BY NextIndex
<1> QED BY <1>1, <1>2, InitIndexInv, PTL DEF DesyncSpec, IndexForward

\* A group that ended and was told True by its last call leaves no active incident
\* in its index (_set_index, the reporter's last rewrite), whatever abandoned jobs
\* and the write of an earlier incarnation do after it.
THEOREM EndLeavesNoIncident == DesyncSpec => []EndedMeansEmpty
<1>1. Init => WInv /\ IndexInv /\ EmptyInv
  BY InitIndexInv, InitEmptyInv
<1>2. WInv /\ IndexInv /\ EmptyInv /\ [DesyncNext]_vars => (WInv /\ IndexInv /\ EmptyInv)'
  BY NextIndex, NextEmpty
<1>3. WInv /\ IndexInv /\ EmptyInv => EndedMeansEmpty
  <2> SUFFICES ASSUME IndexInv, EmptyInv, rp = "ended", ret = "true" PROVE index.names = {}
    BY DEF EndedMeansEmpty
  <2>1. Listed(active) = {} /\ latest > 0 /\ index.gen >= latest
    BY DEF EmptyInv, EndsEmpty, Told, AtLatest
  <2>2. index.gen = latest
    BY <2>1 DEF EmptyInv, Generations, IndexInv, IndexTyped
  <2> QED BY <2>1, <2>2 DEF EmptyInv, NamesPublished
<1> QED BY <1>1, <1>2, <1>3, PTL DEF DesyncSpec

\* The reporter's worker, with a generation moved by every call, keeps the
\* promise of BoundedCalls as well.
THEOREM ReporterImplements == DesyncSpec => CallsBounded
<1>1. Init => WInv /\ IndexInv /\ Calls!Init
  BY InitIndexInv, InitRefined DEF Init
<1>2. WInv /\ IndexInv /\ [DesyncNext]_vars =>
        (WInv /\ IndexInv)' /\ [Calls!Next]_(Calls!vars)
  BY NextIndex DEF Refined
<1> QED BY <1>1, <1>2, PTL DEF DesyncSpec, CallsBounded, Calls!Spec
=============================================================================
