----------------------------- MODULE CollStreamsInv -----------------------------
(***************************************************************************)
(* The inductive invariants of CollStreams, and the relations in which     *)
(* their proofs follow a host step: CollStreams_proofs proves that every   *)
(* step keeps them.                                                        *)
(*                                                                         *)
(* StreamsInv says what makes it safe to give memory back: a release waits *)
(* behind every operation that touches its buffer (Ordered), because an    *)
(* operation on a live buffer is either on the owner's stream, or on a     *)
(* stream recorded on the buffer, or on the comm stream while the fence is *)
(* deferred by an open block (Guarded) - and what is deferred is alive     *)
(* (HeldAlive).                                                            *)
(*                                                                         *)
(* ValueInv says, of every call that did not raise (Sound), what the line  *)
(* holds: the comm stream's operations followed by the group's.  Each of   *)
(* the call's operations finds on the line before it, or in memory, what   *)
(* it has to read (Flows); none passes the producer of its input (Ahead);  *)
(* and where its caller may look, the tensors it still refers to end with  *)
(* the expected value: after the copies back a block deferred (Member), at *)
(* the Work's event (Work), or where a consumer still to run waits for     *)
(* (Used).                                                                 *)
(***************************************************************************)
EXTENDS CollStreams

-----------------------------------------------------------------------------
(* Types.                                                                  *)

\* The types of an operation and of the host's state.
OpKinds == {"produce", "copy", "library", "use", "release"}
OpSet == [kind : OpKinds, reads : SUBSET Bufs, writes : SUBSET Bufs,
          waits : [Streams -> Nat]]
Hosts == [q : [Streams -> Seq(OpSet)], waits : [Streams -> [Streams -> Nat]],
          group : Seq(OpSet), open : BOOLEAN, block : BOOLEAN,
          records : SUBSET Bufs, pairs : SUBSET (Bufs \X Bufs),
          users : [Bufs -> SUBSET Streams]]

\* What a stream operation leaves alone: the group and the open block.
Aside(g, k) ==
  /\ k.group = g.group /\ k.open = g.open /\ k.block = g.block
  /\ k.records = g.records /\ k.pairs = g.pairs

-----------------------------------------------------------------------------
(* Folds.                                                                  *)

\* f computes, over the subsets of S, the fold that takes c's choice last.
Folds(f, S, base, c, o) ==
  \A s \in SUBSET S : f[s] = IF s = {} THEN base ELSE o[c[s]][f[s \ {c[s]}]]

\* The arguments of a fold over S that stays inside V.
FoldArgs(S, V, base, c, o) ==
  /\ IsFiniteSet(S) /\ base \in V /\ o \in [S -> [V -> V]]
  /\ \A s \in SUBSET S : s # {} => c[s] \in s

\* h_free's waits: the owner waits for each recorded stream.
UsersFold(g, b, S) == FoldSet(LAMBDA s, k : WaitStream(k, Owner(b), s), g, S)

-----------------------------------------------------------------------------
(* Batches of operations on the comm stream.                               *)

\* What an operation touches, the positions of a stream, the operations of
\* the library's group, and an operation that stays inside the buffers T.
Touches(op) == op.reads \cup op.writes
Queued(g, s) == 1..Len(g.q[s])
GroupOps(g) == {g.group[i] : i \in 1..Len(g.group)}
Works(op, T) == op.kind # "release" /\ Touches(op) \subseteq T

\* k is g after operations on the buffers T were appended to stream s.
Extends(g, k, s, T) ==
  /\ \A t \in Streams : /\ Len(g.q[t]) <= Len(k.q[t])
                        /\ \A i \in Queued(g, t) : k.q[t][i] = g.q[t][i]
  /\ \A t \in Streams : \A i \in Queued(k, t) :
       i \in Queued(g, t) \/ (t = s /\ Works(k.q[t][i], T))
  /\ \A b \in Bufs : g.users[b] \subseteq k.users[b]

\* The operation as Enqueue puts it on the stream.
Stamped(g, s, op) == [op EXCEPT !.waits = g.waits[s]]

\* The host states a run of enqueues on the comm stream reaches.
Grown(g, T) ==
  {k \in Hosts : Aside(g, k) /\ k.users = g.users /\ Extends(g, k, "comm", T)}

\* it goes through the fold's steps for as long as they stay inside V.
Follows(it, S, V, base, c, o) ==
  /\ it[{}] = base
  /\ \A s \in SUBSET S : s # {} /\ it[s \ {c[s]}] \in V
                           => it[s] = o[c[s]][it[s \ {c[s]}]]

\* The copies of one buffer to several, as mojoccl's gather makes them.
CopyOut(g, from, out) == FoldSet(LAMBDA o, k : Enqueue(k, "comm", Copy(from, o)), g, out)

\* What closing the library's group enqueues.
SubmitAll(g) == FoldLeft(LAMBDA k, op : Enqueue(k, "comm", op), g, g.group)

-----------------------------------------------------------------------------
(* What part of a collective issues.                                       *)

\* k is g after part of a collective: operations on the buffers T were
\* appended to the comm stream, those queued in the group (only when G) touch D,
\* and the fences of R and of the tensors of the pairs P were made or deferred.
Issues(g, k, G, T, D, R, P) ==
  /\ k \in Hosts /\ Extends(g, k, "comm", T)
  /\ \A op \in GroupOps(k) : op \in GroupOps(g) \/ Works(op, D)
  /\ G \/ k.group = g.group
  /\ k.open = g.open /\ k.block = g.block
  /\ g.block => k.records = g.records \cup R /\ k.pairs = g.pairs \cup P
  /\ ~g.block =>
       /\ k.records = g.records /\ k.pairs = g.pairs
       /\ \A b \in Bufs : b \in R \cup {p[1] : p \in P}
                         => Owner(b) = "comm" \/ "comm" \in k.users[b]

\* The buffers of the pairs, tensors and their stages.
PairBufs(P) == {p[1] : p \in P} \cup {p[2] : p \in P}

-----------------------------------------------------------------------------
(* The collectives.                                                        *)

\* Every collective the adapter has.
AllKinds == {"inplace", "flat", "alltoall", "allgather", "gather",
             "reduce_scatter", "scatter", "send", "recv"}

\* The buffers the adapter allocates, and the buffers of one call.
Internal == Roles \ UserRoles
Own(c, kind) == Mine(c, kind) \cup {<<c, r>> : r \in Internal}

\* What a collective leaves behind it: its operations, and a fence or a
\* deferred one for each of the caller's tensors.
Collects(g, k, G, c, kind) ==
  \E R \in SUBSET Bufs, P \in SUBSET (Bufs \X Bufs) :
    /\ Issues(g, k, G, Own(c, kind), R \cup PairBufs(P), R, P)
    /\ Mine(c, kind) \subseteq R \cup {p[1] : p \in P}
    /\ R \cup PairBufs(P) \subseteq Mine(c, kind) \cup Local(c, kind)
    /\ \A p \in P : p[2] = p[1] \/ Owner(p[2]) = "comm"

-----------------------------------------------------------------------------
(* The streams and the memory.                                             *)

\* The type of a call; Fenced and new, in a state cs of the calls.
CallSet == [pc : {"new", "member", "work", "used", "raised"},
            kind : Kinds \cup {""}, event : [Streams -> Nat]]
FencedIn(cs, b) == ~(b[2] \in UserRoles /\ cs[b[1]].pc = "raised")
IsNew(cs, b) == cs[b[1]].pc = "new"

\* Something is deferred only inside a block, and the library's group is open
\* for exactly as long as the block is.
Blocks(g) ==
  /\ g.open = g.block
  /\ ~g.block => g.group = <<>> /\ g.records = {} /\ g.pairs = {}

\* The group's operations touch only what the block holds, and the copies
\* back come from the tensor itself or from a buffer of the comm stream.
Deferred(g) ==
  /\ \A op \in GroupOps(g) : Works(op, Held(g))
  /\ \A p \in g.pairs : p[2] = p[1] \/ Owner(p[2]) = "comm"

\* What a block holds is alive, and of a call the block will complete.
HeldAlive(g, al, cs) == \A b \in Held(g) : b \in al /\ cs[b[1]].pc = "member"

\* The open block.
HeldInv(g, al, cs) == Blocks(g) /\ Deferred(g) /\ HeldAlive(g, al, cs)

\* A release is of one dead buffer, on the stream of its owner.
Releases(g, al, cs) ==
  \A s \in Streams : \A i \in Queued(g, s) : g.q[s][i].kind = "release" =>
    /\ g.q[s][i].reads = {}
    /\ \E b \in Bufs : /\ g.q[s][i].writes = {b} /\ s = Owner(b)
                       /\ b \notin al /\ ~IsNew(cs, b)

\* Nobody has touched the buffers of a call that did not begin.
NewUntouched(g, al, cs) ==
  \A b \in Bufs : IsNew(cs, b) =>
    /\ b \notin al
    /\ \A s \in Streams : \A i \in Queued(g, s) : b \notin Touches(g.q[s][i])

\* A release is behind every operation that touches its buffer: behind it on
\* the same stream, or waiting for it on another one.
Ordered(g, cs) ==
  \A s, t \in Streams : \A i \in Queued(g, s), j \in Queued(g, t), b \in Bufs :
    /\ g.q[s][i].kind = "release" /\ g.q[t][j].kind # "release"
    /\ b \in g.q[s][i].writes /\ b \in Touches(g.q[t][j]) /\ FencedIn(cs, b)
    => IF s = t THEN j < i ELSE j <= g.q[s][i].waits[t]

\* Whoever frees a live buffer will know of every stream an operation on it
\* is on: it is the owner's, a recorded one, or comm's with the fence deferred.
Guarded(g, al, cs) ==
  \A s \in Streams : \A i \in Queued(g, s), b \in Bufs :
    /\ g.q[s][i].kind # "release" /\ b \in Touches(g.q[s][i])
    /\ b \in al /\ FencedIn(cs, b)
    => s = Owner(b) \/ s \in g.users[b] \/ (s = "comm" /\ b \in Held(g))

\* Memory that went back is nobody's.
GoneDead(al, cs, gn) == \A b \in gn : b \notin al /\ ~IsNew(cs, b)

\* No operation on memory that went back is left on a stream.
GoneUnused(g, cs, gn) ==
  \A s \in Streams : \A i \in Queued(g, s), b \in Bufs :
    g.q[s][i].kind # "release" /\ b \in Touches(g.q[s][i]) /\ b \in gn
      => ~FencedIn(cs, b)

\* The queues.
QueueInv(g, al, cs, gn) ==
  /\ Releases(g, al, cs) /\ NewUntouched(g, al, cs) /\ Ordered(g, cs)
  /\ Guarded(g, al, cs) /\ GoneDead(al, cs, gn) /\ GoneUnused(g, cs, gn)

\* The inductive invariant of the streams, the host and the device's memory.
StreamsInv ==
  /\ strided \in BOOLEAN /\ lib \in Libs
  /\ h \in Hosts /\ call \in [Calls -> CallSet]
  /\ live \in SUBSET Bufs /\ refs \subseteq live /\ gone \in SUBSET Bufs
  /\ HeldInv(h, live, call) /\ QueueInv(h, live, call, gone)

-----------------------------------------------------------------------------
(* Appending a batch, and freeing.                                         *)

\* No release of b is on any stream.
Unreleased(g, b) ==
  \A s \in Streams : \A i \in Queued(g, s) :
    g.q[s][i].kind = "release" => b \notin g.q[s][i].writes

\* What may change of the buffers and the calls while operations are enqueued.
Continues(al, cs, al2, cs2) ==
  /\ al \subseteq al2
  /\ \A b \in Bufs : IsNew(cs2, b) => IsNew(cs, b)
  /\ \A b \in Bufs : FencedIn(cs2, b) => FencedIn(cs, b)
  /\ \A b \in Bufs : b \in al2 /\ b \notin al => IsNew(cs, b) /\ ~IsNew(cs2, b)

\* The frees at the end of a host step.
FreeAll(g, dead) == FoldSet(LAMBDA b, k : Free(k, b), g, dead)

\* What _end_coalescing issues: the group, then the deferred fences and copies.
BlockEnd(g) == Finish(Record(GroupEnd(Cleared(g)), g.records), g.pairs)

\* The statuses of a call that begins: its buffers were nobody's before.
BeginsAs(c, kind, cs2) ==
  /\ ~(cs2[c].pc = "new")
  /\ \A b \in Bufs : IsNew(cs2, b) => IsNew(call, b)
  /\ \A b \in Bufs : FencedIn(cs2, b) => FencedIn(call, b)

\* Where an operation of the queues was before the head of s was executed.
Was(s, t, i) == IF t = s THEN i + 1 ELSE i

-----------------------------------------------------------------------------
(* What the tensors hold.                                                  *)

\* An operation but for what it waits for.
Alike(o, p) == o.kind = p.kind /\ o.reads = p.reads /\ o.writes = p.writes

\* An operation of call c, and the two forms it has.
Of(op, c) == op.kind # "release" /\ \E b \in Touches(op) : b[1] = c
Shape(op, c) ==
  \/ op.kind = "library" /\ \A b \in Touches(op) : b[1] = c
  \/ op.kind = "copy" /\ \E x, y \in Roles : op.reads = {<<c, x>>} /\ op.writes = {<<c, y>>}

\* The mode of a call is its collective and the library.  What a copy between
\* two of its buffers carries follows from it, and so what every operation
\* writes and has to read.
Carries(m, from, to) ==
  IF \/ from = "in"
     \/ from = "sin" /\ to # "in"
     \/ from = "sout" /\ m[1] = "scatter" /\ m[2] = "nccl"
     \/ from = "sown" /\ m[2] = "nccl"
  THEN "input" ELSE "result"
Out(op, m) ==
  IF op.kind = "library" THEN "result"
  ELSE Carries(m, (CHOOSE b \in op.reads : TRUE)[2], (CHOOSE b \in op.writes : TRUE)[2])
In(op, m) == IF op.kind = "library" THEN "input" ELSE Out(op, m)

\* Before its i-th operation a line l leaves v in buffer b: some operation
\* writes it last, or none writes b and b holds it now (N).
Clear(l, i, b) == \A k \in 1..(i - 1) : b \notin l[k].writes
Wrote(l, i, b, v, m) ==
  \E j \in 1..(i - 1) : /\ b \in l[j].writes /\ Out(l[j], m) = v
                        /\ \A k \in (j + 1)..(i - 1) : b \notin l[k].writes
Holds(l, i, b, v, m, N) == Wrote(l, i, b, v, m) \/ (Clear(l, i, b) /\ <<b, v>> \in N)
Ends(l, b, v, m, N) == Holds(l, Len(l) + 1, b, v, m, N)

\* What the comm stream will execute: its operations, then the group's.
Line(g) == g.q["comm"] \o g.group

\* What the buffers hold for an operation that waits for their producers.
Vals == {"input", "result"}
Pending(g, b) ==
  \E j \in Queued(g, "cur") : g.q["cur"][j].kind = "produce" /\ b \in g.q["cur"][j].writes
Facts(g, vl) ==
  {x \in Bufs \X Vals : IF Pending(g, x[1]) THEN x[2] = "input" ELSE vl[x[1]] = x[2]}

\* Every operation of call c on the line reads what it has to.
Flows(l, c, m, N) ==
  \A i \in 1..Len(l) : Of(l[i], c) =>
    /\ Shape(l[i], c)
    /\ \A b \in l[i].reads : Holds(l, i, b, In(l[i], m), m, N)

\* The producer of call c is the j-th operation of the current stream; one of
\* the first n operations of the comm stream waits for the j-th, or the next does.
Makes(g, j, c) ==
  /\ j \in Queued(g, "cur")
  /\ g.q["cur"][j].kind = "produce" /\ <<c, "in">> \in g.q["cur"][j].writes
Reaches(g, j, n) ==
  \E i \in Queued(g, "comm") : i <= n /\ j <= g.q["comm"][i].waits["cur"]
Covered(g, j) == Reaches(g, j, Len(g.q["comm"])) \/ j <= g.waits["comm"]["cur"]

\* No operation of call c on the comm stream passes its producer.
Ahead(g, c) ==
  \A j \in Queued(g, "cur"), i \in Queued(g, "comm") :
    Makes(g, j, c) /\ Of(g.q["comm"][i], c) => Reaches(g, j, i)

\* Every operation of call c is one of the first n of the comm stream.
Settled(g, c, n) ==
  \A i \in 1..Len(Line(g)) : Of(Line(g)[i], c) => i <= n /\ i \in Queued(g, "comm")

\* Tensor r of call c ends with what its caller expects.
Result(l, c, r, m, N) == \E v \in Expected(m[1], r) : Ends(l, <<c, r>>, v, m, N)
Results(l, c, m, N, rf) ==
  \A r \in Outputs(m[1]) : <<c, r>> \in rf => Result(l, c, r, m, N)

\* A copy back that is deferred.
Back(g, p) == p \in g.pairs /\ p[1] # p[2]
Brings(m, p) == Carries(m, p[2][2], p[1][2])

\* A call in the open block: what is copied back is there already, the other
\* outputs are done, and the comm stream goes behind the producer.
Member(g, c, m, N, rf) ==
  /\ \A p \in g.pairs : p[1][1] = c /\ Back(g, p) =>
       Brings(m, p) \in Expected(m[1], p[1][2]) /\ Ends(Line(g), p[2], Brings(m, p), m, N)
  /\ \A r \in Outputs(m[1]) : <<c, r>> \in rf =>
       (\E p \in g.pairs : Back(g, p) /\ p[1] = <<c, r>>) \/ Result(Line(g), c, r, m, N)
  /\ \A j \in Queued(g, "cur") : Makes(g, j, c) => Covered(g, j)

\* Waiting for the point ev is waiting for the producer too.
Behind(g, c, ev) ==
  \A j \in Queued(g, "cur") : Makes(g, j, c) => j <= ev["cur"] \/ Reaches(g, j, ev["comm"])
Work(g, c, m, N, rf, ev) ==
  Results(Line(g), c, m, N, rf) /\ Settled(g, c, ev["comm"]) /\ Behind(g, c, ev)

\* A consumer still to run finds the results, behind all that makes them.
Consumes(op, c) == op.kind = "use" /\ \E b \in op.reads : b[1] = c
Used(g, c, m, N) ==
  \A s \in {"cur", "side"} : \A i \in Queued(g, s) : Consumes(g.q[s][i], c) =>
    /\ g.q[s][i].reads = {<<c, r>> : r \in Outputs(m[1])}
    /\ \A r \in Outputs(m[1]) : Result(Line(g), c, r, m, N)
    /\ Settled(g, c, g.q[s][i].waits["comm"])
    /\ \A j \in Queued(g, "cur") : Makes(g, j, c) =>
         \/ s = "cur" /\ j < i
         \/ j <= g.q[s][i].waits["cur"] \/ Reaches(g, j, g.q[s][i].waits["comm"])

\* What holds of call c, in each state of it.
Sound(g, c, cl, m, N, rf) ==
  cl.pc \in {"member", "work", "used"} =>
    /\ m[1] \in AllKinds /\ Flows(Line(g), c, m, N) /\ Ahead(g, c)
    /\ cl.pc = "member" => Member(g, c, m, N, rf)
    /\ cl.pc = "work" => Work(g, c, m, N, rf, cl.event)
    /\ cl.pc = "used" => Settled(g, c, Len(g.q["comm"])) /\ Used(g, c, m, N)

\* What runs where: the caller's producers and consumers, and the releases,
\* on the caller's streams; copies and collectives on the comm stream.
Sides(g, cs) ==
  /\ \A i \in Queued(g, "cur") : g.q["cur"][i].kind = "produce" =>
       /\ g.q["cur"][i].reads = {}
       /\ \E c \in Calls : cs[c].pc # "new" /\ g.q["cur"][i].writes = {<<c, "in">>}
  /\ \A s \in {"cur", "side"} : \A i \in Queued(g, s) :
       /\ g.q[s][i].kind \in {"use", "release"} \/ (s = "cur" /\ g.q[s][i].kind = "produce")
       /\ g.q[s][i].kind = "use" =>
            /\ g.q[s][i].writes = {}
            /\ \A b \in g.q[s][i].reads : cs[b[1]].pc = "used"
  /\ \A i \in 1..Len(Line(g)) : Line(g)[i].kind \in {"copy", "library", "release"}
  /\ \A p \in g.pairs : p[1][1] = p[2][1] /\ p[1][2] \in UserRoles

\* A consumer that ran read what it expected.
Read(sn, cs) ==
  \A c \in Calls : sn[c] # {} =>
    cs[c].pc = "used" /\ \A x \in sn[c] : x[2] \in Expected(cs[c].kind, x[1])

\* The mode of a call: its collective and the library.
Mode(cs, c) == <<cs[c].kind, lib>>

\* What is sound of all calls, and where everything runs.
Fine(g, cs, vl, rf) ==
  /\ \A c \in Calls : Sound(g, c, cs[c], Mode(cs, c), Facts(g, vl), rf)
  /\ Sides(g, cs)

\* The inductive invariant of what the tensors hold.
ValueInv == Fine(h, call, val, refs) /\ Read(seen, call)

-----------------------------------------------------------------------------
(* What a host step keeps of the other calls.                              *)

\* Operations are only added to the comm stream, behind what it waits for.
Orders(g, k) ==
  /\ k.q["cur"] = g.q["cur"] /\ k.q["side"] = g.q["side"]
  /\ Len(g.q["comm"]) <= Len(k.q["comm"])
  /\ \A i \in Queued(g, "comm") : k.q["comm"][i] = g.q["comm"][i]
  /\ \A j \in Nat : Covered(g, j) =>
       /\ Covered(k, j)
       /\ \A i \in Queued(k, "comm") : i \notin Queued(g, "comm") => Reaches(k, j, i)

\* What k keeps of call c in g: each of its operations, in place if it was on
\* the comm stream, still reads what it read, and the line ends with what it
\* ended with in the buffers B.
Carry(g, k, c, m, N, B) ==
  /\ Orders(g, k)
  /\ \A i \in 1..Len(Line(k)) : Of(Line(k)[i], c) =>
       \E x \in 1..Len(Line(g)) :
         /\ Alike(Line(k)[i], Line(g)[x])
         /\ x \in Queued(g, "comm") => i = x
         /\ \A b \in Line(g)[x].reads, v \in Vals :
              Holds(Line(g), x, b, v, m, N) => Holds(Line(k), i, b, v, m, N)
  /\ \A b \in B, v \in Vals : Ends(Line(g), b, v, m, N) => Ends(Line(k), b, v, m, N)

\* The two hosts defer the same copies back of call c.
SamePairs(g, k, c) ==
  \A p : p[1][1] = c => (p \in g.pairs <=> p \in k.pairs)

\* The buffers whose last value matters: the tensors, and what is copied back.
Needed(g, c) ==
  {<<c, r>> : r \in UserRoles} \cup {p[2] : p \in {x \in g.pairs : x[1][1] = c /\ Back(g, x)}}

-----------------------------------------------------------------------------
(* The group's end.                                                        *)

\* n operations of the group have been enqueued.
Submitted(g, k, n) ==
  /\ k \in Hosts /\ Orders(g, k) /\ Aside(g, k)
  /\ Len(k.q["comm"]) = Len(g.q["comm"]) + n
  /\ \A i \in 1..n : Alike(k.q["comm"][Len(g.q["comm"]) + i], g.group[i])

-----------------------------------------------------------------------------
(* A call in progress, and the others meanwhile.                           *)

\* The calls but c, between two operations of c's.  z is what stays fixed during a
\* host step: the calls' states after it (calls), what the buffers hold (now), the
\* tensors still referred to (refs), and the open block and its pairs.
Others(g, c, z) ==
  /\ Sides(g, z.calls)
  /\ \A d \in Calls \ {c} : Sound(g, d, z.calls[d], Mode(z.calls, d), z.now, z.refs)

\* Call c itself: its buffers end with the values in A, and the group reads its
\* buffers V and writes its buffers W.
Within(g, c, V, W) ==
  \A i \in 1..Len(g.group) :
    /\ \A b \in g.group[i].reads : b[1] = c => b[2] \in V
    /\ \A b \in g.group[i].writes : b[1] = c => b[2] \in W
Part(g, c, m, N, A, V, W) ==
  /\ Flows(Line(g), c, m, N) /\ Ahead(g, c) /\ Within(g, c, V, W)
  /\ \A a \in A : a[2] \in Vals /\ Ends(Line(g), <<c, a[1]>>, a[2], m, N)

\* An operation of c's finds in A what it reads, leaves A2, and spares a group
\* that reads V and writes W.
Finds(op, m, A) == \A b \in op.reads : <<b[2], In(op, m)>> \in A
Leaves(op, c, m, A, A2) ==
  \A a \in A2 : \/ a \in A /\ \A b \in op.writes : b[2] # a[1]
                \/ <<c, a[1]>> \in op.writes /\ a[2] = Out(op, m)
Spares(op, V, W) ==
  (\A b \in op.reads : b[2] \notin W) /\ (\A b \in op.writes : b[2] \notin V \cup W)

\* The comm stream is, or will go, behind the producer of call c.
Cov(g, c) == \A j \in Queued(g, "cur") : Makes(g, j, c) => Covered(g, j)

-----------------------------------------------------------------------------
(* The operations of a call, one by one.                                   *)

\* A host step in the middle of call c.
Doing(g, c, z, A, V, W) ==
  /\ g \in Hosts /\ g.block = z.block /\ g.pairs = z.pairs
  /\ Part(g, c, Mode(z.calls, c), z.now, A, V, W)
  /\ Others(g, c, z)

\* One queued in the library's group.
Grouped(g, op) == [g EXCEPT !.group = Append(@, op)]

\* A library call of c that reads rs and writes ws.
At(c, rs) == {<<c, r>> : r \in rs}
Library(c, rs, ws) == Op("library", At(c, rs), At(c, ws))
IsLibrary(op, c, rs, ws) ==
  op \in OpSet /\ op.kind = "library" /\ op.reads = At(c, rs) /\ op.writes = At(c, ws)

\* A library call finds its inputs, spares the group and leaves A2.
CanRead(rs, A, W) == \A r \in rs : <<r, "input">> \in A /\ r \notin W
CanWrite(ws, V, W) == \A r \in ws : r \notin V /\ r \notin W
Written(ws, A, A2) ==
  \A a \in A2 : (a \in A /\ a[1] \notin ws) \/ (a[1] \in ws /\ a[2] = "result")

\* What the host is left with when it has handed over a library call.
Submits(g, k, c, z, A, V, W, V2, W2, grouped) ==
  /\ Doing(k, c, z, A, V2, W2) /\ Cov(k, c)
  /\ ~(grouped /\ lib = "nccl") => Doing(k, c, z, A, V, W) /\ k.group = g.group

-----------------------------------------------------------------------------
(* Copies back.                                                            *)

\* A relation between what a fold reached and the elements it took, kept by
\* each of its steps, holds of its result.
FoldKeeps(R, S, V, o) ==
  \A s \in SUBSET S, x \in S, k \in V :
    x \notin s /\ <<k, s>> \in R => <<o[x][k], s \cup {x}>> \in R

\* The copy of a pair back.
Return(k, p) == Enqueue(k, "comm", Copy(p[2], p[1]))
Differ(P) == {p \in P : p[1] # p[2]}

\* Call d while the pairs Q are copied back, those of s already, when A0 is what
\* its buffers ended with.
Half(k, d, m, N, A0, Q, s) ==
  \E A : /\ Part(k, d, m, N, A, {}, {}) /\ Cov(k, d)
         /\ \A p \in Q : p[1][1] = d => <<p[2][2], Brings(m, p)>> \in A
         /\ \A p \in s : p[1][1] = d =>
              \E q \in Q : q[1] = p[1] /\ <<p[1][2], Brings(m, q)>> \in A
         /\ \A a \in A0 : (\A p \in Q : p[1] # <<d, a[1]>>) => a \in A

\* Tensors are copied back from the adapter's buffers.
Backs(Q) ==
  \A p \in Q : /\ p[1] \in Bufs /\ p[2] \in Bufs /\ p[1][1] = p[2][1]
               /\ p[1][2] \in UserRoles /\ p[2][2] \in Internal

\* Where the copies back of the pairs P have come when those of s were made: the
\* calls in D are being completed, the others are as sound as ever.
Returning(k, g, z, D, A0, Q, s) ==
  /\ k \in Hosts /\ Aside(g, k) /\ Sides(k, z.calls)
  /\ \A d \in Calls : IF d \in D THEN Half(k, d, Mode(z.calls, d), z.now, A0[d], Q, s)
                      ELSE Sound(k, d, z.calls[d], Mode(z.calls, d), z.now, z.refs)

\* A call that raised has nothing to be sound.
Idle(cs, d) == cs[d].pc \notin {"member", "work", "used"}

\* What the pairs are once a call is done: the roles they copy back and from where.
Bringing(P, c, m, A) ==
  \A p \in P : /\ p[1] \in Bufs /\ p[2] \in Bufs /\ p[1][1] = c /\ p[2][1] = c
               /\ p[1][2] \in UserRoles
               /\ p[1] # p[2] => /\ p[2][2] \in Internal
                                 /\ Brings(m, p) \in Expected(m[1], p[1][2])
                                 /\ <<p[2][2], Brings(m, p)>> \in A

\* A collective gives call c what its caller expects, once the copies back of the
\* pairs P were made.
Delivers(k, c, z, P) ==
  LET m == Mode(z.calls, c)
  IN /\ k \in Hosts /\ k.block = z.block /\ k.pairs = z.pairs \cup P
     /\ Flows(Line(k), c, m, z.now) /\ Ahead(k, c) /\ Cov(k, c)
     /\ Others(k, c, z)
     /\ \A p \in P : p[1][1] = c /\ p[2][1] = c
     /\ \A p \in P : p[1] # p[2] =>
          Brings(m, p) \in Expected(m[1], p[1][2]) /\ Ends(Line(k), p[2], Brings(m, p), m, z.now)
     /\ \A r \in Outputs(m[1]) :
          (\E p \in P : p[1] # p[2] /\ p[1] = <<c, r>>) \/ Result(Line(k), c, r, m, z.now)
Given(k, c, z) == \E P : Delivers(k, c, z, P) /\ (z.block \/ P = {})

\* What is promised of call c: what is copied back, or in A already.
Promises(P, c, m, A) ==
  \A r \in Outputs(m[1]) : \/ \E p \in P : p[1] # p[2] /\ p[1] = <<c, r>>
                           \/ \E v \in Expected(m[1], r) : <<r, v>> \in A

\* What the library sees of a tensor.
Stage(r) == IF strided THEN StageOf[r] ELSE r

\* A call c between two of its operations when none of them is in a group;
\* the state it leaves, k, when its library calls read rs and write ws, some in
\* the group perhaps; direct when none of them is.
Begun(g, c, z, A) == Doing(g, c, z, A, {}, {})
Sent(g, k, c, z, A, rs, ws, direct) ==
  /\ Doing(k, c, z, A, rs, ws) /\ Cov(k, c)
  /\ direct => Begun(k, c, z, A) /\ k.group = g.group
Direct(grouped) == ~(grouped /\ lib = "nccl")
Feeds(rs, A) == \A r \in rs : <<r, "input">> \in A

\* A call c of a collective starts, G in an open group, its buffers holding A.
Closed(g, z, G) == z.block \/ (~G /\ g.group = <<>>)
Starting(g, c, z, A, kind, G) ==
  /\ Begun(g, c, z, A) /\ z.calls[c].kind = kind /\ Closed(g, z, G)
  /\ c \in Calls /\ strided \in BOOLEAN /\ lib \in {"nccl", "mojoccl"}
  /\ kind = "recv" \/ <<"in", "input">> \in A

\* What the dense outputs carry back is what the caller expects.
Delivered(m, A) ==
  \A r \in Outputs(m[1]) :
    IF strided THEN /\ Carries(m, StageOf[r], r) \in Expected(m[1], r)
                    /\ <<StageOf[r], Carries(m, StageOf[r], r)>> \in A
    ELSE \E v \in Expected(m[1], r) : <<r, v>> \in A

\* What mojoccl's gather holds while its flat buffer is copied out to s.
Filled(s) == {<<"flat", "result">>} \cup {<<b[2], "result">> : b \in s}

-----------------------------------------------------------------------------
(* Operations on the caller's streams, frees and executions.               *)

\* k is g with op behind stream s of the caller.
Trails(g, k, s, op) ==
  /\ k \in Hosts /\ s \in {"cur", "side"}
  /\ k.q["comm"] = g.q["comm"] /\ k.waits["comm"] = g.waits["comm"]
  /\ k.group = g.group /\ k.pairs = g.pairs
  /\ \A t \in {"cur", "side"} \ {s} : k.q[t] = g.q[t]
  /\ Len(k.q[s]) = Len(g.q[s]) + 1
  /\ \A i \in Queued(g, s) : k.q[s][i] = g.q[s][i]
  /\ k.q[s][Len(g.q[s]) + 1] = op

\* An operation that produces nothing of call c.
Unmade(op, c) == ~(op.kind = "produce" /\ <<c, "in">> \in op.writes)

\* The operation that frees b.
Release(b) == Op("release", {}, {b})

\* The group releases nothing.
Unfreed(g) == \A op \in GroupOps(g) : op.kind # "release"

\* The calls of a block, after it: cs is call with the members' state changed.
Leaving(cs, pc) ==
  \A d \in Calls : IF call[d].pc = "member" THEN cs[d].pc = pc /\ cs[d].kind = call[d].kind
                   ELSE cs[d] = call[d]

\* The end of a block, until the copies back: the same line, none of it in the
\* group.
Resumed(g) == Record(GroupEnd(Cleared(g)), g.records)
SameLine(g, k) ==
  /\ Orders(g, k) /\ Len(Line(k)) = Len(Line(g))
  /\ \A i \in 1..Len(Line(g)) : Alike(Line(k)[i], Line(g)[i])

\* What the buffers of call d end with.
Ended(g, d, m, N) == {x \in Roles \X Vals : Ends(Line(g), <<d, x[1]>>, x[2], m, N)}

\* What the block defers is copied back from the adapter's buffers.
Dense(g) == \A p \in g.pairs : p[2] = p[1] \/ Owner(p[2]) = "comm"

\* The calls when c begins, and those of its block raised, perhaps.
Entering(cs, c, kind) ==
  /\ cs[c].pc # "new" /\ cs[c].kind = kind
  /\ \A d \in Calls \ {c} :
       \/ cs[d] = call[d]
       \/ call[d].pc = "member" /\ cs[d].pc = "raised"

\* What a call's buffers hold when it begins: its input, if it has one.
Given0(kind) == IF kind = "recv" THEN {} ELSE {<<"in", "input">>}

\* k is g without the head of stream s, and nothing waits for that any more.
Shifted(g, k, s) ==
  /\ g \in Hosts /\ k \in Hosts /\ s \in Streams
  /\ k.group = g.group /\ k.pairs = g.pairs
  /\ 1 \in Queued(g, s) /\ g.q[s][1].waits = NoWait
  /\ \A t \in Streams : /\ Len(g.q[t]) = Was(s, t, Len(k.q[t]))
                        /\ k.waits[t] = Passed(s, g.waits[t])
  /\ \A t \in Streams : \A i \in Queued(k, t) :
       /\ Was(s, t, i) \in Queued(g, t)
       /\ Alike(k.q[t][i], g.q[t][Was(s, t, i)])
       /\ k.q[t][i].waits = Passed(s, g.q[t][Was(s, t, i)].waits)

\* A point of stream t, with one operation of s done.
Down(s, t, n) == IF t = s THEN IF n = 0 THEN 0 ELSE n - 1 ELSE n

\* The values that the head's execution keeps of N in M, but for the buffers U:
\* on the comm stream it leaves what it writes.
Keeps(g, s, c, m, N, M, U) ==
  \A b, v : b[1] = c /\ b \notin U /\ v \in Vals =>
    IF s = "comm" /\ b \in Line(g)[1].writes THEN Out(Line(g)[1], m) = v => <<b, v>> \in M
    ELSE <<b, v>> \in N => <<b, v>> \in M

\* Nothing that call c still needs is in U.
Unneeded(g, c, U, rf) ==
  /\ \A i \in 1..Len(Line(g)) : Of(Line(g)[i], c) => Line(g)[i].reads \cap U = {}
  /\ \A r : <<c, r>> \in rf => <<c, r>> \notin U
  /\ \A p \in g.pairs : p[2] \notin U
  /\ \A t \in {"cur", "side"} : \A i \in Queued(g, t) :
       Consumes(g.q[t][i], c) => g.q[t][i].reads \cap U = {}

\* A call with something to be sound.
Sounds(c) ==
  /\ c \in Calls /\ ~Idle(call, c) /\ Flows(Line(h), c, Mode(call, c), Facts(h, val))
  /\ Ahead(h, c)

\* The head of stream s, and what its execution frees.
Kind(s) == h.q[s][1].kind
Freed(s) == IF Kind(s) = "release" THEN h.q[s][1].writes ELSE {}
=================================================================================
