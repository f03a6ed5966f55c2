---------------------------- MODULE CollStreams ----------------------------
(***************************************************************************)
(* MojoProcessGroup's collectives and the buffers they touch               *)
(* (distributed/process_group.py with the stream and memory hooks under    *)
(* it).  The host enqueues on streams and returns; the device executes     *)
(* each stream in order and the streams in any interleaving.  A            *)
(* collective runs on the group's comm stream, staged through dense        *)
(* buffers when a tensor is strided.  Inside a coalescing block the vendor *)
(* library submits nothing before its group ends, so everything that       *)
(* depends on submission is deferred; mojoccl submits at once.             *)
(*                                                                         *)
(* One thread calls.  One host call is one step: it only enqueues, and the *)
(* device may run any part of what it enqueued later.                      *)
(***************************************************************************)
EXTENDS Naturals, SequencesExt

CONSTANTS
  NCalls,      \* bound: collectives called
  Libs,        \* "nccl", "mojoccl"
  Kinds,       \* the collectives called
  MaxRaises    \* bound: calls that raise

ASSUME StreamsAssumption ==
  /\ {NCalls, MaxRaises} \subseteq Nat
  /\ Libs \subseteq {"nccl", "mojoccl"}
  /\ Kinds \subseteq {"inplace", "flat", "alltoall", "allgather", "gather",
                      "reduce_scatter", "scatter", "send", "recv"}

Calls == 1..NCalls
Streams == {"cur", "side", "comm"}
UserRoles == {"in", "out", "own"}
Roles == UserRoles \cup {"sin", "sout", "sown", "flat"}
Bufs == Calls \X Roles
Owner(b) == IF b[2] \in UserRoles THEN "cur" ELSE "comm"

VARIABLES
  lib,      \* which library is loaded
  strided,  \* whether the tensors are strided, so staged
  h,        \* the host: q, group, block, records, pairs, users (below)
  call,     \* each call: [pc, kind, event]
  live,     \* buffers allocated and not freed by the host
  refs,     \* buffers the caller still refers to
  raises,   \* calls that raised
  val,      \* what each buffer holds
  gone,     \* buffers whose memory went back to the allocator
  seen      \* what each call's consumer read

hostVars == <<lib, strided, h, call, live, refs, raises>>
deviceVars == <<val, gone, seen>>
vars == <<hostVars, deviceVars>>

NoWait == [s \in Streams |-> 0]

Init ==
  /\ lib \in Libs /\ strided \in BOOLEAN
  /\ h = [q |-> [s \in Streams |-> <<>>],  \* enqueued, not executed
          waits |-> [s \in Streams |-> NoWait], \* by the next operation
          group |-> <<>>,                  \* queued in the library's group
          open |-> FALSE,                  \* that group (the main thread's)
          block |-> FALSE,                 \* _coalescing
          records |-> {}, pairs |-> {},    \* _coalesced_records, _pairs
          users |-> [b \in Bufs |-> {}]]   \* record_stream
  /\ call = [c \in Calls |-> [pc |-> "new", kind |-> "", event |-> NoWait]]
  /\ live = {} /\ refs = {} /\ raises = 0
  /\ val = [b \in Bufs |-> "none"] /\ gone = {}
  /\ seen = [c \in Calls |-> {}]

----------------------------------------------------------------------------
(* Stream operations.                                                      *)

Op(kind, reads, writes) ==
  [kind |-> kind, reads |-> reads, writes |-> writes, waits |-> NoWait]
Copy(from, to) == Op("copy", {from}, {to})

Enqueue(g, s, op) ==
  [g EXCEPT !.q[s] = Append(@, [op EXCEPT !.waits = g.waits[s]]),
            !.waits[s] = NoWait]

(* A point of a stream: how many of each stream's operations go before it. *)
Issued(g, s) == [g.waits[s] EXCEPT ![s] = Len(g.q[s])]
WaitFor(g, s, point) ==
  [g EXCEPT !.waits[s] =
     [t \in Streams |-> IF t = s \/ point[t] <= @[t] THEN @[t] ELSE point[t]]]
WaitStream(g, s, other) == WaitFor(g, s, Issued(g, other))

RecordStream(g, bufs, s) ==
  [g EXCEPT !.users = [b \in Bufs |-> IF b \in bufs /\ Owner(b) # s
                                      THEN @[b] \cup {s} ELSE @[b]]]

Bug_Free(g, b) == Enqueue(g, Owner(b), Op("release", {}, {b}))

(* h_free: the owner waits for what every recorded stream holds by now.    *)
Free(g, b) ==
  Enqueue(FoldSet(LAMBDA s, k : WaitStream(k, Owner(b), s), g, g.users[b]),
          Owner(b), Op("release", {}, {b}))

----------------------------------------------------------------------------
(* The adapter's plumbing.  Staged(c, r) is the buffer the library sees.   *)

StageOf == [in |-> "sin", out |-> "sout", own |-> "sown"]
Staged(c, r) == <<c, IF strided THEN StageOf[r] ELSE r>>

StageIn(g, c) ==
  IF ~strided THEN g
  ELSE Enqueue(WaitStream(g, "comm", "cur"), "comm",
               Copy(<<c, "in">>, <<c, "sin">>))

(* A library call: sync_in at once, the operation when the group ends.     *)
Submit(g, grouped, op) ==
  LET k == WaitStream(g, "comm", "cur")
  IN IF grouped /\ lib = "nccl" THEN [k EXCEPT !.group = Append(@, op)]
                                ELSE Enqueue(k, "comm", op)

GroupEnd(g) ==
  [FoldLeft(LAMBDA k, op : Enqueue(k, "comm", op), g, g.group)
     EXCEPT !.group = <<>>, !.open = FALSE]

Bug_Record(g, bufs) == RecordStream(g, bufs, "comm")

Record(g, bufs) ==
  IF g.block THEN [g EXCEPT !.records = @ \cup bufs]
  ELSE RecordStream(g, bufs, "comm")

CopyBack(g, pairs) ==
  FoldSet(LAMBDA p, k : Enqueue(k, "comm", Copy(p[2], p[1])), g,
          {p \in pairs : p[1] # p[2]})

Bug_Finish(g, pairs) ==
  RecordStream(CopyBack(g, pairs), {p[1] : p \in pairs}, "comm")

Finish(g, pairs) ==
  IF g.block THEN [g EXCEPT !.pairs = @ \cup pairs]
  ELSE RecordStream(CopyBack(g, pairs), {p[1] : p \in pairs}, "comm")

----------------------------------------------------------------------------
(* The collectives: G is whether the calling thread's library group is     *)
(* open, c the call.                                                        *)

Lib(c, reads, writes) ==
  Op("library", {Staged(c, r) : r \in reads}, {Staged(c, r) : r \in writes})
Pairs(c, roles) == {<<<<c, r>>, Staged(c, r)>> : r \in roles}
Inputs(c) == {<<c, "in">>, Staged(c, "in")}

(* allreduce, allreduce_coalesced, broadcast, reduce                       *)
InPlace(g, G, c) ==
  Finish(Submit(StageIn(g, c), G, Lib(c, {"in"}, {"in"})),
         Pairs(c, {"in"}))

(* _allgather_base, _reduce_scatter_base and their coalesced lists         *)
Flat(g, G, c) ==
  Finish(Record(Submit(StageIn(g, c), G, Lib(c, {"in"}, {"out"})),
                Inputs(c)),
         Pairs(c, {"out"}))

(* alltoall: sends and receives in a library group (_group), which is the  *)
(* block's inside one.                                                     *)
AllToAll(g, G, c) ==
  LET sent == Submit(StageIn(g, c), TRUE, Lib(c, {"in"}, {}))
      received == Submit(sent, TRUE, Lib(c, {}, {"out"}))
  IN Finish(Record(IF G THEN received ELSE GroupEnd(received), Inputs(c)),
            Pairs(c, {"out"}))

(* allgather: every output is copied out of one flat buffer.               *)
AllGather(g, G, c) ==
  Finish(Record(Submit(StageIn(g, c), G,
                       Op("library", {Staged(c, "in")}, {<<c, "flat">>})),
                Inputs(c)),
         {<<<<c, "out">>, <<c, "flat">>>>})

(* reduce_scatter: the inputs are concatenated on the comm stream.         *)
ReduceScatter(g, G, c) ==
  LET cat == Enqueue(WaitStream(g, "comm", "cur"), "comm",
                     Copy(<<c, "in">>, <<c, "flat">>))
  IN Finish(Record(Submit(cat, G, Op("library", {<<c, "flat">>},
                                     {Staged(c, "out")})),
                   {<<c, "flat">>, <<c, "in">>}),
            Pairs(c, {"out"}))

(* gather on the root: the peers' chunks, and a copy of its own; mojoccl   *)
(* gathers everything and copies it out.                                   *)
Gather(g, G, c) ==
  LET staged == WaitStream(StageIn(g, c), "comm", "cur")
      received == Submit(staged, G, Lib(c, {}, {"out"}))
      all == Submit(staged, G, Op("library", {Staged(c, "in")}, {<<c, "flat">>}))
      out == {Staged(c, r) : r \in {"out", "own"}}
  IN Record(Finish(IF lib = "nccl"
                   THEN Enqueue(received, "comm",
                                Copy(Staged(c, "in"), Staged(c, "own")))
                   ELSE FoldSet(LAMBDA o, k : Enqueue(k, "comm",
                                                      Copy(<<c, "flat">>, o)),
                                all, out),
                   Pairs(c, {"out", "own"})),
            Inputs(c))

(* scatter on the root: its own chunk is a copy; mojoccl broadcasts all.   *)
Scatter(g, G, c) ==
  LET staged == WaitStream(StageIn(g, c), "comm", "cur")
      full == Enqueue(staged, "comm", Copy(Staged(c, "in"), <<c, "flat">>))
      sent == IF lib = "nccl" THEN Submit(staged, G, Lib(c, {"in"}, {}))
              ELSE Submit(full, G, Op("library", {<<c, "flat">>}, {<<c, "flat">>}))
      from == IF lib = "nccl" THEN Staged(c, "in") ELSE <<c, "flat">>
  IN Finish(Record(Enqueue(sent, "comm", Copy(from, Staged(c, "out"))),
                   Inputs(c)),
            Pairs(c, {"out"}))

Send(g, G, c) ==
  Record(Submit(StageIn(g, c), G, Lib(c, {"in"}, {})), Inputs(c))

Recv(g, G, c) ==
  Finish(Submit(g, G, Lib(c, {}, {"out"})), Pairs(c, {"out"}))

Method(kind, g, G, c) ==
  CASE kind = "inplace" -> InPlace(g, G, c)
    [] kind = "flat" -> Flat(g, G, c)
    [] kind = "alltoall" -> AllToAll(g, G, c)
    [] kind = "allgather" -> AllGather(g, G, c)
    [] kind = "reduce_scatter" -> ReduceScatter(g, G, c)
    [] kind = "gather" -> Gather(g, G, c)
    [] kind = "scatter" -> Scatter(g, G, c)
    [] kind = "send" -> Send(g, G, c)
    [] kind = "recv" -> Recv(g, G, c)

(* What the caller reads afterwards, and what it wrote before.             *)
Outputs(kind) ==
  CASE kind \in {"inplace", "send"} -> {"in"}
    [] kind = "gather" -> {"out", "own"}
    [] OTHER -> {"out"}
Tensors(kind) == Outputs(kind) \cup IF kind = "recv" THEN {} ELSE {"in"}

----------------------------------------------------------------------------
(* Host steps.                                                             *)

Local(c, kind) ==
  {<<c, r>> : r \in
     (IF strided THEN {StageOf[t] : t \in Tensors(kind)} ELSE {}) \cup
     (IF \/ kind \in {"allgather", "reduce_scatter"}
         \/ lib = "mojoccl" /\ kind \in {"gather", "scatter"}
      THEN {"flat"} ELSE {})}
Mine(c, kind) == {<<c, r>> : r \in Tensors(kind)}

Held(g) == g.records \cup UNION {{p[1], p[2]} : p \in g.pairs}

(* The step's effect: whatever nobody refers to any more is freed.         *)
Host(g, alive, kept) ==
  LET dead == alive \ (kept \cup Held(g))
  IN /\ h' = FoldSet(LAMBDA b, k : Free(k, b), g, dead)
     /\ live' = alive \ dead
     /\ refs' = kept

Begins(c) == /\ call[c].pc = "new"
             /\ \A d \in 1..(c - 1) : call[d].pc # "new"

(* The caller fills its input on the current stream before the call.       *)
Produced(c, kind) ==
  IF kind = "recv" THEN h
  ELSE Enqueue(h, "cur", Op("produce", {}, {<<c, "in">>}))

(* The caller keeps only what it will read, or nothing.                    *)
Kept(c, kind) == {{<<c, r>> : r \in Outputs(kind)}, {}}

Call(c, kind, kept) ==
  LET g == Method(kind, Produced(c, kind), h.open, c)
  IN /\ Begins(c)
     /\ Host(g, live \cup Mine(c, kind) \cup Local(c, kind), refs \cup kept)
     /\ call' = [call EXCEPT ![c] =
                   [pc |-> IF h.open THEN "member" ELSE "work", kind |-> kind,
                    event |-> Issued(g, "comm")]]
     /\ UNCHANGED <<lib, strided, raises, deviceVars>>

(* _start_coalescing                                                       *)
StartBlock ==
  /\ ~h.block /\ ~h.open
  /\ h' = [h EXCEPT !.block = TRUE, !.open = TRUE]
  /\ UNCHANGED <<lib, strided, call, live, refs, raises, deviceVars>>

Cleared(g) == [g EXCEPT !.block = FALSE, !.records = {}, !.pairs = {}]

Members(pc, event) ==
  [c \in Calls |-> IF call[c].pc = "member"
                   THEN [call[c] EXCEPT !.pc = pc, !.event = event] ELSE call[c]]

(* _end_coalescing: submit, then what was deferred, then one Work.         *)
EndBlock ==
  LET g == Finish(Record(GroupEnd(Cleared(h)), h.records), h.pairs)
  IN /\ h.open
     /\ Host(g, live, refs)
     /\ call' = Members("work", Issued(g, "comm"))
     /\ UNCHANGED <<lib, strided, raises, deviceVars>>

Raises == raises < MaxRaises /\ raises' = raises + 1

Dropped(g) == [g EXCEPT !.group = <<>>, !.open = FALSE]

Bug_EndBlockFails ==
  /\ h.open /\ Raises
  /\ Host([Dropped(h) EXCEPT !.block = FALSE], live, refs)
  /\ call' = Members("raised", NoWait)
  /\ UNCHANGED <<lib, strided, deviceVars>>

(* ncclGroupEnd fails: nothing was submitted, nothing stays deferred.      *)
EndBlockFails ==
  /\ h.open /\ Raises
  /\ Host(Dropped(Cleared(h)), live, refs)
  /\ call' = Members("raised", NoWait)
  /\ UNCHANGED <<lib, strided, deviceVars>>

(* _abort_coalescing on the block's own thread: the group is closed, which *)
(* submits what was queued, and the deferred work of it still runs.        *)
AbortCoalescing(g, ends) ==
  IF ~g.block THEN g
  ELSE IF ends THEN Finish(Record(GroupEnd(Cleared(g)), g.records), g.pairs)
       ELSE Dropped(Cleared(g))

(* A method up to the line that raises: its operations, neither its fences *)
(* nor its copies back.                                                    *)
Partly(g, G, c, kind) ==
  LET k == Method(kind, [g EXCEPT !.block = TRUE], G, c)
  IN [k EXCEPT !.block = g.block, !.records = g.records, !.pairs = g.pairs]

Several == Kinds \cap {"inplace", "flat", "alltoall", "send", "recv"}

Raised(c, kind) ==
  [call EXCEPT ![c] = [pc |-> "raised", kind |-> kind, event |-> NoWait]]

(* A call of several operations that raises after the first; _loud unwinds *)
(* the block and its members' caller gets the exception.                   *)
CallRaises(c, kind, ends) ==
  LET k == Partly(Produced(c, kind), h.open, c, kind)
      g == AbortCoalescing(k, ends)
  IN /\ Begins(c) /\ Raises /\ kind \in Several
     /\ Host(g, live \cup Mine(c, kind) \cup Local(c, kind), refs)
     /\ call' = [d \in Calls |-> IF h.block /\ call[d].pc = "member"
                                 THEN [call[d] EXCEPT !.pc = "raised"]
                                 ELSE Raised(c, kind)[d]]
     /\ UNCHANGED <<lib, strided, deviceVars>>

Bug_Waits(c, s) == h

Waits(c, s) == WaitFor(h, s, call[c].event)

(* Work.wait on the waiter's stream, what the waiter computes there, and   *)
(* the last reference to the call's tensors.                               *)
WaitWork(c, s) ==
  LET outs == {<<c, r>> : r \in Outputs(call[c].kind)}
      g == Enqueue(RecordStream(Waits(c, s), outs, s), s, Op("use", outs, {}))
  IN /\ call[c].pc = "work" /\ outs \subseteq refs
     /\ Host(g, live, refs \ Mine(c, call[c].kind))
     /\ call' = [call EXCEPT ![c].pc = "used", ![c].event = NoWait]
     /\ UNCHANGED <<lib, strided, raises, deviceVars>>

----------------------------------------------------------------------------
(* The device executes the head of a stream.                               *)

Effect(op) ==
  CASE op.kind = "produce" -> "input"
    [] op.kind = "copy" -> val[CHOOSE b \in op.reads : TRUE]
    [] op.kind = "library" ->
         IF \A b \in op.reads : val[b] = "input" THEN "result" ELSE "junk"
    [] op.kind = "release" -> "none"
    [] OTHER -> "none"

Passed(s, point) == [point EXCEPT ![s] = IF @ = 0 THEN 0 ELSE @ - 1]

Execute(s) ==
  LET op == Head(h.q[s])
      rest == [h.q EXCEPT ![s] = Tail(@)]
  IN /\ h.q[s] # <<>> /\ op.waits = NoWait
     /\ h' = [h EXCEPT !.q = [t \in Streams |-> [k \in DOMAIN rest[t] |->
                            [rest[t][k] EXCEPT !.waits = Passed(s, @)]]],
                       !.waits = [t \in Streams |-> Passed(s, @[t])]]
     /\ call' = [c \in Calls |-> [call[c] EXCEPT !.event = Passed(s, @)]]
     /\ val' = [b \in Bufs |-> IF b \in op.writes THEN Effect(op) ELSE val[b]]
     /\ gone' = IF op.kind = "release" THEN gone \cup op.writes ELSE gone
     /\ seen' = IF op.kind # "use" THEN seen
                ELSE [c \in Calls |-> seen[c] \cup
                        {<<b[2], val[b]>> : b \in {x \in op.reads : x[1] = c}}]
     /\ UNCHANGED <<lib, strided, live, refs, raises>>

Next ==
  \/ \E c \in Calls, kind \in Kinds :
       \/ \E kept \in Kept(c, kind) : Call(c, kind, kept)
       \/ \E ends \in BOOLEAN : CallRaises(c, kind, ends)
  \/ StartBlock \/ EndBlock \/ EndBlockFails
  \/ \E c \in Calls : WaitWork(c, "cur") \/ WaitWork(c, "side")
  \/ \E s \in Streams : Execute(s)

Spec == Init /\ [][Next]_vars

----------------------------------------------------------------------------
(* Nothing that is enqueued, or queued in the library's group, touches     *)
(* memory that went back to the allocator.  A call that raised halfway     *)
(* fences nothing, so its caller's tensors are its caller's business.      *)
Fenced(b) == ~(b[2] \in UserRoles /\ call[b[1]].pc = "raised")
NoUseAfterRelease ==
  \A op \in UNION ({ToSet(h.q[s]) : s \in Streams} \cup {ToSet(h.group)}) :
    op.kind # "release" => \A b \in op.reads \cup op.writes : b \in gone => ~Fenced(b)

(* Whoever waits for a Work reads what its collective produced, copied     *)
(* back, on the stream it waited on.                                       *)
Expected(kind, r) ==
  CASE kind = "inplace" -> {"result"}
    [] kind = "send" \/ r = "own" \/ kind = "scatter" -> {"input", "result"}
    [] OTHER -> {"result"}
ResultsInOrder ==
  \A c \in Calls : \A x \in seen[c] : x[2] \in Expected(call[c].kind, x[1])

(* However a block ended, nothing of it is left for the next one: no open  *)
(* group, nothing queued in it, no deferred copy and no deferred fence.    *)
BlockLeavesNothing ==
  ~h.block => ~h.open /\ h.group = <<>> /\ Held(h) = {}
=============================================================================
