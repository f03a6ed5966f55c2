---------------------------- MODULE GraphStreams ----------------------------
(***************************************************************************)
(* A compiled program that uses streams: torch_compile_backend/streams.py, *)
(* compiler.py and collectives.py.                                         *)
(*                                                                         *)
(* Eagerly, every operation of a traced program is queued on the stream of *)
(* its context and only the program's own waits order the streams.         *)
(* Compiled, the program is cut into regions; each region is one MAX graph *)
(* that runs on MAX's streams, between fences with the torch streams of    *)
(* its contexts.  The model compares the two orders: a stream is the set   *)
(* of the items queued on it or waited for by it, an item's `past` is what *)
(* its stream held when it was queued.  Two items the pasts do not order   *)
(* may run in any order or at once.                                        *)
(***************************************************************************)
EXTENDS Naturals, SequencesExt, FiniteSetsExt

CONSTANTS
  Side,       \* the torch streams a program enters besides the ambient one
  Length,     \* bound: nodes of the traced program
  MaxColl     \* bound: collectives among them, and as many waits for one

Ambient == <<"ambient">>
MaxMain == <<"max">>        \* the stream MAX runs graphs on
Comm    == <<"comm">>       \* the process group's stream
View(k) == <<"view", k>>    \* MAX's side streams
User    == Side \cup {Ambient}
Views   == 1 .. Cardinality(User)
Places  == User \cup {MaxMain, Comm} \cup {View(k) : k \in Views}

ASSUME GraphAssumption ==
  /\ IsFiniteSet(Side) /\ MaxColl \in Nat /\ Length \in Nat \ {0}
  /\ Side \cap ({Ambient, MaxMain, Comm} \cup {View(k) : k \in Views}) = {}

\* A node: an operation, a collective, a wait_tensor, or Stream.wait_stream.
\* `arg` is the node whose value it reads, 0 for an input of the program (for
\* a wait: the one an eager collective is still writing).  `flag`: the
\* operation mutates an input, or reads one that MAX cannot alias.
Flags == {"mutates", "staged"}

VARIABLES
  prog,      \* the traced nodes, in order
  training,  \* some tensor requires a gradient
  phase,     \* "trace", "run", then "done", "refused" or "failed"
  region,    \* the region of each node, once compiled
  stream,    \* the MAX stream of each node, 0 for MAX's main one
  at,        \* the region to run next
  run        \* the streams, as the compiled program has filled them

vars == <<prog, training, phase, region, stream, at, run>>

-----------------------------------------------------------------------------
(* Streams and the order they give.                                         *)

Items == {"op", "comm", "stage", "copy"} \X (0 .. Length)
Outstanding == <<"comm", 0>>   \* the collective queued before the program

NoStreams ==
  [tail   |-> [p \in Places |-> IF p = Comm THEN {Outstanding} ELSE {}],
   past   |-> [x \in Items |-> {}],
   ran    |-> {},              \* the items queued
   waited |-> {}, host |-> {}, told |-> FALSE]

Order(R, dst, src) == [R EXCEPT !.tail[dst] = @ \cup R.tail[src]]

\* `dst` waits for one item, and so for what that item waited for.
Await(R, dst, item) == [R EXCEPT !.tail[dst] = @ \cup {item} \cup R.past[item]]

Enqueue(R, place, item) ==
  [R EXCEPT !.past[item] = R.tail[place], !.ran = @ \cup {item},
            !.tail[place] = @ \cup {item}]

OrderAll(R, dsts, src) ==
  [R EXCEPT !.tail = [p \in Places |->
     IF p \in dsts THEN @[p] \cup R.tail[src] ELSE @[p]]]

Gather(R, dst, srcs) == [R EXCEPT !.tail[dst] = @ \cup UNION {R.tail[p] : p \in srcs}]

\* What op makes of R over the nodes S, in order.
InTurn(op(_, _), R, S) ==
  MapThenFoldSet(LAMBDA n, Q : op(Q, n), R, LAMBDA n : n, LAMBDA T : Max(T), S)

\* The node whose value node n hands on: a wait returns what it waits for.
Src == LET src[n \in 0 .. Len(prog)] ==
             IF n > 0 /\ prog[n].kind = "wait" THEN src[prog[n].arg] ELSE n
       IN src

-----------------------------------------------------------------------------
(* Partitioning: a stream operation is a region of its own; so is each run  *)
(* of tensor nodes between them, cut further by context when training.      *)

Control(n) == prog[n].kind = "stream"

Starts(n) ==
  \/ n = 1 \/ Control(n) \/ Control(n - 1)
  \/ training /\ prog[n].s # prog[n - 1].s

Partition == [n \in 1 .. Len(prog) |-> Cardinality({m \in 1 .. n : Starts(m)})]

NodesOf(part, r) == {n \in DOMAIN part : part[n] = r}
Nodes(r) == NodesOf(region, r)

\* The distinct contexts of some nodes, in the order they first appear.
ContextsOf(nodes) ==
  InTurn(LAMBDA c, n : IF prog[n].s \in ToSet(c) THEN c ELSE Append(c, prog[n].s),
         <<>>, nodes)
Contexts(r) == ContextsOf(Nodes(r))

\* The current stream while the region runs: its context, if it has just one.
Current(r) == IF Len(Contexts(r)) = 1 THEN Contexts(r)[1] ELSE Ambient
Active(r)  == {Current(r)} \cup ToSet(Contexts(r))

Collectives(nodes) == {n \in nodes : prog[n].kind = "coll"}
Flagged(nodes, f)  == {n \in nodes : prog[n].kind = "op" /\ prog[n].flag = f}

\* A context has the side stream of its place among its region's contexts.
\* Collective handles belong to the parent graph: no side streams (nor in a
\* graph that draws a seed, which is no case of its own here).
StreamOf(part, n) ==
  LET nodes == NodesOf(part, part[n])
      c     == ContextsOf(nodes)
  IN  IF prog[n].s = Ambient \/ Collectives(nodes) # {}
      THEN 0 ELSE CHOOSE i \in 1 .. Len(c) : c[i] = prog[n].s

Pool(r)  == {View(k) : k \in 1 .. Max({stream[n] : n \in Nodes(r)})}
Place(n) == IF stream[n] = 0 THEN MaxMain ELSE View(stream[n])

\* The nodes one side_stream body holds: it starts when all it captures is there.
Group(n) ==
  IF stream[n] = 0 THEN {n}
  ELSE {m \in Nodes(region[n]) :
          \A k \in (m .. n) \cup (n .. m) : stream[k] = stream[n]}

\* A wait on neither a collective of its graph nor an input of it is refused.
Refused ==
  \E n \in 1 .. Len(prog) :
    /\ prog[n].kind = "wait" /\ prog[n].arg # 0
    /\ Src[n] # 0 /\ prog[Src[n]].kind = "op"
    /\ Partition[Src[n]] = Partition[n]

-----------------------------------------------------------------------------
(* The order a program asks for, as if it ran eagerly.  A collective comes  *)
(* after its caller's stream; that it also comes after the collectives      *)
(* before it is the process group's doing, no order the program asked for.  *)
(* A wait orders its stream after a collective of its own region, or after  *)
(* an eager one.  For a collective that an earlier region started it orders *)
(* nothing in the compiled program: that region has waited for the transfer *)
(* itself, and wait_tensor then finds no work to wait for.                  *)

EagerNode(R, n) ==
  LET x == prog[n]
      c == Src[n]
  IN CASE x.kind = "op"     -> Enqueue(R, x.s, <<"op", n>>)
       [] x.kind = "coll"   -> [R EXCEPT !.past[<<"comm", n>>] = R.tail[x.s]]
       [] x.kind = "stream" -> Order(R, x.s, x.on)
       [] OTHER ->
            IF c = 0 \/ (prog[c].kind = "coll" /\ region[c] = region[n])
            THEN Await(R, x.s, <<"comm", c>>) ELSE R

Eager == InTurn(EagerNode, NoStreams, 1 .. Len(prog))

-----------------------------------------------------------------------------
(* Running a region.                                                        *)

\* An input an eager collective still writes is waited for first, on the
\* current stream: the graph comes after it through the fences.
\* Mutant: the graph runs without that wait.
Bug_WaitInputs(R, r) == R
WaitInputs(R, r) ==
  IF \E n \in Nodes(r) : prog[n].kind = "wait" /\ Src[n] = 0
  THEN Await(R, Current(r), Outstanding) ELSE R

\* The tokens: MAX's stream waits for every active context.
Import(R, r) == Gather(R, MaxMain, Active(r))

\* Inputs that MAX cannot alias are copied on the current stream, which waits
\* for the contexts first (`before_copy`); the copies are then imported.
Stage(R, r) ==
  IF Flagged(Nodes(r), "staged") = {} THEN R
  ELSE LET copied == InTurn(LAMBDA Q, n : Enqueue(Q, Current(r), <<"stage", n>>),
                            Gather(R, Current(r), Active(r)), Flagged(Nodes(r), "staged"))
       IN  Order(copied, MaxMain, Current(r))

\* MAX waits for a collective it started, once; anything else is left alone.
GraphWait(R, r, n) ==
  IF n \in Collectives(Nodes(r)) \ R.waited
  THEN [Await(R, MaxMain, <<"comm", n>>) EXCEPT !.waited = @ \cup {n}] ELSE R

\* What MAX itself orders a side_stream body after: the values it captures.
Captured(R, n) ==
  UNION {LET a == Src[prog[m].arg] IN
           IF a \in Nodes(region[n]) \ Group(n) /\ prog[a].kind = "op"
           THEN {<<"op", a>>} \cup R.past[<<"op", a>>] ELSE {} : m \in Group(n)}

GraphNode(R, n) ==
  LET r == region[n]
      Q == GraphWait(R, r, Src[prog[n].arg])
  IN CASE prog[n].kind = "wait" -> GraphWait(R, r, Src[n])
       [] prog[n].kind = "coll" -> Enqueue(Order(Q, Comm, MaxMain), Comm, <<"comm", n>>)
       [] OTHER -> Enqueue([Q EXCEPT !.tail[Place(n)] = @ \cup Captured(Q, n)],
                           Place(n), <<"op", n>>)

\* A collective nothing waited for still completes inside the graph.
\* Mutant: only what the program waits for is waited for.
Bug_Finish(R, r) == R
Finish(R, r) == InTurn(LAMBDA Q, n : GraphWait(Q, r, n), R, Collectives(Nodes(r)))

\* MAX's main stream after its side streams, every context after MAX's.
\* Mutant: only the current stream waits for the graph.
Bug_Export(R, r) == Order(R, Current(r), MaxMain)
Export(R, r) == OrderAll(Gather(R, MaxMain, Pool(r) \cup {MaxMain}), Active(r), MaxMain)

\* AOT copies the mutated inputs back on the current stream, after the graph;
\* with several contexts each of them then waits for that stream.
Epilogue(R, r) ==
  InTurn(LAMBDA Q, n : Enqueue(Q, Current(r), <<"copy", n>>), R,
         Flagged(Nodes(r), "mutates"))
Publish(R, r) ==
  IF Len(Contexts(r)) > 1 THEN OrderAll(R, Active(r), Current(r)) ELSE R

Entered(r)  == LET R == Stage(Import(WaitInputs(run, r), r), r)
               IN  OrderAll(R, Pool(r), MaxMain)
Executed(r) == Finish(InTurn(GraphNode, Entered(r), Nodes(r)), r)

-----------------------------------------------------------------------------
Init ==
  /\ prog = <<>> /\ training \in BOOLEAN /\ phase = "trace" /\ at = 1
  /\ region = <<>> /\ stream = <<>> /\ run = NoStreams

Values == {n \in 1 .. Len(prog) : prog[n].kind # "stream"}
\* bound: an operation reads the newest value or an input, a wait any value.
Newest == {0, Max(Values \cup {0})}
Budget(kind) == Cardinality({n \in Values : prog[n].kind = kind}) < MaxColl

Tracing == phase = "trace" /\ Len(prog) < Length
Trace(node) ==
  /\ prog' = Append(prog, node)
  /\ UNCHANGED <<training, phase, region, stream, at, run>>

\* A transfer's result is a fresh dense buffer: no staged copy of it is made.
TraceOp ==
  Tracing /\ \E s \in User, a \in Newest, f \in Flags :
    /\ f = "staged" /\ Src[a] # 0 => prog[Src[a]].kind # "coll"
    /\ Trace([kind |-> "op", s |-> s, arg |-> a, flag |-> f])

TraceCollective ==
  Tracing /\ Budget("coll") /\ \E s \in User, a \in Newest :
    Trace([kind |-> "coll", s |-> s, arg |-> a, flag |-> "none"])

TraceWait ==
  Tracing /\ Budget("wait") /\ \E s \in User, a \in Values \cup {0} :
    Trace([kind |-> "wait", s |-> s, arg |-> a, flag |-> "none"])

\* bound: neither the first node nor the last, where it would order nothing.
TraceWaitStream ==
  Tracing /\ Len(prog) \in 1 .. Length - 2 /\ \E s, t \in User :
    /\ s # t /\ Trace([kind |-> "stream", s |-> s, arg |-> 0, on |-> t])

Compile ==
  /\ phase = "trace" /\ Len(prog) = Length
  /\ IF Refused
     THEN phase' = "refused" /\ UNCHANGED <<region, stream>>
     ELSE LET part == Partition IN
          /\ phase' = "run" /\ region' = part
          /\ stream' = [n \in 1 .. Len(prog) |-> StreamOf(part, n)]
  /\ UNCHANGED <<prog, training, at, run>>

Advance ==
  /\ at' = at + 1
  /\ phase' = IF Nodes(at + 1) = {} THEN "done" ELSE "run"
  /\ UNCHANGED <<prog, training, region, stream>>

RunControl ==
  LET n == Min(Nodes(at)) IN
  /\ phase = "run" /\ Control(n)
  /\ run' = Order(run, prog[n].s, prog[n].on)
  /\ Advance

RunGraph ==
  /\ phase = "run" /\ ~Control(Min(Nodes(at)))
  /\ run' = Publish(Epilogue(Export(Executed(at), at), at), at)
  /\ Advance

\* Executing the graph raises at the node `bad`, the ones before it queued.  The host
\* then waits for everything its process groups issued, or says that it could
\* not; the fences leave as they do from a graph that ran.
RunFails ==
  /\ phase = "run" /\ ~Control(Min(Nodes(at)))
  /\ \E bad \in Nodes(at) :
       LET some == InTurn(GraphNode, Entered(at), {n \in Nodes(at) : n < bad})
           R    == Export(some, at)
           coll == Collectives(Nodes(at)) # {}
       IN \/ run' = [R EXCEPT !.host = IF coll THEN R.tail[Comm] ELSE {}]
          \/ coll /\ run' = [R EXCEPT !.told = TRUE]
  /\ phase' = "failed"
  /\ UNCHANGED <<prog, training, region, stream, at>>

Next ==
  \/ TraceOp \/ TraceCollective \/ TraceWait \/ TraceWaitStream
  \/ Compile \/ RunControl \/ RunGraph \/ RunFails

Spec == Init /\ [][Next]_vars

-----------------------------------------------------------------------------
(* Properties.                                                              *)

Over == phase \in {"done", "failed"}

\* The memory an item writes and reads: the value of a node, or (0) the inputs
\* of the program, which only the epilogue's copies write.
Written(x) == CASE x[1] = "copy" -> {0} [] x[1] = "stage" -> {} [] OTHER -> {x[2]}
Touched(src, x) ==
  Written(x) \cup
  IF x[1] = "copy" THEN {x[2]}
  ELSE {src[prog[x[2]].arg]} \cup IF prog[x[2]].flag = "mutates" THEN {0} ELSE {}

\* What the program ordered stays ordered.  If node a comes before node b when
\* the program runs eagerly, and something the compiled program does for a
\* touches memory that something it does for b writes, or the other way round,
\* the first comes before the second.  Within one graph values are not memory:
\* only the copy that overwrites an input has to come after its readers.
EagerOrderKept ==
  Over =>
    LET src   == Src
        eager == Eager.past
        Item(n) == <<IF prog[n].kind = "coll" THEN "comm" ELSE "op", n>>
    IN \A x, y \in run.ran :
         /\ x[2] < y[2] /\ Item(x[2]) \in eager[Item(y[2])]
         /\ \/ region[x[2]] # region[y[2]]
            \/ y[1] = "copy" /\ x[1] # "copy"
         /\ \/ Written(x) \cap Touched(src, y) # {}
            \/ Written(y) \cap Touched(src, x) # {}
         => x \in run.past[y]

\* Nothing reads a value before it is there, whatever the program forgot to
\* order: an operation comes after the one whose value it reads, after the
\* transfer of a collective it reads, and after the transfer into an input
\* that the program waits for.
ReadsAfterWrites ==
  Over =>
    LET src == Src IN
    \A y \in run.ran :
      LET arg == prog[y[2]].arg
          a   == src[arg]
      IN y[1] \in {"op", "comm"} =>
           CASE a # 0 /\ prog[a].kind = "op" -> <<"op", a>> \in run.past[y]
             [] a # 0 /\ prog[a].kind = "coll" -> <<"comm", a>> \in run.past[y]
             [] OTHER -> arg # 0 => Outstanding \in run.past[y]

\* A graph gives its memory back once it has run or failed: by then it has
\* waited for every transfer it started, or the host has, or the error says
\* that the memory is not safe.
TransfersSettled ==
  phase \notin {"trace", "refused"} =>
    \/ run.told
    \/ run.tail[Comm] \ {Outstanding} \subseteq run.tail[MaxMain] \cup run.host

Sym == Permutations(Side)
=============================================================================
