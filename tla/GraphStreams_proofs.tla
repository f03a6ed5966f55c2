------------------------ MODULE GraphStreams_proofs ------------------------
(***************************************************************************)
(* Theorems about GraphStreams, for any side streams, any length of the    *)
(* traced program and any number of collectives: the order a program asks  *)
(* for is kept, nothing is read before it is there, and a graph gives its  *)
(* memory back once the transfers it started are over.                     *)
(*                                                                         *)
(* The invariant relates, region by region, what the streams of the        *)
(* compiled program hold to what the same program orders when it runs      *)
(* eagerly: between two regions MAX's main stream holds all that ran, and  *)
(* each torch stream holds, with the copies they end with, the operations  *)
(* that come before it eagerly (Outside).  Inside a region the streams its *)
(* nodes run on hold all of that for every context of the region (Inside). *)
(***************************************************************************)
EXTENDS TorchCompile, FiniteSetTheorems, WellFoundedInduction, SequenceTheorems, TLAPS

-----------------------------------------------------------------------------
(* Types, and what the orders between streams do to them.                  *)

\* The types of a node and of the streams.
NodeSet ==
  [kind : {"op"}, s : User, arg : Nat, flag : Flags]
  \cup [kind : {"coll", "wait"}, s : User, arg : Nat, flag : {"none"}]
  \cup [kind : {"stream"}, s : User, arg : {0}, on : User]
Runs ==
  [tail : [Places -> SUBSET Items], past : [Items -> SUBSET Items],
   ran : SUBSET Items, waited : SUBSET Nat, host : SUBSET Items, told : BOOLEAN]

\* Q is R but for what the streams hold, and no stream holds less.
Aside(R, Q) ==
  /\ Q.past = R.past /\ Q.ran = R.ran /\ Q.waited = R.waited
  /\ Q.host = R.host /\ Q.told = R.told
Grows(R, Q) == \A p \in Places : R.tail[p] \subseteq Q.tail[p]

\* The names of the streams and of the transfer before the program are apart.
LEMMA PlaceNames ==
  /\ Ambient \in User /\ User \subseteq Places /\ MaxMain \in Places /\ Comm \in Places
  /\ \A k \in Views : View(k) \in Places /\ View(k) \notin User
                      /\ View(k) # MaxMain /\ View(k) # Comm
  /\ MaxMain \notin User /\ Comm \notin User /\ MaxMain # Comm
BY GraphAssumption DEF Ambient, User, Places, MaxMain, Comm, View

\* An item of a node, and the transfer before the program, are items.
LEMMA ItemTypes ==
  /\ Outstanding \in Items
  /\ \A n \in 0..Length, k \in {"op", "comm", "stage", "copy"} : <<k, n>> \in Items
BY GraphAssumption DEF Items, Outstanding

\* Before the program runs only its outstanding transfer is queued.
LEMMA NoStreamsType ==
  /\ NoStreams \in Runs /\ NoStreams.ran = {} /\ NoStreams.waited = {}
  /\ NoStreams.tail[Comm] = {Outstanding} /\ NoStreams.told = FALSE
  /\ NoStreams.past = [x \in Items |-> {}]
  /\ \A p \in Places : p # Comm => NoStreams.tail[p] = {}
BY PlaceNames, ItemTypes DEF NoStreams, Runs

\* A stream comes after another: it holds what that one holds.
LEMMA OrderFields ==
  ASSUME NEW R \in Runs, NEW dst \in Places, NEW src \in Places
  PROVE  /\ Order(R, dst, src) \in Runs /\ Aside(R, Order(R, dst, src))
         /\ Order(R, dst, src).tail[dst] = R.tail[dst] \cup R.tail[src]
         /\ \A t \in Places : t # dst => Order(R, dst, src).tail[t] = R.tail[t]
         /\ Grows(R, Order(R, dst, src))
<1> DEFINE t == [R.tail EXCEPT ![dst] = @ \cup R.tail[src]]
<1>1. t \in [Places -> SUBSET Items]
  BY DEF Runs
<1>2. Order(R, dst, src) = [R EXCEPT !.tail = t]
  BY DEF Order, Runs
<1> HIDE DEF t
<1> QED BY <1>1, <1>2 DEF Runs, Aside, Grows, t

\* A stream comes after an item and all before it.
LEMMA AwaitFields ==
  ASSUME NEW R \in Runs, NEW dst \in Places, NEW x \in Items
  PROVE  /\ Await(R, dst, x) \in Runs /\ Aside(R, Await(R, dst, x))
         /\ Await(R, dst, x).tail[dst] = R.tail[dst] \cup {x} \cup R.past[x]
         /\ \A t \in Places : t # dst => Await(R, dst, x).tail[t] = R.tail[t]
         /\ Grows(R, Await(R, dst, x))
<1> DEFINE t == [R.tail EXCEPT ![dst] = @ \cup {x} \cup R.past[x]]
<1>1. t \in [Places -> SUBSET Items]
  BY DEF Runs
<1>2. Await(R, dst, x) = [R EXCEPT !.tail = t]
  BY DEF Await, Runs
<1> HIDE DEF t
<1> QED BY <1>1, <1>2 DEF Runs, Aside, Grows, t

\* An item comes after what its stream held, and is on it from then on.
LEMMA EnqueueFields ==
  ASSUME NEW R \in Runs, NEW p \in Places, NEW x \in Items
  PROVE  /\ Enqueue(R, p, x) \in Runs
         /\ Enqueue(R, p, x).tail[p] = R.tail[p] \cup {x}
         /\ \A t \in Places : t # p => Enqueue(R, p, x).tail[t] = R.tail[t]
         /\ Grows(R, Enqueue(R, p, x))
         /\ Enqueue(R, p, x).past[x] = R.tail[p]
         /\ \A y \in Items : y # x => Enqueue(R, p, x).past[y] = R.past[y]
         /\ Enqueue(R, p, x).ran = R.ran \cup {x}
         /\ Enqueue(R, p, x).waited = R.waited
         /\ Enqueue(R, p, x).host = R.host /\ Enqueue(R, p, x).told = R.told
<1> DEFINE t == [R.tail EXCEPT ![p] = @ \cup {x}]
           b == [R.past EXCEPT ![x] = R.tail[p]]
           n == R.ran \cup {x}
<1>1. t \in [Places -> SUBSET Items] /\ b \in [Items -> SUBSET Items] /\ n \in SUBSET Items
  BY DEF Runs
<1>2. Enqueue(R, p, x) = [R EXCEPT !.past = b, !.ran = n, !.tail = t]
  BY DEF Enqueue, Runs
<1>3. /\ t[p] = R.tail[p] \cup {x} /\ \A q \in Places : q # p => t[q] = R.tail[q]
      /\ \A q \in Places : R.tail[q] \subseteq t[q]
  BY DEF Runs
<1>4. b[x] = R.tail[p] /\ \A y \in Items : y # x => b[y] = R.past[y]
  BY DEF Runs
<1> HIDE DEF t, b, n
<1> DEFINE Q == Enqueue(R, p, x)
<1> HIDE DEF Q
<1>5. /\ Q \in Runs /\ Q.tail = t /\ Q.past = b /\ Q.ran = n
      /\ Q.waited = R.waited /\ Q.host = R.host /\ Q.told = R.told
  BY <1>1, <1>2 DEF Runs, Q
<1> QED BY <1>3, <1>4, <1>5 DEF Grows, Q, n

\* Several streams come after one.
LEMMA OrderAllFields ==
  ASSUME NEW R \in Runs, NEW dsts, NEW src \in Places
  PROVE  /\ OrderAll(R, dsts, src) \in Runs /\ Aside(R, OrderAll(R, dsts, src))
         /\ \A p \in Places \cap dsts :
              OrderAll(R, dsts, src).tail[p] = R.tail[p] \cup R.tail[src]
         /\ \A p \in Places \ dsts : OrderAll(R, dsts, src).tail[p] = R.tail[p]
         /\ Grows(R, OrderAll(R, dsts, src))
<1> DEFINE t == [p \in Places |-> IF p \in dsts THEN R.tail[p] \cup R.tail[src] ELSE R.tail[p]]
<1>1. t \in [Places -> SUBSET Items]
  BY DEF Runs
<1>2. OrderAll(R, dsts, src) = [R EXCEPT !.tail = t]
  BY DEF OrderAll, Runs
<1> HIDE DEF t
<1> QED BY <1>1, <1>2 DEF Runs, Aside, Grows, t

\* One stream comes after several.
LEMMA GatherFields ==
  ASSUME NEW R \in Runs, NEW dst \in Places, NEW srcs \in SUBSET Places
  PROVE  /\ Gather(R, dst, srcs) \in Runs /\ Aside(R, Gather(R, dst, srcs))
         /\ Gather(R, dst, srcs).tail[dst] = R.tail[dst] \cup UNION {R.tail[p] : p \in srcs}
         /\ \A t \in Places : t # dst => Gather(R, dst, srcs).tail[t] = R.tail[t]
         /\ Grows(R, Gather(R, dst, srcs))
<1> DEFINE u == UNION {R.tail[p] : p \in srcs}
           t == [R.tail EXCEPT ![dst] = @ \cup u]
<1>1. u \in SUBSET Items
  BY DEF Runs
<1>2. Gather(R, dst, srcs) = [R EXCEPT !.tail = t]
  BY DEF Gather, Runs
<1> HIDE DEF u
<1>3. t \in [Places -> SUBSET Items]
  BY <1>1 DEF Runs
<1> HIDE DEF t
<1> QED BY <1>2, <1>3 DEF Runs, Aside, Grows, t, u

\* Growth is transitive.
LEMMA GrowsTrans ==
  ASSUME NEW R, NEW Q, NEW T, Grows(R, Q), Grows(Q, T)
  PROVE  Grows(R, T)
BY DEF Grows

-----------------------------------------------------------------------------
(* Folds over the nodes of a graph, in order.                              *)

\* A nonempty set of numbers up to n has a greatest one.
LEMMA HasMaxFromZero ==
  ASSUME NEW n \in Nat, NEW S \in SUBSET (0..n), S # {}
  PROVE  Max(S) \in S /\ \A y \in S : Max(S) >= y
<1> DEFINE Below == {n - x : x \in S}
<1>0. \A x \in S : x \in 0..n /\ x \in Nat /\ x <= n
  OBVIOUS
<1>1. Below \in SUBSET Nat /\ Below # {}
  <2>1. \A x \in S : n - x \in Nat
    BY <1>0
  <2> QED BY <2>1
<1>2. PICK m \in Below : \A y \in Below : ~(y < m)
  <2>1. \A T \in SUBSET Nat : T # {} => \E x \in T : \A y \in T : ~(<<y, x>> \in OpToRel(<, Nat))
    BY NatLessThanWellFounded, WFMin
  <2> QED BY <1>1, <2>1 DEF OpToRel
<1>3. PICK x \in S : m = n - x
  OBVIOUS
<1>4. \A y \in S : n - y \in Below /\ n - y \in Nat /\ y \in Nat
  OBVIOUS
<1>5. \A y \in S : x >= y
  BY <1>2, <1>3, <1>4
<1> QED BY <1>5 DEF Max

\* A set of positions has a largest one.
LEMMA HasMax ==
  ASSUME NEW n \in Nat, NEW S \in SUBSET (1..n), S # {}
  PROVE  Max(S) \in S /\ \A y \in S : Max(S) >= y
<1>1. S \in SUBSET (0..n)
  OBVIOUS
<1> QED BY <1>1, HasMaxFromZero

\* A nonempty set of numbers has a least one.
LEMMA HasMin ==
  ASSUME NEW S \in SUBSET Nat, S # {}
  PROVE  Min(S) \in S /\ \A y \in S : Min(S) <= y
<1>1. PICK m \in S : \A y \in S : ~(y < m)
  <2>1. \A T \in SUBSET Nat : T # {} => \E x \in T : \A y \in T : ~(<<y, x>> \in OpToRel(<, Nat))
    BY NatLessThanWellFounded, WFMin
  <2> QED BY <2>1 DEF OpToRel
<1>2. \A y \in S : m <= y
  BY <1>1
<1> QED BY <1>2 DEF Min

\* What holds of the empty set, and of every set of numbers up to n once it
\* holds of the set without its greatest element, holds of all of them.
LEMMA Climbs ==
  ASSUME NEW n \in Nat, NEW S \in SUBSET (1..n), NEW W, {} \in W,
         \A s \in SUBSET S : s # {} /\ s \ {Max(s)} \in W => s \in W
  PROVE  \A s \in SUBSET S : s \in W
<1> DEFINE Bad == {s \in SUBSET S : s \notin W}
           Sizes == {Cardinality(s) : s \in Bad}
<1> SUFFICES ASSUME Bad # {} PROVE FALSE
  OBVIOUS
<1>0. IsFiniteSet(1..n)
  BY FS_Interval
<1>1. \A s \in SUBSET S : IsFiniteSet(s) /\ Cardinality(s) \in Nat
  BY <1>0, FS_Subset, FS_CardinalityType
<1>2. Sizes # {} /\ Sizes \subseteq Nat
  BY <1>1
<1>3. PICK k \in Sizes : \A m \in Sizes : k <= m
  BY <1>2, HasMin
<1>4. PICK s \in Bad : Cardinality(s) = k
  OBVIOUS
<1>5. s # {} /\ Max(s) \in s
  BY HasMax
<1>6. s \ {Max(s)} \in Bad
  BY <1>4, <1>5
<1>7. Cardinality(s \ {Max(s)}) = k - 1
  BY <1>1, <1>4, <1>5, FS_RemoveElement
<1>8. k \in Nat /\ k - 1 < k
  BY <1>2
<1>9. k - 1 \in Sizes
  BY <1>6, <1>7
<1> QED BY <1>3, <1>8, <1>9

\* f computes, over the subsets of S, the fold of o in ascending order.
Turns(f, S, base, o) ==
  \A s \in SUBSET S : f[s] = IF s = {} THEN base ELSE o[Max(s)][f[s \ {Max(s)}]]

\* Recursion over sets of numbers defines a function.
LEMMA TurnsExist ==
  ASSUME NEW n \in Nat, NEW S \in SUBSET (1..n), NEW V, NEW base \in V, NEW o \in [S -> [V -> V]]
  PROVE  \E f \in [SUBSET S -> V] : Turns(f, S, base, o)
<1> DEFINE Step(f, s) == IF s = {} THEN base ELSE o[Max(s)][f[s \ {Max(s)}]]
           To(f, k) == \A s \in SUBSET S : Cardinality(s) < k => f[s] = Step(f, s)
           F == [SUBSET S -> V]
           None_ == {k \in Nat : ~\E f \in F : To(f, k)}
<1>a. IsFiniteSet(1..n)
  BY FS_Interval
<1>b. \A s \in SUBSET S : s \in SUBSET (1..n)
  OBVIOUS
<1>c. \A s \in SUBSET S : s # {} => Max(s) \in s
  BY <1>b, HasMax
<1>0. IsFiniteSet(1..n) /\ \A s \in SUBSET S : s # {} => Max(s) \in s
  BY <1>a, <1>c
<1>1. \A s \in SUBSET S : IsFiniteSet(s) /\ Cardinality(s) \in Nat
  BY <1>0, FS_Subset, FS_CardinalityType
<1>2. ASSUME NEW k \in Nat, \E f \in F : To(f, k) PROVE \E f \in F : To(f, k + 1)
  <2>1. PICK f \in F : To(f, k)
    BY <1>2
  <2> DEFINE e == [s \in SUBSET S |-> Step(f, s)]
  <2>2. \A s \in SUBSET S : s # {} => Max(s) \in S /\ s \ {Max(s)} \in SUBSET S
    BY <1>0
  <2>3. e \in F
    <3>1. ASSUME NEW s \in SUBSET S PROVE Step(f, s) \in V
      <4>1. CASE s = {}
        BY <4>1
      <4>2. CASE s # {}
        <5>1. Max(s) \in S /\ f[s \ {Max(s)}] \in V
          BY <2>1, <2>2, <4>2
        <5>2. o[Max(s)] \in [V -> V]
          BY <5>1
        <5> QED BY <4>2, <5>1, <5>2
      <4> QED BY <4>1, <4>2
    <3> HIDE DEF Step
    <3> QED BY <3>1
  <2>4. ASSUME NEW s \in SUBSET S, Cardinality(s) < k + 1 PROVE e[s] = Step(e, s)
    <3>1. CASE s = {}
      BY <3>1
    <3>2. CASE s # {}
      <4> DEFINE t == s \ {Max(s)}
      <4>1. t \in SUBSET S /\ Cardinality(t) = Cardinality(s) - 1
        BY <1>0, <1>1, <3>2, FS_RemoveElement
      <4>2. Cardinality(t) < k
        BY <1>1, <2>4, <4>1
      <4>3. f[t] = Step(f, t)
        BY <2>1, <4>1, <4>2
      <4>4. e[t] = f[t]
        BY <4>1, <4>3
      <4> QED BY <3>2, <4>4
    <3> QED BY <3>1, <3>2
  <2> HIDE DEF e, Step
  <2> QED BY <2>3, <2>4
<1>3. \E f \in F : To(f, 0)
  <2>1. [s \in SUBSET S |-> base] \in F
    OBVIOUS
  <2>2. \A s \in SUBSET S : ~(Cardinality(s) < 0)
    BY <1>1
  <2> HIDE DEF Step, F
  <2> QED BY <2>1, <2>2
<1> HIDE DEF To
<1>4. None_ = {}
  <2> SUFFICES ASSUME None_ # {} PROVE FALSE
    OBVIOUS
  <2>1. PICK k \in None_ : \A m \in None_ : k <= m
    BY HasMin
  <2>2. k \in Nat /\ k # 0 /\ ~\E f \in F : To(f, k)
    BY <1>3, <2>1
  <2>3. k - 1 \in Nat /\ k - 1 < k /\ (k - 1) + 1 = k
    BY <2>2
  <2>4. k - 1 \notin None_
    <3> HIDE DEF None_
    <3>1. k - 1 \in None_ => k <= k - 1
      BY <2>1
    <3> QED BY <2>2, <2>3, <3>1
  <2>5. \E f \in F : To(f, k - 1)
    BY <2>3, <2>4
  <2>6. \E f \in F : To(f, (k - 1) + 1)
    BY <1>2, <2>3, <2>5
  <2> QED BY <2>2, <2>3, <2>6
<1>5. Cardinality(S) + 1 \in Nat
  BY <1>1
<1>6. PICK f \in F : To(f, Cardinality(S) + 1)
  BY <1>4, <1>5
<1>7. \A s \in SUBSET S : Cardinality(s) < Cardinality(S) + 1
  <2>1. \A s \in SUBSET S : Cardinality(s) <= Cardinality(S)
    BY <1>1, FS_Subset
  <2> QED BY <1>1, <2>1
<1> QED BY <1>6, <1>7 DEF To, Turns

\* The nodes S queued after R; the collectives S waited for; the copies of S.
QueueAll(R, S) == InTurn(GraphNode, R, S)
WaitAll(R, r, S) == InTurn(LAMBDA Q, n : GraphWait(Q, r, n), R, S)
CopyAll(R, p, w, S) == InTurn(LAMBDA Q, n : Enqueue(Q, p, <<w, n>>), R, S)
EagerAll(R, S) == InTurn(EagerNode, R, S)

\* Queueing the nodes of a graph, in order.
GraphNodeStays(S, V, base) ==
  /\ Len(prog) \in Nat /\ S \in SUBSET (1..Len(prog)) /\ base \in V
  /\ \A R \in V, m \in S : GraphNode(R, m) \in V
GraphNodeTook(it, S, V, base) ==
  /\ it \in [SUBSET S -> V] /\ it[{}] = base /\ QueueAll(base, S) = it[S]
  /\ \A s \in SUBSET S : s # {} => it[s] = GraphNode(it[s \ {Max(s)}], Max(s))
\* There is a partial result for every subset of the nodes.
LEMMA GraphNodeTurns ==
  ASSUME NEW S, NEW V, NEW base, GraphNodeStays(S, V, base)
  PROVE  \E it : GraphNodeTook(it, S, V, base)
<1> USE DEF GraphNodeStays
<1> DEFINE o == [m \in S |-> [R \in V |-> GraphNode(R, m)]]
           Makes(f) == f = [s \in SUBSET S |-> IF s = {} THEN base ELSE GraphNode(f[s \ {Max(s)}], Max(s))]
           it == CHOOSE f : Makes(f)
<1>1. QueueAll(base, S) = it[S]
  BY DEF QueueAll, InTurn, MapThenFoldSet
<1>2. \A s \in SUBSET S : s # {} => Max(s) \in s
  <2>1. \A s \in SUBSET S : s \in SUBSET (1..Len(prog))
    OBVIOUS
  <2>2. Len(prog) \in Nat
    OBVIOUS
  <2> HIDE DEF GraphNodeStays
  <2> QED BY <2>1, <2>2, HasMax
<1>3. o \in [S -> [V -> V]]
  OBVIOUS
<1>4. PICK f \in [SUBSET S -> V] : Turns(f, S, base, o)
  <2> HIDE DEF o
  <2> QED BY <1>3, TurnsExist
<1>5. \A s \in SUBSET S : s # {} => f[s] = GraphNode(f[s \ {Max(s)}], Max(s))
  BY <1>2, <1>4 DEF Turns
<1>6. Makes(f)
  BY <1>4, <1>5 DEF Turns
<1>7. Makes(it)
  <2> HIDE DEF Makes
  <2> QED BY <1>6
<1> HIDE DEF it, o
<1>8. it[{}] = base /\ \A s \in SUBSET S : s # {} => it[s] = GraphNode(it[s \ {Max(s)}], Max(s))
  BY <1>7
<1>9. it \in [SUBSET S -> V]
  <2> DEFINE W == {s \in SUBSET S : it[s] \in V}
  <2>1. {} \in W
    BY <1>8
  <2>2. ASSUME NEW s \in SUBSET S, s # {}, s \ {Max(s)} \in W PROVE s \in W
    <3>1. Max(s) \in S /\ it[s \ {Max(s)}] \in V
      BY <1>2, <2>2
    <3>2. GraphNode(it[s \ {Max(s)}], Max(s)) \in V
      BY <3>1
    <3> QED BY <1>8, <2>2, <3>2
  <2> HIDE DEF W
  <2>3. \A s \in SUBSET S : s \in W
    BY <2>1, <2>2, Climbs
  <2>4. \A s \in SUBSET S : it[s] \in V
    BY <2>3 DEF W
  <2> QED BY <1>7, <2>4
<1> QED BY <1>1, <1>8, <1>9 DEF GraphNodeTook

\* Waiting for collectives of a region, in order.
GraphWaitStays(S, V, base, r) ==
  /\ Len(prog) \in Nat /\ S \in SUBSET (1..Len(prog)) /\ base \in V
  /\ \A R \in V, m \in S : GraphWait(R, r, m) \in V
GraphWaitTook(it, S, V, base, r) ==
  /\ it \in [SUBSET S -> V] /\ it[{}] = base /\ WaitAll(base, r, S) = it[S]
  /\ \A s \in SUBSET S : s # {} => it[s] = GraphWait(it[s \ {Max(s)}], r, Max(s))
\* ... of the waits a graph ends with.
LEMMA GraphWaitTurns ==
  ASSUME NEW S, NEW V, NEW base, NEW r, GraphWaitStays(S, V, base, r)
  PROVE  \E it : GraphWaitTook(it, S, V, base, r)
<1> USE DEF GraphWaitStays
<1> DEFINE o == [m \in S |-> [R \in V |-> GraphWait(R, r, m)]]
           Makes(f) == f = [s \in SUBSET S |-> IF s = {} THEN base ELSE GraphWait(f[s \ {Max(s)}], r, Max(s))]
           it == CHOOSE f : Makes(f)
<1>1. WaitAll(base, r, S) = it[S]
  BY DEF WaitAll, InTurn, MapThenFoldSet
<1>2. \A s \in SUBSET S : s # {} => Max(s) \in s
  <2>1. \A s \in SUBSET S : s \in SUBSET (1..Len(prog))
    OBVIOUS
  <2>2. Len(prog) \in Nat
    OBVIOUS
  <2> HIDE DEF GraphWaitStays
  <2> QED BY <2>1, <2>2, HasMax
<1>3. o \in [S -> [V -> V]]
  OBVIOUS
<1>4. PICK f \in [SUBSET S -> V] : Turns(f, S, base, o)
  <2> HIDE DEF o
  <2> QED BY <1>3, TurnsExist
<1>5. \A s \in SUBSET S : s # {} => f[s] = GraphWait(f[s \ {Max(s)}], r, Max(s))
  BY <1>2, <1>4 DEF Turns
<1>6. Makes(f)
  BY <1>4, <1>5 DEF Turns
<1>7. Makes(it)
  <2> HIDE DEF Makes
  <2> QED BY <1>6
<1> HIDE DEF it, o
<1>8. it[{}] = base /\ \A s \in SUBSET S : s # {} => it[s] = GraphWait(it[s \ {Max(s)}], r, Max(s))
  BY <1>7
<1>9. it \in [SUBSET S -> V]
  <2> DEFINE W == {s \in SUBSET S : it[s] \in V}
  <2>1. {} \in W
    BY <1>8
  <2>2. ASSUME NEW s \in SUBSET S, s # {}, s \ {Max(s)} \in W PROVE s \in W
    <3>1. Max(s) \in S /\ it[s \ {Max(s)}] \in V
      BY <1>2, <2>2
    <3>2. GraphWait(it[s \ {Max(s)}], r, Max(s)) \in V
      BY <3>1
    <3> QED BY <1>8, <2>2, <3>2
  <2> HIDE DEF W
  <2>3. \A s \in SUBSET S : s \in W
    BY <2>1, <2>2, Climbs
  <2>4. \A s \in SUBSET S : it[s] \in V
    BY <2>3 DEF W
  <2> QED BY <1>7, <2>4
<1> QED BY <1>1, <1>8, <1>9 DEF GraphWaitTook

\* Queueing an item for each node on one stream.
EnqueueStays(S, V, base, p, w) ==
  /\ Len(prog) \in Nat /\ S \in SUBSET (1..Len(prog)) /\ base \in V
  /\ \A R \in V, m \in S : Enqueue(R, p, <<w, m>>) \in V
EnqueueTook(it, S, V, base, p, w) ==
  /\ it \in [SUBSET S -> V] /\ it[{}] = base /\ CopyAll(base, p, w, S) = it[S]
  /\ \A s \in SUBSET S : s # {} => it[s] = Enqueue(it[s \ {Max(s)}], p, <<w, Max(s)>>)
\* ... of the copies of a region.
LEMMA EnqueueTurns ==
  ASSUME NEW S, NEW V, NEW base, NEW p, NEW w, EnqueueStays(S, V, base, p, w)
  PROVE  \E it : EnqueueTook(it, S, V, base, p, w)
<1> USE DEF EnqueueStays
<1> DEFINE o == [m \in S |-> [R \in V |-> Enqueue(R, p, <<w, m>>)]]
           Makes(f) == f = [s \in SUBSET S |-> IF s = {} THEN base ELSE Enqueue(f[s \ {Max(s)}], p, <<w, Max(s)>>)]
           it == CHOOSE f : Makes(f)
<1>1. CopyAll(base, p, w, S) = it[S]
  BY DEF CopyAll, InTurn, MapThenFoldSet
<1>2. \A s \in SUBSET S : s # {} => Max(s) \in s
  <2>1. \A s \in SUBSET S : s \in SUBSET (1..Len(prog))
    OBVIOUS
  <2>2. Len(prog) \in Nat
    OBVIOUS
  <2> HIDE DEF EnqueueStays
  <2> QED BY <2>1, <2>2, HasMax
<1>3. o \in [S -> [V -> V]]
  OBVIOUS
<1>4. PICK f \in [SUBSET S -> V] : Turns(f, S, base, o)
  <2> HIDE DEF o
  <2> QED BY <1>3, TurnsExist
<1>5. \A s \in SUBSET S : s # {} => f[s] = Enqueue(f[s \ {Max(s)}], p, <<w, Max(s)>>)
  BY <1>2, <1>4 DEF Turns
<1>6. Makes(f)
  BY <1>4, <1>5 DEF Turns
<1>7. Makes(it)
  <2> HIDE DEF Makes
  <2> QED BY <1>6
<1> HIDE DEF it, o
<1>8. it[{}] = base /\ \A s \in SUBSET S : s # {} => it[s] = Enqueue(it[s \ {Max(s)}], p, <<w, Max(s)>>)
  BY <1>7
<1>9. it \in [SUBSET S -> V]
  <2> DEFINE W == {s \in SUBSET S : it[s] \in V}
  <2>1. {} \in W
    BY <1>8
  <2>2. ASSUME NEW s \in SUBSET S, s # {}, s \ {Max(s)} \in W PROVE s \in W
    <3>1. Max(s) \in S /\ it[s \ {Max(s)}] \in V
      BY <1>2, <2>2
    <3>2. Enqueue(it[s \ {Max(s)}], p, <<w, Max(s)>>) \in V
      BY <3>1
    <3> QED BY <1>8, <2>2, <3>2
  <2> HIDE DEF W
  <2>3. \A s \in SUBSET S : s \in W
    BY <2>1, <2>2, Climbs
  <2>4. \A s \in SUBSET S : it[s] \in V
    BY <2>3 DEF W
  <2> QED BY <1>7, <2>4
<1> QED BY <1>1, <1>8, <1>9 DEF EnqueueTook

\* The nodes of a program, run eagerly in order.
EagerStays(S, V, base) ==
  /\ Len(prog) \in Nat /\ S \in SUBSET (1..Len(prog)) /\ base \in V
  /\ \A R \in V, m \in S : EagerNode(R, m) \in V
EagerTook(it, S, V, base) ==
  /\ it \in [SUBSET S -> V] /\ it[{}] = base /\ EagerAll(base, S) = it[S]
  /\ \A s \in SUBSET S : s # {} => it[s] = EagerNode(it[s \ {Max(s)}], Max(s))
\* ... of the eager program.
LEMMA EagerTurns ==
  ASSUME NEW S, NEW V, NEW base, EagerStays(S, V, base)
  PROVE  \E it : EagerTook(it, S, V, base)
<1> USE DEF EagerStays
<1> DEFINE o == [m \in S |-> [R \in V |-> EagerNode(R, m)]]
           Makes(f) == f = [s \in SUBSET S |-> IF s = {} THEN base ELSE EagerNode(f[s \ {Max(s)}], Max(s))]
           it == CHOOSE f : Makes(f)
<1>1. EagerAll(base, S) = it[S]
  BY DEF EagerAll, InTurn, MapThenFoldSet
<1>2. \A s \in SUBSET S : s # {} => Max(s) \in s
  <2>1. \A s \in SUBSET S : s \in SUBSET (1..Len(prog))
    OBVIOUS
  <2>2. Len(prog) \in Nat
    OBVIOUS
  <2> HIDE DEF EagerStays
  <2> QED BY <2>1, <2>2, HasMax
<1>3. o \in [S -> [V -> V]]
  OBVIOUS
<1>4. PICK f \in [SUBSET S -> V] : Turns(f, S, base, o)
  <2> HIDE DEF o
  <2> QED BY <1>3, TurnsExist
<1>5. \A s \in SUBSET S : s # {} => f[s] = EagerNode(f[s \ {Max(s)}], Max(s))
  BY <1>2, <1>4 DEF Turns
<1>6. Makes(f)
  BY <1>4, <1>5 DEF Turns
<1>7. Makes(it)
  <2> HIDE DEF Makes
  <2> QED BY <1>6
<1> HIDE DEF it, o
<1>8. it[{}] = base /\ \A s \in SUBSET S : s # {} => it[s] = EagerNode(it[s \ {Max(s)}], Max(s))
  BY <1>7
<1>9. it \in [SUBSET S -> V]
  <2> DEFINE W == {s \in SUBSET S : it[s] \in V}
  <2>1. {} \in W
    BY <1>8
  <2>2. ASSUME NEW s \in SUBSET S, s # {}, s \ {Max(s)} \in W PROVE s \in W
    <3>1. Max(s) \in S /\ it[s \ {Max(s)}] \in V
      BY <1>2, <2>2
    <3>2. EagerNode(it[s \ {Max(s)}], Max(s)) \in V
      BY <3>1
    <3> QED BY <1>8, <2>2, <3>2
  <2> HIDE DEF W
  <2>3. \A s \in SUBSET S : s \in W
    BY <2>1, <2>2, Climbs
  <2>4. \A s \in SUBSET S : it[s] \in V
    BY <2>3 DEF W
  <2> QED BY <1>7, <2>4
<1> QED BY <1>1, <1>8, <1>9 DEF EagerTook

\* The contexts c with that of node m.
WithContext(c, m) == IF prog[m].s \in ToSet(c) THEN c ELSE Append(c, prog[m].s)

\* Collecting the contexts of nodes.
ContextStays(S, V) ==
  /\ Len(prog) \in Nat /\ S \in SUBSET (1..Len(prog)) /\ <<>> \in V
  /\ \A R \in V, m \in S : WithContext(R, m) \in V
ContextTook(it, S, V) ==
  /\ it \in [SUBSET S -> V] /\ it[{}] = <<>> /\ ContextsOf(S) = it[S]
  /\ \A s \in SUBSET S : s # {} => it[s] = WithContext(it[s \ {Max(s)}], Max(s))
\* ... of the contexts of some nodes.
LEMMA ContextTurns ==
  ASSUME NEW S, NEW V, ContextStays(S, V)
  PROVE  \E it : ContextTook(it, S, V)
<1> USE DEF ContextStays
<1> DEFINE o == [m \in S |-> [R \in V |-> WithContext(R, m)]]
           Makes(f) == f = [s \in SUBSET S |-> IF s = {} THEN <<>> ELSE WithContext(f[s \ {Max(s)}], Max(s))]
           it == CHOOSE f : Makes(f)
<1>1. ContextsOf(S) = it[S]
  BY DEF ContextsOf, InTurn, MapThenFoldSet, WithContext
<1>2. \A s \in SUBSET S : s # {} => Max(s) \in s
  <2>1. \A s \in SUBSET S : s \in SUBSET (1..Len(prog))
    OBVIOUS
  <2>2. Len(prog) \in Nat
    OBVIOUS
  <2> HIDE DEF ContextStays
  <2> QED BY <2>1, <2>2, HasMax
<1>3. o \in [S -> [V -> V]]
  OBVIOUS
<1>4. PICK f \in [SUBSET S -> V] : Turns(f, S, <<>>, o)
  <2> HIDE DEF o
  <2> QED BY <1>3, TurnsExist
<1>5. \A s \in SUBSET S : s # {} => f[s] = WithContext(f[s \ {Max(s)}], Max(s))
  BY <1>2, <1>4 DEF Turns
<1>6. Makes(f)
  BY <1>4, <1>5 DEF Turns
<1>7. Makes(it)
  <2> HIDE DEF Makes
  <2> QED BY <1>6
<1> HIDE DEF it, o
<1>8. it[{}] = <<>> /\ \A s \in SUBSET S : s # {} => it[s] = WithContext(it[s \ {Max(s)}], Max(s))
  BY <1>7
<1>9. it \in [SUBSET S -> V]
  <2> DEFINE W == {s \in SUBSET S : it[s] \in V}
  <2>1. {} \in W
    BY <1>8
  <2>2. ASSUME NEW s \in SUBSET S, s # {}, s \ {Max(s)} \in W PROVE s \in W
    <3>1. Max(s) \in S /\ it[s \ {Max(s)}] \in V
      BY <1>2, <2>2
    <3>2. WithContext(it[s \ {Max(s)}], Max(s)) \in V
      BY <3>1
    <3> QED BY <1>8, <2>2, <3>2
  <2> HIDE DEF W
  <2>3. \A s \in SUBSET S : s \in W
    BY <2>1, <2>2, Climbs
  <2>4. \A s \in SUBSET S : it[s] \in V
    BY <2>3 DEF W
  <2> QED BY <1>7, <2>4
<1> QED BY <1>1, <1>8, <1>9 DEF ContextTook

-----------------------------------------------------------------------------
(* A traced program and its regions.                                       *)

\* What tracing makes: every node reads an earlier value or an input.
Program ==
  /\ prog \in Seq(NodeSet) /\ Len(prog) <= Length
  /\ \A n \in 1..Len(prog) :
       /\ prog[n].arg \in 0..(n - 1)
       /\ prog[n].arg # 0 => prog[prog[n].arg].kind # "stream"

\* What compiling it makes: regions whose numbers rise by one where one starts,
\* and the stream of each node, one for each context of a region but the
\* ambient, and none in a region with collectives.
CutBy(part, st) ==
  /\ part \in [1..Len(prog) -> Nat \ {0}]
  /\ 1 \in DOMAIN part => part[1] = 1
  /\ \A m, n \in 1..Len(prog) : m <= n => part[m] <= part[n]
  /\ \A n \in 1..Len(prog) :
       n + 1 \in 1..Len(prog) => part[n + 1] = IF Starts(n + 1) THEN part[n] + 1 ELSE part[n]
  /\ \A n \in 1..Len(prog) :
       /\ st[n] \in 0..Cardinality(User)
       /\ prog[n].s = Ambient \/ Collectives(NodesOf(part, part[n])) # {} => st[n] = 0
  /\ \A m, n \in 1..Len(prog) :
       part[m] = part[n] =>
         /\ st[m] = st[n] /\ st[n] # 0 => prog[m].s = prog[n].s
         /\ prog[m].s = prog[n].s => st[m] = st[n]
Cut == CutBy(region, stream)

\* The fields of a node.
LEMMA NodeFields ==
  ASSUME Program
  PROVE  /\ Len(prog) \in Nat
         /\ \A n \in 1..Len(prog) :
              /\ prog[n].kind \in {"op", "coll", "wait", "stream"}
              /\ prog[n].s \in User /\ n \in Nat /\ n \in 0..Length
              /\ prog[n].arg \in 0..Len(prog) /\ prog[n].arg < n
              /\ prog[n].kind = "stream" => prog[n].on \in User /\ prog[n].arg = 0
              /\ prog[n].kind = "op" => prog[n].flag \in Flags
<1>1. Len(prog) \in Nat /\ \A n \in 1..Len(prog) : prog[n] \in NodeSet
  BY DEF Program
<1>2. \A x \in NodeSet : /\ x.kind \in {"op", "coll", "wait", "stream"} /\ x.s \in User
                         /\ x.kind = "stream" => x.on \in User /\ x.arg = 0
                         /\ x.kind = "op" => x.flag \in Flags
  BY DEF NodeSet
<1>3. \A n \in 1..Len(prog) : prog[n].arg \in 0..(n - 1)
  BY DEF Program
<1>4. \A n \in 1..Len(prog) : n \in Nat /\ n \in 0..Length
  BY <1>1, GraphAssumption DEF Program
<1>5. \A n \in 1..Len(prog) : prog[n].arg \in 0..Len(prog) /\ prog[n].arg < n
  BY <1>1, <1>3
<1> QED BY <1>1, <1>2, <1>4, <1>5

\* f finds the sources of the first k nodes.
Finds(f, k) ==
  f = [n \in 0..k |-> IF n > 0 /\ prog[n].kind = "wait" THEN f[prog[n].arg] ELSE n]

\* Src finds the sources of all of them.
LEMMA SrcFinds ==
  ASSUME Program
  PROVE  Finds(Src, Len(prog))
<1> DEFINE Bad == {k \in 0..Len(prog) : ~\E f : Finds(f, k)}
<1>1. Len(prog) \in Nat
  BY NodeFields
<1>2. Bad = {}
  <2> SUFFICES ASSUME Bad # {} PROVE FALSE
    OBVIOUS
  <2>0. Bad \subseteq Nat
    BY <1>1
  <2>1. PICK k \in Bad : \A y \in Bad : k <= y
    BY <2>0, HasMin
  <2>2. k \in 0..Len(prog) /\ ~\E f : Finds(f, k)
    OBVIOUS
  <2>3. k # 0
    <3>1. Finds([n \in 0..0 |-> n], 0)
      BY DEF Finds
    <3> QED BY <2>2, <3>1
  <2>4. k - 1 \in 0..Len(prog) /\ ~(k <= k - 1) /\ k \in Nat
    BY <1>1, <2>2, <2>3
  <2>5. PICK f : Finds(f, k - 1)
    BY <2>1, <2>4
  <2> DEFINE g == [n \in 0..k |-> IF n < k THEN f[n]
                      ELSE IF n > 0 /\ prog[n].kind = "wait" THEN f[prog[n].arg] ELSE n]
  <2>6. Finds(g, k)
    <3>1. ASSUME NEW n \in 0..k
          PROVE  g[n] = IF n > 0 /\ prog[n].kind = "wait" THEN g[prog[n].arg] ELSE n
      <4>1. n > 0 => prog[n].arg \in 0..k /\ prog[n].arg < k
        <5>1. n > 0 => n \in 1..Len(prog)
          BY <1>1, <2>2
        <5>2. n > 0 => prog[n].arg \in Nat /\ prog[n].arg < n
          BY <5>1, NodeFields
        <5> QED BY <2>4, <5>2
      <4>2. n > 0 => g[prog[n].arg] = f[prog[n].arg]
        BY <4>1
      <4>3. CASE n < k
        <5>1. n \in 0..(k - 1)
          BY <2>4, <4>3
        <5>2. f[n] = IF n > 0 /\ prog[n].kind = "wait" THEN f[prog[n].arg] ELSE n
          BY <2>5, <5>1 DEF Finds
        <5> QED BY <4>2, <4>3, <5>2
      <4>4. CASE ~(n < k)
        BY <4>2, <4>4
      <4> QED BY <4>3, <4>4
    <3> QED BY <3>1 DEF Finds
  <2> HIDE DEF g
  <2> QED BY <2>2, <2>6
<1>3. Len(prog) \in 0..Len(prog)
  BY <1>1
<1>4. \E f : Finds(f, Len(prog))
  BY <1>2, <1>3
<1>5. Src = CHOOSE f : Finds(f, Len(prog))
  BY DEF Src, Finds
<1> QED BY <1>4, <1>5

\* The source of a node: itself, or what the wait waits for; never a wait.
LEMMA SrcFacts ==
  ASSUME Program
  PROVE  /\ Src[0] = 0
         /\ \A n \in 1..Len(prog) :
              /\ prog[n].kind # "wait" => Src[n] = n
              /\ prog[n].kind = "wait" => Src[n] = Src[prog[n].arg]
         /\ \A n \in 0..Len(prog) :
              /\ Src[n] \in 0..n
              /\ Src[n] # 0 => prog[Src[n]].kind # "wait"
              /\ Src[n] # 0 /\ prog[n].kind # "stream" => prog[Src[n]].kind # "stream"
<1>1. Len(prog) \in Nat
  BY NodeFields
<1>2. \A n \in 0..Len(prog) :
        Src[n] = IF n > 0 /\ prog[n].kind = "wait" THEN Src[prog[n].arg] ELSE n
  BY SrcFinds DEF Finds
<1>3. Src[0] = 0
  <2>1. 0 \in 0..Len(prog) /\ ~(0 > 0)
    BY <1>1
  <2> QED BY <1>2, <2>1
<1>4. ASSUME NEW n \in 1..Len(prog)
      PROVE  /\ prog[n].kind # "wait" => Src[n] = n
             /\ prog[n].kind = "wait" => Src[n] = Src[prog[n].arg]
  <2>1. n \in 0..Len(prog) /\ n > 0
    BY <1>1
  <2> QED BY <1>2, <2>1
<1> DEFINE Fine(n) == /\ Src[n] \in 0..n
                      /\ Src[n] # 0 => prog[Src[n]].kind # "wait"
                      /\ Src[n] # 0 /\ prog[n].kind # "stream" => prog[Src[n]].kind # "stream"
           Bad == {n \in 0..Len(prog) : ~Fine(n)}
<1>5. Bad = {}
  <2> SUFFICES ASSUME Bad # {} PROVE FALSE
    OBVIOUS
  <2>0. Bad \subseteq Nat
    BY <1>1
  <2>1. PICK n \in Bad : \A y \in Bad : n <= y
    BY <2>0, HasMin
  <2>2. n \in 0..Len(prog) /\ ~Fine(n)
    OBVIOUS
  <2> HIDE DEF Bad
  <2>3. n # 0
    BY <1>3, <2>2
  <2>4. n \in 1..Len(prog)
    BY <1>1, <2>2, <2>3
  <2>5. prog[n].kind = "wait"
    BY <1>4, <2>2, <2>4
  <2>6. prog[n].arg \in 0..Len(prog) /\ prog[n].arg < n /\ n \in Nat
    BY <2>4, NodeFields
  <2>7. Fine(prog[n].arg)
    <3>1. prog[n].arg \notin Bad
      BY <2>1, <2>6
    <3> QED BY <2>6, <3>1 DEF Bad
  <2>8. prog[n].arg # 0 => prog[prog[n].arg].kind # "stream"
    BY <2>4 DEF Program
  <2>9. Src[n] = Src[prog[n].arg]
    BY <1>4, <2>4, <2>5
  <2>10. CASE prog[n].arg = 0
    BY <1>3, <2>2, <2>6, <2>9, <2>10
  <2>11. CASE prog[n].arg # 0
    <3>1. Src[n] \in 0..n
      BY <2>6, <2>7, <2>9
    <3> QED BY <2>2, <2>7, <2>8, <2>9, <2>11, <3>1
  <2> QED BY <2>10, <2>11
<1>6. \A n \in 0..Len(prog) : Fine(n)
  BY <1>5
<1> QED BY <1>3, <1>4, <1>6

-----------------------------------------------------------------------------
(* The regions, and the streams their nodes run on.                        *)

\* The regions are numbered from one, along the program.
LEMMA PartitionFacts ==
  ASSUME Program
  PROVE  LET part == Partition IN
         /\ part \in [1..Len(prog) -> Nat \ {0}]
         /\ 1 \in DOMAIN part => part[1] = 1
         /\ \A m, n \in 1..Len(prog) : m <= n => part[m] <= part[n]
         /\ \A n \in 1..Len(prog) :
              n + 1 \in 1..Len(prog) =>
                part[n + 1] = IF Starts(n + 1) THEN part[n] + 1 ELSE part[n]
<1>1. Len(prog) \in Nat
  BY NodeFields
<1> DEFINE T(n) == {m \in 1..n : Starts(m)}
           part == Partition
<1>2. part = [n \in 1..Len(prog) |-> Cardinality(T(n))]
  BY DEF Partition
<1>3. \A n \in 1..Len(prog) : IsFiniteSet(T(n)) /\ Cardinality(T(n)) \in Nat
  <2>1. \A n \in 1..Len(prog) : IsFiniteSet(1..n)
    BY FS_Interval
  <2> QED BY <2>1, FS_Subset, FS_CardinalityType
<1>4. ASSUME NEW m \in 1..Len(prog), NEW n \in 1..Len(prog), m <= n
      PROVE  Cardinality(T(m)) <= Cardinality(T(n))
  <2>1. T(m) \subseteq T(n)
    BY <1>4
  <2> HIDE DEF T
  <2> QED BY <1>3, <2>1, FS_Subset
<1>5. ASSUME NEW n \in 1..Len(prog) PROVE Cardinality(T(n)) # 0
  <2>1. 1 \in T(n)
    BY DEF Starts
  <2> HIDE DEF T
  <2>2. T(n) # {}
    BY <2>1
  <2> QED BY <1>3, <2>2, FS_EmptySet
<1>6. 1 \in 1..Len(prog) => Cardinality(T(1)) = 1
  <2>1. T(1) = {1}
    BY DEF Starts
  <2> QED BY <2>1, FS_Singleton
<1>7. ASSUME NEW n \in 1..Len(prog), n + 1 \in 1..Len(prog)
      PROVE  Cardinality(T(n + 1)) = IF Starts(n + 1) THEN Cardinality(T(n)) + 1
                                     ELSE Cardinality(T(n))
  <2>1. CASE Starts(n + 1)
    <3>1. T(n + 1) = T(n) \cup {n + 1} /\ n + 1 \notin T(n)
      BY <1>1, <1>7, <2>1
    <3> HIDE DEF T
    <3>2. IsFiniteSet(T(n))
      BY <1>3
    <3> QED BY <2>1, <3>1, <3>2, FS_AddElement
  <2>2. CASE ~Starts(n + 1)
    <3>1. T(n + 1) = T(n)
      BY <1>1, <1>7, <2>2
    <3> QED BY <2>2, <3>1
  <2> QED BY <2>1, <2>2
<1> HIDE DEF T, part
<1>8. DOMAIN part = 1..Len(prog) /\ \A n \in 1..Len(prog) : part[n] = Cardinality(T(n))
  BY <1>2
<1>9. part \in [1..Len(prog) -> Nat \ {0}]
  BY <1>2, <1>3, <1>5
<1>10. \A m, n \in 1..Len(prog) : m <= n => part[m] <= part[n]
  BY <1>4, <1>8
<1>11. \A n \in 1..Len(prog) :
         n + 1 \in 1..Len(prog) =>
           part[n + 1] = IF Starts(n + 1) THEN part[n] + 1 ELSE part[n]
  BY <1>7, <1>8
<1> QED BY <1>6, <1>8, <1>9, <1>10, <1>11 DEF part

\* Regions are numbers that never fall along the program; theirs are its nodes.
LEMMA RegionFacts ==
  ASSUME Program, Cut
  PROVE  /\ \A n \in 1..Len(prog) : region[n] \in Nat /\ region[n] > 0
         /\ \A m, n \in 1..Len(prog) : m <= n => region[m] <= region[n]
         /\ \A r : Nodes(r) = {n \in 1..Len(prog) : region[n] = r}
         /\ \A r : Nodes(r) \in SUBSET (1..Len(prog))
<1>1. region \in [1..Len(prog) -> Nat \ {0}]
  BY DEF Cut, CutBy
<1>2. \A r : Nodes(r) = {n \in 1..Len(prog) : region[n] = r}
  BY <1>1 DEF Nodes, NodesOf
<1> QED BY <1>1, <1>2 DEF Cut, CutBy

\* The torch streams are finitely many.
LEMMA UserFinite == IsFiniteSet(User) /\ Cardinality(User) \in Nat
<1>1. IsFiniteSet({Ambient}) /\ IsFiniteSet(Side)
  BY FS_Singleton, GraphAssumption
<1>2. IsFiniteSet(User)
  BY <1>1, FS_Union DEF User
<1> QED BY <1>2, FS_CardinalityType

\* The lists of distinct contexts.
Lists == {c \in Seq(User) : IsFiniteSet(ToSet(c)) /\ Cardinality(ToSet(c)) = Len(c)}

\* A context is added to them once.
LEMMA ContextAdds ==
  ASSUME NEW c \in Lists, NEW x \in User
  PROVE  /\ (IF x \in ToSet(c) THEN c ELSE Append(c, x)) \in Lists
         /\ ToSet(IF x \in ToSet(c) THEN c ELSE Append(c, x)) = ToSet(c) \cup {x}
<1>1. CASE x \in ToSet(c)
  BY <1>1
<1>2. CASE x \notin ToSet(c)
  <2>1. c \in Seq(User) /\ Len(c) \in Nat /\ DOMAIN c = 1..Len(c)
    BY DEF Lists
  <2> DEFINE d == Append(c, x)
  <2>2. d \in Seq(User) /\ Len(d) = Len(c) + 1
    BY <2>1
  <2>3. \A i \in 1..Len(c) : d[i] = c[i]
    BY <2>1
  <2>4. d[Len(c) + 1] = x
    BY <2>1
  <2>5. DOMAIN d = 1..(Len(c) + 1)
    BY <2>1
  <2> HIDE DEF d
  <2>6. ToSet(d) = ToSet(c) \cup {x}
    <3>1. \A i \in 1..(Len(c) + 1) : i \in 1..Len(c) \/ i = Len(c) + 1
      BY <2>1
    <3>2. \A i \in 1..Len(c) : i \in 1..(Len(c) + 1)
      BY <2>1
    <3>3. Len(c) + 1 \in 1..(Len(c) + 1)
      BY <2>1
    <3> QED BY <2>1, <2>3, <2>4, <2>5, <3>1, <3>2, <3>3 DEF ToSet
  <2>7. IsFiniteSet(ToSet(c) \cup {x}) /\ Cardinality(ToSet(c) \cup {x}) = Cardinality(ToSet(c)) + 1
    BY <1>2, FS_AddElement DEF Lists
  <2>8. d \in Lists
    BY <2>2, <2>6, <2>7 DEF Lists
  <2> QED BY <1>2, <2>6, <2>8 DEF d
<1> QED BY <1>1, <1>2

\* The contexts of some nodes: theirs, each once.
LEMMA ContextFacts ==
  ASSUME Program, NEW S \in SUBSET (1..Len(prog))
  PROVE  /\ ContextsOf(S) \in Seq(User)
         /\ ToSet(ContextsOf(S)) = {prog[n].s : n \in S}
         /\ Len(ContextsOf(S)) <= Cardinality(User)
<1>1. Len(prog) \in Nat /\ \A n \in 1..Len(prog) : prog[n].s \in User
  BY NodeFields
<1>2. <<>> \in Lists /\ ToSet(<<>>) = {}
  <2>1. ToSet(<<>>) = {}
    BY DEF ToSet
  <2> QED BY <2>1, FS_EmptySet DEF Lists
<1>3. \A c \in Lists, m \in S : WithContext(c, m) \in Lists
  BY <1>1, ContextAdds DEF WithContext
<1>4. PICK it : ContextTook(it, S, Lists)
  <2>1. ContextStays(S, Lists)
    BY <1>1, <1>2, <1>3 DEF ContextStays
  <2> HIDE DEF Lists
  <2> QED BY <2>1, ContextTurns
<1> DEFINE W == {s \in SUBSET S : ToSet(it[s]) = {prog[n].s : n \in s}}
<1>5. {} \in W
  BY <1>2, <1>4 DEF ContextTook
<1>6. ASSUME NEW s \in SUBSET S, s # {}, s \ {Max(s)} \in W PROVE s \in W
  <2>1. Max(s) \in s
    BY <1>1, <1>6, HasMax
  <2>2. it[s \ {Max(s)}] \in Lists /\ prog[Max(s)].s \in User
    BY <1>1, <1>4, <2>1 DEF ContextTook
  <2>3. ToSet(it[s]) = ToSet(it[s \ {Max(s)}]) \cup {prog[Max(s)].s}
    BY <1>4, <1>6, <2>2, ContextAdds DEF WithContext, ContextTook
  <2>4. ToSet(it[s \ {Max(s)}]) = {prog[n].s : n \in s \ {Max(s)}}
    BY <1>6
  <2> QED BY <2>1, <2>3, <2>4
<1> HIDE DEF W
<1>7. S \in W
  BY <1>1, <1>5, <1>6, Climbs
<1>8. ToSet(ContextsOf(S)) = {prog[n].s : n \in S}
  BY <1>4, <1>7 DEF W, ContextTook
<1>9. ContextsOf(S) \in Lists
  BY <1>4 DEF ContextTook
<1>10. ToSet(ContextsOf(S)) \subseteq User
  BY <1>1, <1>8
<1>11. Cardinality(ToSet(ContextsOf(S))) <= Cardinality(User)
  BY <1>10, UserFinite, FS_Subset
<1> QED BY <1>8, <1>9, <1>11 DEF Lists

\* A program is compiled into such regions and streams.
LEMMA Compiled ==
  ASSUME Program
  PROVE  CutBy(Partition, [n \in 1..Len(prog) |-> StreamOf(Partition, n)])
<1> DEFINE part == Partition
           st == [n \in 1..Len(prog) |-> StreamOf(part, n)]
           S(r) == NodesOf(part, r)
           c(r) == ContextsOf(S(r))
           PosOf(r, x) == CHOOSE i \in 1..Len(c(r)) : c(r)[i] = x
<1>1. part \in [1..Len(prog) -> Nat \ {0}]
  BY PartitionFacts
<1>2. \A r : S(r) \in SUBSET (1..Len(prog))
  BY <1>1 DEF NodesOf
<1>3. \A n \in 1..Len(prog) : n \in S(part[n])
  BY <1>1 DEF NodesOf
<1> HIDE DEF S, part
<1>4. \A r : /\ c(r) \in Seq(User) /\ ToSet(c(r)) = {prog[m].s : m \in S(r)}
             /\ Len(c(r)) <= Cardinality(User)
  BY <1>2, ContextFacts
<1>5. \A n \in 1..Len(prog) :
        st[n] = IF prog[n].s = Ambient \/ Collectives(S(part[n])) # {} THEN 0
                ELSE PosOf(part[n], prog[n].s)
  BY DEF StreamOf, S
<1> HIDE DEF c, st
<1>6. \A n \in 1..Len(prog) : \E i \in 1..Len(c(part[n])) : c(part[n])[i] = prog[n].s
  <2>1. \A n \in 1..Len(prog) : prog[n].s \in ToSet(c(part[n]))
    BY <1>3, <1>4
  <2> QED BY <1>4, <2>1 DEF ToSet
<1>0. \A r, x : (\E i \in 1..Len(c(r)) : c(r)[i] = x) =>
                   PosOf(r, x) \in 1..Len(c(r)) /\ c(r)[PosOf(r, x)] = x
  OBVIOUS
<1> HIDE DEF PosOf
<1>7. \A n \in 1..Len(prog) :
        st[n] # 0 => st[n] \in 1..Len(c(part[n])) /\ c(part[n])[st[n]] = prog[n].s
  BY <1>0, <1>5, <1>6
<1>8. \A n \in 1..Len(prog) : st[n] \in 0..Cardinality(User)
  <2>1. Cardinality(User) \in Nat /\ \A r : Len(c(r)) \in Nat
    BY <1>4, UserFinite
  <2>2. ASSUME NEW n \in 1..Len(prog) PROVE st[n] \in 0..Cardinality(User)
    <3>1. CASE st[n] = 0
      BY <2>1, <3>1
    <3>2. CASE st[n] # 0
      BY <1>4, <1>7, <2>1, <3>2
    <3> QED BY <3>1, <3>2
  <2> QED BY <2>2
<1>9. \A n \in 1..Len(prog) :
        prog[n].s = Ambient \/ Collectives(S(part[n])) # {} => st[n] = 0
  BY <1>5
<1>10. ASSUME NEW m \in 1..Len(prog), NEW n \in 1..Len(prog), part[m] = part[n]
       PROVE  /\ st[m] = st[n] /\ st[n] # 0 => prog[m].s = prog[n].s
              /\ prog[m].s = prog[n].s => st[m] = st[n]
  <2>1. st[m] = st[n] /\ st[n] # 0 => prog[m].s = prog[n].s
    BY <1>7, <1>10
  <2>2. prog[m].s = prog[n].s => st[m] = st[n]
    BY <1>5, <1>10
  <2> QED BY <2>1, <2>2
<1>11. /\ 1 \in DOMAIN part => part[1] = 1
       /\ \A m, n \in 1..Len(prog) : m <= n => part[m] <= part[n]
       /\ \A n \in 1..Len(prog) :
            n + 1 \in 1..Len(prog) => part[n + 1] = IF Starts(n + 1) THEN part[n] + 1 ELSE part[n]
  BY PartitionFacts DEF part
<1>12. CutBy(part, st)
  BY <1>1, <1>8, <1>9, <1>10, <1>11 DEF CutBy, S
<1> QED BY <1>12 DEF part, st

\* The place of a node: MAX's main stream or a view of its region's pool; the
\* main stream in a region that has collectives, and when its stream is 0.
LEMMA PlaceFacts ==
  ASSUME Program, Cut, NEW n \in 1..Len(prog)
  PROVE  /\ stream[n] \in 0..Cardinality(User)
         /\ Collectives(Nodes(region[n])) # {} => stream[n] = 0
         /\ prog[n].s = Ambient => stream[n] = 0
         /\ stream[n] = 0 => Place(n) = MaxMain
         /\ stream[n] # 0 => Place(n) = View(stream[n])
         /\ Place(n) \in Places \ (User \cup {Comm})
<1>1. /\ stream[n] \in 0..Cardinality(User)
      /\ Collectives(Nodes(region[n])) # {} => stream[n] = 0
      /\ prog[n].s = Ambient => stream[n] = 0
  BY DEF Cut, CutBy, Nodes
<1>2. stream[n] = 0 => Place(n) = MaxMain
  BY DEF Place
<1>3. stream[n] # 0 => Place(n) = View(stream[n]) /\ stream[n] \in Views
  BY <1>1, UserFinite DEF Place, Views
<1>4. Place(n) \in Places \ (User \cup {Comm})
  BY <1>2, <1>3, PlaceNames
<1> QED BY <1>1, <1>2, <1>3, <1>4

\* A region's pool holds the places of its nodes, all views.
LEMMA PoolFacts ==
  ASSUME Program, Cut, NEW r, Nodes(r) # {}
  PROVE  /\ Pool(r) \in SUBSET {View(k) : k \in Views}
         /\ Pool(r) \subseteq Places \ (User \cup {MaxMain, Comm})
         /\ \A n \in Nodes(r) : Place(n) \in Pool(r) \cup {MaxMain}
<1> DEFINE T == {stream[n] : n \in Nodes(r)}
           N == Cardinality(User)
<1>1. N \in Nat /\ Nodes(r) \in SUBSET (1..Len(prog)) /\ \A n \in Nodes(r) : stream[n] \in 0..N
  BY PlaceFacts, RegionFacts, UserFinite
<1>2. Max(T) \in 0..N /\ \A n \in Nodes(r) : stream[n] <= Max(T)
  <2>1. T \in SUBSET (0..N) /\ T # {}
    BY <1>1
  <2>8. Max(T) \in T /\ \A y \in T : Max(T) >= y
    BY <1>1, <2>1, HasMaxFromZero
  <2>9. \A n \in Nodes(r) : stream[n] \in T
    OBVIOUS
  <2>10. Max(T) \in 0..N
    BY <1>1, <2>8
  <2> QED BY <1>1, <2>8, <2>9, <2>10
<1>3. Pool(r) = {View(k) : k \in 1..Max(T)}
  BY DEF Pool
<1> HIDE DEF T
<1>4. 1..Max(T) \subseteq Views
  BY <1>1, <1>2 DEF Views
<1>5. Pool(r) \in SUBSET {View(k) : k \in Views}
  BY <1>3, <1>4
<1>6. Pool(r) \subseteq Places \ (User \cup {MaxMain, Comm})
  BY <1>5, PlaceNames
<1>7. ASSUME NEW n \in Nodes(r) PROVE Place(n) \in Pool(r) \cup {MaxMain}
  <2>1. stream[n] # 0 => stream[n] \in 1..Max(T)
    BY <1>1, <1>2
  <2>2. stream[n] # 0 => View(stream[n]) \in Pool(r)
    BY <1>3, <2>1
  <2>3. (stream[n] = 0 => Place(n) = MaxMain) /\ (stream[n] # 0 => Place(n) = View(stream[n]))
    BY DEF Place
  <2> QED BY <2>2, <2>3
<1> QED BY <1>5, <1>6, <1>7

\* The streams a region runs between: torch's, the current one among them.
LEMMA ActiveFacts ==
  ASSUME Program, Cut, NEW r
  PROVE  /\ Current(r) \in Active(r) /\ Active(r) \subseteq User
         /\ \A n \in Nodes(r) : prog[n].s \in Active(r)
<1>1. Nodes(r) \in SUBSET (1..Len(prog))
  BY RegionFacts
<1>2. /\ Contexts(r) \in Seq(User)
      /\ ToSet(Contexts(r)) = {prog[n].s : n \in Nodes(r)}
  BY <1>1, ContextFacts DEF Contexts
<1>3. ToSet(Contexts(r)) \subseteq User
  BY <1>1, <1>2, NodeFields
<1>4. Current(r) \in User
  <2>1. CASE Len(Contexts(r)) = 1
    <3>1. Contexts(r)[1] \in User
      BY <1>2, <2>1
    <3> QED BY <2>1, <3>1 DEF Current
  <2>2. CASE Len(Contexts(r)) # 1
    BY <2>2, PlaceNames DEF Current
  <2> QED BY <2>1, <2>2
<1> QED BY <1>2, <1>3, <1>4 DEF Active

-----------------------------------------------------------------------------
(* The order the program asks for, node by node.                           *)

\* What the streams hold once some of the nodes have run eagerly.
EagerSteps == CHOOSE it : EagerTook(it, 1..Len(prog), Runs, NoStreams)

\* The item of a node that runs eagerly.
NodeItem(n) == <<IF prog[n].kind = "coll" THEN "comm" ELSE "op", n>>

\* A node that runs eagerly: what it orders, and what comes before it.
LEMMA EagerNodeFields ==
  ASSUME Program, NEW R \in Runs, NEW n \in 1..Len(prog)
  PROVE  LET Q == EagerNode(R, n)
             s == prog[n].s
             c == Src[n]
         IN
         /\ Q \in Runs
         /\ \A t \in User : t # s => Q.tail[t] = R.tail[t]
         /\ prog[n].kind = "op" => Q.tail[s] = R.tail[s] \cup {<<"op", n>>}
         /\ prog[n].kind = "coll" => Q.tail[s] = R.tail[s]
         /\ prog[n].kind = "stream" => Q.tail[s] = R.tail[s] \cup R.tail[prog[n].on]
         /\ prog[n].kind = "wait" =>
              \/ Q.tail[s] = R.tail[s]
              \/ /\ c = 0 \/ (c \in 1..Len(prog) /\ prog[c].kind = "coll" /\ region[c] = region[n])
                 /\ Q.tail[s] = R.tail[s] \cup {<<"comm", c>>} \cup R.past[<<"comm", c>>]
         /\ prog[n].kind \in {"op", "coll"} => Q.past[NodeItem(n)] = R.tail[s]
         /\ \A y \in Items : y # NodeItem(n) => Q.past[y] = R.past[y]
<1> DEFINE Q == EagerNode(R, n)
           s == prog[n].s
           c == Src[n]
<1>1. s \in User /\ s \in Places /\ User \subseteq Places /\ prog[n].kind \in {"op", "coll", "wait", "stream"}
  BY NodeFields, PlaceNames
<1>2. PICK x \in Items : x = NodeItem(n)
  BY NodeFields, ItemTypes DEF NodeItem
<1>3. c \in 0..Len(prog) /\ c \in 0..Length
  <2>1. c \in 0..n /\ n \in 1..Len(prog) /\ n \in 0..Length /\ Len(prog) \in Nat
    BY SrcFacts, NodeFields
  <2> QED BY <2>1, GraphAssumption
<1>4. CASE prog[n].kind = "op"
  <2>1. Q = Enqueue(R, s, x)
    BY <1>2, <1>4 DEF EagerNode, NodeItem
  <2> HIDE DEF Q, s
  <2>2. x = <<"op", n>>
    BY <1>2, <1>4 DEF NodeItem
  <2> QED BY <1>1, <1>2, <1>4, <2>1, <2>2, EnqueueFields DEF Q, s
<1>5. CASE prog[n].kind = "coll"
  <2> DEFINE b == [R.past EXCEPT ![x] = R.tail[s]]
  <2>1. Q = [R EXCEPT !.past = b]
    BY <1>2, <1>5 DEF EagerNode, NodeItem, Runs
  <2>2. R.past \in [Items -> SUBSET Items] /\ R.tail[s] \in SUBSET Items
    BY <1>1 DEF Runs
  <2>3. b \in [Items -> SUBSET Items] /\ b[x] = R.tail[s] /\ \A y \in Items : y # x => b[y] = R.past[y]
    BY <2>2
  <2> HIDE DEF Q, s, b
  <2>4. Q \in Runs /\ Q.tail = R.tail /\ Q.past = b
    BY <2>1, <2>3 DEF Runs
  <2> QED BY <1>2, <1>5, <2>3, <2>4 DEF Q, s
<1>6. CASE prog[n].kind = "stream"
  <2>1. Q = Order(R, s, prog[n].on) /\ prog[n].on \in Places
    BY <1>1, <1>6, NodeFields DEF EagerNode
  <2> HIDE DEF Q, s
  <2>2. /\ Q \in Runs /\ Q.tail[s] = R.tail[s] \cup R.tail[prog[n].on] /\ Q.past = R.past
        /\ \A t \in Places : t # s => Q.tail[t] = R.tail[t]
    <3> DEFINE o == prog[n].on
               O == Order(R, s, o)
    <3>1. s \in Places /\ o \in Places
      BY <1>1, <2>1
    <3> HIDE DEF o, O
    <3>2. /\ O \in Runs /\ O.tail[s] = R.tail[s] \cup R.tail[o] /\ O.past = R.past
          /\ \A t \in Places : t # s => O.tail[t] = R.tail[t]
      BY <3>1, OrderFields DEF Aside, O
    <3> QED BY <2>1, <3>2 DEF o, O
  <2> QED BY <1>1, <1>6, <2>2 DEF Q, s
<1>7. CASE prog[n].kind = "wait"
  <2>1. CASE c = 0 \/ (prog[c].kind = "coll" /\ region[c] = region[n])
    <3>1. Q = Await(R, s, <<"comm", c>>)
      BY <1>7, <2>1 DEF EagerNode
    <3>2. PICK y \in Items : y = <<"comm", c>>
      BY <1>3, ItemTypes
    <3>3. Q = Await(R, s, y)
      BY <3>1, <3>2
    <3>4. c = 0 \/ (c \in 1..Len(prog) /\ prog[c].kind = "coll" /\ region[c] = region[n])
      BY <1>3, <2>1, NodeFields
    <3> HIDE DEF Q, s, c
    <3>5. /\ Q \in Runs /\ Q.tail[s] = R.tail[s] \cup {y} \cup R.past[y] /\ Q.past = R.past
          /\ \A t \in Places : t # s => Q.tail[t] = R.tail[t]
      BY <1>1, <3>3, AwaitFields DEF Aside
    <3> QED BY <1>1, <1>7, <3>2, <3>4, <3>5 DEF Q, s, c
  <2>2. CASE ~(c = 0 \/ (prog[c].kind = "coll" /\ region[c] = region[n]))
    <3>1. Q = R
      BY <1>7, <2>2 DEF EagerNode
    <3> QED BY <1>7, <3>1
  <2> QED BY <2>1, <2>2
<1> QED BY <1>1, <1>4, <1>5, <1>6, <1>7

\* The eager program, step by step.
LEMMA EagerStepFacts ==
  ASSUME Program
  PROVE  /\ EagerSteps \in [SUBSET (1..Len(prog)) -> Runs]
         /\ EagerSteps[{}] = NoStreams /\ Eager = EagerSteps[1..Len(prog)]
         /\ \A s \in SUBSET (1..Len(prog)) : s # {} =>
              /\ Max(s) \in s /\ \A y \in s : Max(s) >= y
              /\ EagerSteps[s] = EagerNode(EagerSteps[s \ {Max(s)}], Max(s))
<1>1. Len(prog) \in Nat
  BY NodeFields
<1>2. \A R \in Runs, m \in 1..Len(prog) : EagerNode(R, m) \in Runs
  BY EagerNodeFields
<1>3. EagerStays(1..Len(prog), Runs, NoStreams)
  BY <1>1, <1>2, NoStreamsType DEF EagerStays
<1>4. EagerTook(EagerSteps, 1..Len(prog), Runs, NoStreams)
  BY <1>3, EagerTurns DEF EagerSteps
<1>5. Eager = EagerAll(NoStreams, 1..Len(prog))
  BY DEF Eager, EagerAll
<1>6. \A s \in SUBSET (1..Len(prog)) : s # {} => Max(s) \in s /\ \A y \in s : Max(s) >= y
  BY <1>1, HasMax
<1> QED BY <1>4, <1>5, <1>6 DEF EagerTook

\* Eagerly only the nodes that ran are on the streams, or came before others.
LEMMA EagerOnly ==
  ASSUME Program, NEW s \in SUBSET (1..Len(prog)), NEW m \in 1..Len(prog)
  PROVE  LET R == EagerSteps[s] IN
         /\ \A t \in User : <<"op", m>> \in R.tail[t] => m \in s
         /\ \A y \in Items : <<"op", m>> \in R.past[y] => m \in s
         /\ \A c \in 0..Len(prog) : c \notin s => R.past[<<"comm", c>>] = {}
<1> DEFINE Good(u) == LET R == EagerSteps[u] IN
         /\ \A t \in User : <<"op", m>> \in R.tail[t] => m \in u
         /\ \A y \in Items : <<"op", m>> \in R.past[y] => m \in u
         /\ \A c \in 0..Len(prog) : c \notin u => R.past[<<"comm", c>>] = {}
           W == {u \in SUBSET (1..Len(prog)) : Good(u)}
<1>1. Len(prog) \in Nat /\ \A c \in 0..Len(prog) : <<"comm", c>> \in Items
  <2>1. Len(prog) \in Nat /\ Len(prog) <= Length
    BY NodeFields DEF Program
  <2>2. \A c \in 0..Len(prog) : c \in 0..Length
    BY <2>1, GraphAssumption
  <2> QED BY <2>1, <2>2, ItemTypes
<1>2. {} \in W
  <2>1. \A y \in Items : NoStreams.past[y] = {}
    BY NoStreamsType
  <2>2. \A t \in User : NoStreams.tail[t] = {}
    BY NoStreamsType, PlaceNames
  <2> QED BY <1>1, <2>1, <2>2, EagerStepFacts
<1>3. ASSUME NEW u \in SUBSET (1..Len(prog)), u # {}, u \ {Max(u)} \in W PROVE u \in W
  <2> DEFINE n == Max(u)
             v == u \ {n}
             R == EagerSteps[v]
             Q == EagerSteps[u]
  <2>1. n \in u /\ n \in 1..Len(prog) /\ Q = EagerNode(R, n) /\ R \in Runs
    BY <1>3, EagerStepFacts
  <2>2. Good(v) /\ v \subseteq u
    BY <1>3
  <2> HIDE DEF R, Q, v, n
  <2>3. /\ \A t \in User : <<"op", m>> \in R.tail[t] => m \in u
        /\ \A y \in Items : <<"op", m>> \in R.past[y] => m \in u
        /\ \A c \in 0..Len(prog) : c \notin u => R.past[<<"comm", c>>] = {}
    BY <2>2 DEF R
  <2>4. prog[n].s \in User /\ prog[n].kind \in {"op", "coll", "wait", "stream"}
        /\ (prog[n].kind = "stream" => prog[n].on \in User) /\ Src[n] \in 0..Len(prog)
    <3>1. Src[n] \in 0..n
      BY <2>1, SrcFacts
    <3> QED BY <1>1, <2>1, <3>1, NodeFields
  <2>5. /\ \A t \in User : t # prog[n].s => Q.tail[t] = R.tail[t]
        /\ prog[n].kind = "op" => Q.tail[prog[n].s] = R.tail[prog[n].s] \cup {<<"op", n>>}
        /\ prog[n].kind = "coll" => Q.tail[prog[n].s] = R.tail[prog[n].s]
        /\ prog[n].kind = "stream" => Q.tail[prog[n].s] = R.tail[prog[n].s] \cup R.tail[prog[n].on]
        /\ prog[n].kind = "wait" =>
              \/ Q.tail[prog[n].s] = R.tail[prog[n].s]
              \/ Q.tail[prog[n].s] = R.tail[prog[n].s] \cup {<<"comm", Src[n]>>} \cup R.past[<<"comm", Src[n]>>]
        /\ prog[n].kind \in {"op", "coll"} => Q.past[NodeItem(n)] = R.tail[prog[n].s]
        /\ \A y \in Items : y # NodeItem(n) => Q.past[y] = R.past[y]
    BY <2>1, EagerNodeFields
  <2>6. ASSUME NEW t \in User, <<"op", m>> \in Q.tail[t] PROVE m \in u
    <3>1. CASE t # prog[n].s
      BY <2>3, <2>5, <2>6, <3>1
    <3>2. CASE t = prog[n].s
      <4>1. <<"comm", Src[n]>> \in Items
        BY <1>1, <2>4
      <4>2. CASE prog[n].kind = "op"
        BY <2>1, <2>3, <2>4, <2>5, <2>6, <3>2, <4>2
      <4>3. CASE prog[n].kind = "coll"
        BY <2>1, <2>3, <2>4, <2>5, <2>6, <3>2, <4>3
      <4>4. CASE prog[n].kind = "stream"
        BY <2>1, <2>3, <2>4, <2>5, <2>6, <3>2, <4>4
      <4>5. CASE prog[n].kind = "wait"
        BY <2>1, <2>3, <2>4, <2>5, <2>6, <3>2, <4>1, <4>5
      <4> QED BY <2>4, <4>2, <4>3, <4>4, <4>5
    <3> QED BY <3>1, <3>2
  <2>7. prog[n].kind \notin {"op", "coll"} \/ Q.past[NodeItem(n)] = R.tail[prog[n].s]
    BY <2>5
  <2>8. Q.past = R.past \/ (prog[n].kind \in {"op", "coll"})
    <3>1. prog[n].kind \in {"wait", "stream"} => Q.past = R.past
      <4>1. CASE prog[n].kind = "stream"
        <5>1. prog[n].s \in Places /\ prog[n].on \in Places
          BY <2>4, <4>1, PlaceNames
        <5>2. Order(R, prog[n].s, prog[n].on).past = R.past
          BY <2>1, <5>1, OrderFields DEF Aside
        <5> QED BY <2>1, <4>1, <5>2 DEF EagerNode
      <4>2. CASE prog[n].kind = "wait"
        <5>1. Await(R, prog[n].s, <<"comm", Src[n]>>).past = R.past
          BY <1>1, <2>1, <2>4, AwaitFields, PlaceNames DEF Aside
        <5> QED BY <2>1, <4>2, <5>1 DEF EagerNode
      <4> QED BY <4>1, <4>2
    <3> QED BY <2>4, <3>1
  <2>9. ASSUME NEW y \in Items, <<"op", m>> \in Q.past[y] PROVE m \in u
    BY <2>3, <2>4, <2>5, <2>8, <2>9
  <2>10. ASSUME NEW c \in 0..Len(prog), c \notin u PROVE Q.past[<<"comm", c>>] = {}
    <3>1. <<"comm", c>> # NodeItem(n) /\ <<"comm", c>> \in Items
      BY <1>1, <2>1, <2>10 DEF NodeItem
    <3> QED BY <2>3, <2>5, <2>10, <3>1
  <2>11. Good(u)
    BY <2>6, <2>9, <2>10 DEF Q
  <2> QED BY <2>11
<1> HIDE DEF W
<1>4. 1..Len(prog) \in SUBSET (1..Len(prog)) /\ \A u \in SUBSET (1..Len(prog)) : u \in W
  <2>1. 1..Len(prog) \in SUBSET (1..Len(prog))
    OBVIOUS
  <2>2. \A u \in SUBSET (1..Len(prog)) : u # {} /\ u \ {Max(u)} \in W => u \in W
    BY <1>3
  <2> QED BY <1>1, <1>2, <2>1, <2>2, Climbs
<1>5. s \in W
  BY <1>4
<1> QED BY <1>5 DEF W

\* What comes before a node eagerly is what its stream held when it ran.
LEMMA EagerPast ==
  ASSUME Program, NEW n \in 1..Len(prog), prog[n].kind \in {"op", "coll"}
  PROVE  Eager.past[NodeItem(n)] = EagerSteps[{m \in 1..Len(prog) : m < n}].tail[prog[n].s]
<1> DEFINE Good(u) == n \in u =>
             EagerSteps[u].past[NodeItem(n)] = EagerSteps[{m \in u : m < n}].tail[prog[n].s]
           W == {u \in SUBSET (1..Len(prog)) : Good(u)}
<1>1. Len(prog) \in Nat
  BY NodeFields
<1>2. {} \in W
  OBVIOUS
<1>3. ASSUME NEW u \in SUBSET (1..Len(prog)), u # {}, u \ {Max(u)} \in W PROVE u \in W
  <2> SUFFICES ASSUME n \in u
               PROVE  EagerSteps[u].past[NodeItem(n)] = EagerSteps[{m \in u : m < n}].tail[prog[n].s]
    OBVIOUS
  <2> DEFINE k == Max(u)
             R == EagerSteps[u \ {k}]
             Q == EagerSteps[u]
  <2>1. k \in u /\ (\A y \in u : k >= y) /\ Q = EagerNode(R, k) /\ R \in Runs /\ k \in 1..Len(prog)
    BY <1>3, EagerStepFacts
  <2>2. NodeItem(n) \in Items
    BY NodeFields, ItemTypes DEF NodeItem
  <2>3. CASE n = k
    <3>1. {m \in u : m < n} = u \ {k}
      <4>1. \A y \in u : y \in Nat
        BY <1>1
      <4> HIDE DEF k
      <4>2. k \in u /\ k \in Nat /\ \A y \in u : k >= y
        BY <2>1, <4>1
      <4>3. \A y \in u : y < k <=> y # k
        BY <4>1, <4>2
      <4> QED BY <2>3, <4>3
    <3>2. EagerNode(R, k).past[NodeItem(k)] = R.tail[prog[k].s]
      <4> HIDE DEF k, R
      <4> QED BY <2>1, <2>3, EagerNodeFields
    <3> QED BY <2>1, <2>3, <3>1, <3>2
  <2>4. CASE n # k
    <3>1. {m \in u : m < n} = {m \in u \ {k} : m < n}
      BY <1>1, <2>1, <2>4
    <3>2. R.past[NodeItem(n)] = EagerSteps[{m \in u \ {k} : m < n}].tail[prog[n].s]
      BY <1>3, <2>4
    <3> HIDE DEF k, R, Q
    <3>3. NodeItem(n) # NodeItem(k)
      BY <2>4 DEF NodeItem
    <3>4. EagerNode(R, k).past[NodeItem(n)] = R.past[NodeItem(n)]
      BY <2>1, <2>2, <3>3, EagerNodeFields
    <3> QED BY <2>1, <3>1, <3>2, <3>4 DEF Q
  <2> QED BY <2>3, <2>4
<1> HIDE DEF W
<1>4. \A u \in SUBSET (1..Len(prog)) : u \in W
  <2>1. 1..Len(prog) \in SUBSET (1..Len(prog))
    OBVIOUS
  <2>2. \A u \in SUBSET (1..Len(prog)) : u # {} /\ u \ {Max(u)} \in W => u \in W
    BY <1>3
  <2> QED BY <1>1, <1>2, <2>1, <2>2, Climbs
<1>5. 1..Len(prog) \in W
  BY <1>4
<1> QED BY <1>5, EagerStepFacts DEF W

\* The nodes before a region, and the eager streams before it runs.
Before(r) == {n \in 1..Len(prog) : region[n] < r}
EagerBefore(r) == EagerSteps[Before(r)]

\* A region that is a graph: no stream operation is in it.
IsGraph(r) == Nodes(r) # {} /\ \A n \in Nodes(r) : prog[n].kind # "stream"

\* The operations of earlier regions that come before region r.
Came(r) == {m \in Before(r) : \E t \in Active(r) : <<"op", m>> \in EagerBefore(r).tail[t]}

\* Eagerly, what a region's nodes come after came before its contexts.
LEMMA EagerFlows ==
  ASSUME Program, Cut, NEW r, IsGraph(r), NEW s \in SUBSET Nodes(r)
  PROVE  LET R == EagerSteps[Before(r) \cup s] IN
         /\ \A t \in User \ Active(r) : R.tail[t] = EagerBefore(r).tail[t]
         /\ \A t \in Active(r), m \in Before(r) : <<"op", m>> \in R.tail[t] => m \in Came(r)
         /\ \A c \in Nodes(r), m \in Before(r) : <<"op", m>> \in R.past[<<"comm", c>>] => m \in Came(r)
<1> DEFINE A == Before(r)
           S == Nodes(r)
           Good(u) == LET R == EagerSteps[A \cup u] IN
             /\ \A t \in User \ Active(r) : R.tail[t] = EagerBefore(r).tail[t]
             /\ \A t \in Active(r), m \in A : <<"op", m>> \in R.tail[t] => m \in Came(r)
             /\ \A c \in S, m \in A : <<"op", m>> \in R.past[<<"comm", c>>] => m \in Came(r)
           W == {u \in SUBSET S : Good(u)}
<1>1. /\ Len(prog) \in Nat /\ S \in SUBSET (1..Len(prog)) /\ A \in SUBSET (1..Len(prog))
      /\ S = {n \in 1..Len(prog) : region[n] = r}
  BY NodeFields, RegionFacts DEF Before
<1>2. r \in Nat
  BY <1>1, RegionFacts DEF IsGraph
<1>3. \A a \in A, b \in S : a < b
  <2>1. ASSUME NEW a \in A, NEW b \in S, ~(a < b) PROVE FALSE
    <3>1. a \in 1..Len(prog) /\ b \in 1..Len(prog) /\ b <= a
      BY <1>1, <2>1
    <3>2. region[b] <= region[a] /\ region[a] \in Nat /\ region[b] = r /\ region[a] < r
      BY <1>1, <3>1, RegionFacts DEF Before
    <3> QED BY <1>2, <3>2
  <2> QED BY <2>1
<1>4. {} \in W
  <2>1. A \cup {} = A
    OBVIOUS
  <2>2. \A t \in Active(r), m \in A : <<"op", m>> \in EagerSteps[A].tail[t] => m \in Came(r)
    BY DEF Came, EagerBefore
  <2>3. \A c \in S : EagerSteps[A].past[<<"comm", c>>] = {}
    <3>1. \A c \in S : c \in 0..Len(prog) /\ c \notin A /\ c \in 1..Len(prog)
      BY <1>1, <1>2 DEF Before
    <3> HIDE DEF A, S
    <3> QED BY <1>1, <3>1, EagerOnly
  <2>4. EagerSteps[A] = EagerBefore(r)
    BY DEF EagerBefore
  <2> HIDE DEF A, S
  <2> QED BY <2>1, <2>2, <2>3, <2>4
<1>5. ASSUME NEW u \in SUBSET S, u # {}, u \ {Max(u)} \in W PROVE u \in W
  <2> DEFINE n == Max(u)
             v == u \ {n}
             R == EagerSteps[A \cup v]
             Q == EagerSteps[A \cup u]
             s0 == prog[n].s
  <2> HIDE DEF A, S
  <2>1. n \in u /\ \A y \in u : n >= y
    BY <1>1, <1>5, HasMax
  <2>2. n = Max(A \cup u) /\ (A \cup u) \ {n} = A \cup v
    <3>1. Max(A \cup u) \in A \cup u /\ \A y \in A \cup u : Max(A \cup u) >= y
      <4>1. A \cup u \in SUBSET (1..Len(prog)) /\ A \cup u # {}
        BY <1>1, <1>5
      <4> QED BY <4>1, EagerStepFacts
    <3>0. (\A a \in A : a \in Nat) /\ (\A b \in u : b \in Nat /\ b \in S)
      BY <1>1
    <3> DEFINE M == Max(A \cup u)
    <3> HIDE DEF n, M
    <3>2. \A a \in A : a < n /\ a \in Nat
      BY <1>3, <2>1, <3>0
    <3>3. n \in Nat /\ n \in A \cup u /\ M \in Nat
      BY <2>1, <3>0, <3>1 DEF M
    <3>4. M \in u
      BY <3>1, <3>2, <3>3 DEF M
    <3>5. n >= M /\ M >= n
      BY <2>1, <3>1, <3>3, <3>4 DEF M
    <3>6. n = M
      BY <3>3, <3>5
    <3>7. n \notin A
      BY <3>2, <3>3
    <3> QED BY <3>6, <3>7 DEF M
  <2>3. n \in S /\ n \in 1..Len(prog) /\ region[n] = r /\ Q = EagerNode(R, n) /\ R \in Runs
    <3>1. A \cup u \in SUBSET (1..Len(prog)) /\ A \cup u # {} /\ A \cup v \in SUBSET (1..Len(prog))
      BY <1>1, <1>5
    <3>2. Q = EagerNode(EagerSteps[(A \cup u) \ {Max(A \cup u)}], Max(A \cup u))
      BY <3>1, EagerStepFacts
    <3>3. EagerSteps[A \cup v] \in Runs
      BY <3>1, EagerStepFacts
    <3> HIDE DEF n
    <3> QED BY <1>1, <2>1, <2>2, <3>2, <3>3
  <2>4. Good(v)
    BY <1>5
  <2>5. s0 \in User /\ s0 \in Active(r) /\ Active(r) \subseteq User
    BY <1>1, <2>3, NodeFields, ActiveFacts DEF S
  <2>6. prog[n].kind \in {"op", "coll", "wait"}
    BY <2>3, NodeFields DEF IsGraph, S
  <2>7. R.past[<<"comm", 0>>] = {}
    <3>1. 0 \in 0..Len(prog) /\ 0 \notin A \cup v /\ A \cup v \in SUBSET (1..Len(prog))
      <4>1. A \cup v \in SUBSET (1..Len(prog))
        BY <1>1, <1>5
      <4> HIDE DEF v
      <4>2. 0 \in 0..Len(prog) /\ 0 \notin 1..Len(prog)
        BY <1>1
      <4> QED BY <4>1, <4>2
    <3>2. n \in 1..Len(prog)
      BY <2>3
    <3> HIDE DEF n, v
    <3> QED BY <3>1, <3>2, EagerOnly
  <2> HIDE DEF n, v, R, Q
  <2>8. /\ \A t \in User \ Active(r) : R.tail[t] = EagerBefore(r).tail[t]
        /\ \A t \in Active(r), m \in A : <<"op", m>> \in R.tail[t] => m \in Came(r)
        /\ \A c \in S, m \in A : <<"op", m>> \in R.past[<<"comm", c>>] => m \in Came(r)
    BY <2>4 DEF R
  <2>9. /\ \A t \in User : t # s0 => Q.tail[t] = R.tail[t]
        /\ prog[n].kind = "op" => Q.tail[s0] = R.tail[s0] \cup {<<"op", n>>}
        /\ prog[n].kind = "coll" => Q.tail[s0] = R.tail[s0]
        /\ prog[n].kind = "wait" =>
              \/ Q.tail[s0] = R.tail[s0]
              \/ /\ Src[n] = 0 \/ (Src[n] \in 1..Len(prog) /\ region[Src[n]] = region[n])
                 /\ Q.tail[s0] = R.tail[s0] \cup {<<"comm", Src[n]>>} \cup R.past[<<"comm", Src[n]>>]
        /\ prog[n].kind \in {"op", "coll"} => Q.past[NodeItem(n)] = R.tail[s0]
        /\ \A y \in Items : y # NodeItem(n) => Q.past[y] = R.past[y]
    BY <2>3, EagerNodeFields DEF s0
  <2>10. \A t \in User \ Active(r) : Q.tail[t] = EagerBefore(r).tail[t]
    BY <2>5, <2>8, <2>9
  <2>11. ASSUME NEW t \in Active(r), NEW m \in A, <<"op", m>> \in Q.tail[t] PROVE m \in Came(r)
    <3>1. CASE t # s0
      BY <2>5, <2>8, <2>9, <2>11, <3>1
    <3>2. CASE t = s0
      <4>1. m # n /\ \A c \in Nat : <<"op", m>> # <<"comm", c>>
        BY <1>2, <2>3 , <2>11 DEF A, Before
      <4>2. CASE prog[n].kind = "op"
        BY <2>8, <2>9, <2>11, <3>2, <4>1, <4>2
      <4>3. CASE prog[n].kind = "coll"
        BY <2>8, <2>9, <2>11, <3>2, <4>3
      <4>4. CASE prog[n].kind = "wait"
        <5>1. CASE Q.tail[s0] = R.tail[s0]
          BY <2>8, <2>11, <3>2, <5>1
        <5>2. CASE /\ Src[n] = 0 \/ (Src[n] \in 1..Len(prog) /\ region[Src[n]] = region[n])
                   /\ Q.tail[s0] = R.tail[s0] \cup {<<"comm", Src[n]>>} \cup R.past[<<"comm", Src[n]>>]
          <6>1. Src[n] = 0 \/ Src[n] \in S
            BY <1>1, <2>3, <5>2
          <6>2. <<"op", m>> # <<"comm", Src[n]>>
            OBVIOUS
          <6>3. <<"op", m>> \in R.tail[s0] \/ <<"op", m>> \in R.past[<<"comm", Src[n]>>]
            BY <2>11, <3>2, <5>2, <6>2
          <6> QED BY <2>7, <2>8, <2>11, <3>2, <6>1, <6>3
        <5> QED BY <2>9, <4>4, <5>1, <5>2
      <4> QED BY <2>6, <4>2, <4>3, <4>4
    <3> QED BY <3>1, <3>2
  <2>12. ASSUME NEW c \in S, NEW m \in A, <<"op", m>> \in Q.past[<<"comm", c>>] PROVE m \in Came(r)
    <3>1. <<"comm", c>> \in Items
      BY <1>1, NodeFields, ItemTypes
    <3>2. CASE <<"comm", c>> # NodeItem(n)
      BY <2>8, <2>9, <2>12, <3>1, <3>2
    <3>3. CASE <<"comm", c>> = NodeItem(n)
      <4>1. prog[n].kind = "coll"
        BY <3>3 DEF NodeItem
      <4> QED BY <2>5, <2>8, <2>9, <2>12, <3>3, <4>1
    <3> QED BY <3>2, <3>3
  <2>13. Good(u)
    BY <2>10, <2>11, <2>12 DEF Q
  <2> QED BY <2>13
<1> HIDE DEF W, A, S
<1>6. \A u \in SUBSET S : u \in W
  BY <1>1, <1>4, <1>5, Climbs
<1>7. s \in W
  BY <1>6 DEF S
<1> QED BY <1>7 DEF W, A, S

\* The streams before the next region: after a graph ...
LEMMA EagerAfterGraph ==
  ASSUME Program, Cut, NEW r \in Nat, IsGraph(r), NEW t \in User, NEW m \in 1..Len(prog),
         <<"op", m>> \in EagerBefore(r + 1).tail[t]
  PROVE  /\ t \in Active(r) => m \in Nodes(r) \/ m \in Came(r)
         /\ t \notin Active(r) => m \in Before(r) /\ <<"op", m>> \in EagerBefore(r).tail[t]
<1>1. Before(r + 1) = Before(r) \cup Nodes(r) /\ Before(r + 1) \in SUBSET (1..Len(prog))
      /\ Nodes(r) \in SUBSET Nodes(r) /\ Before(r) \in SUBSET (1..Len(prog))
  <2>1. \A n \in 1..Len(prog) : region[n] < r + 1 <=> region[n] < r \/ region[n] = r
    BY RegionFacts
  <2> QED BY <2>1, RegionFacts DEF Before
<1>2. m \in Before(r) \cup Nodes(r)
  <2>1. <<"op", m>> \in EagerSteps[Before(r + 1)].tail[t]
    BY DEF EagerBefore
  <2> QED BY <1>1, <2>1, EagerOnly
<1>3. t \notin Active(r) => EagerBefore(r + 1).tail[t] = EagerBefore(r).tail[t]
  <2>1. \A u \in User \ Active(r) :
          EagerSteps[Before(r) \cup Nodes(r)].tail[u] = EagerBefore(r).tail[u]
    BY <1>1, EagerFlows
  <2> QED BY <1>1, <2>1 DEF EagerBefore
<1>4. t \in Active(r) => (m \in Before(r) => m \in Came(r))
  <2>1. \A u \in Active(r), k \in Before(r) :
          <<"op", k>> \in EagerSteps[Before(r) \cup Nodes(r)].tail[u] => k \in Came(r)
    BY <1>1, EagerFlows
  <2>2. <<"op", m>> \in EagerSteps[Before(r) \cup Nodes(r)].tail[t]
    BY <1>1 DEF EagerBefore
  <2> QED BY <2>1, <2>2
<1>5. t \notin Active(r) => m \in Before(r)
  <2> SUFFICES ASSUME t \notin Active(r) PROVE m \in Before(r)
    OBVIOUS
  <2>1. <<"op", m>> \in EagerSteps[Before(r)].tail[t]
    BY <1>3 DEF EagerBefore
  <2> QED BY <1>1, <2>1, EagerOnly
<1> QED BY <1>2, <1>3, <1>4, <1>5

\* ... and after a stream operation.
LEMMA EagerAfterControl ==
  ASSUME Program, Cut, NEW r \in Nat, NEW n \in 1..Len(prog), Nodes(r) = {n}, prog[n].kind = "stream"
  PROVE  LET s == prog[n].s
             Q == EagerBefore(r + 1)
             R == EagerBefore(r)
         IN /\ Q.tail[s] = R.tail[s] \cup R.tail[prog[n].on]
            /\ \A t \in User : t # s => Q.tail[t] = R.tail[t]
            /\ \A t \in User, m \in 1..Len(prog) : <<"op", m>> \in Q.tail[t] => m \in Before(r)
<1>1. Before(r + 1) = Before(r) \cup {n} /\ n \notin Before(r) /\ Before(r + 1) \in SUBSET (1..Len(prog))
  <2>1. \A m \in 1..Len(prog) : region[m] < r + 1 <=> region[m] < r \/ region[m] = r
    BY RegionFacts
  <2>2. region[n] = r /\ \A m \in 1..Len(prog) : region[m] = r <=> m = n
    BY RegionFacts
  <2> QED BY <2>1, <2>2 DEF Before
<1>2. Max(Before(r + 1)) = n
  <2>1. Max(Before(r + 1)) \in Before(r + 1) /\ \A y \in Before(r + 1) : Max(Before(r + 1)) >= y
    BY <1>1, EagerStepFacts
  <2>2. \A a \in Before(r) : a < n
    <3>1. ASSUME NEW a \in Before(r), ~(a < n) PROVE FALSE
      <4>0. region[n] = r
        BY RegionFacts
      <4>1. a \in 1..Len(prog) /\ n <= a /\ region[a] < r /\ region[n] = r
        BY <3>1, <4>0, NodeFields DEF Before
      <4>2. region[n] <= region[a] /\ region[a] \in Nat
        BY <4>1, RegionFacts
      <4> QED BY <4>1, <4>2
    <3> QED BY <3>1
  <2>3. \A a \in Before(r + 1) : a \in Nat
    BY <1>1
  <2> QED BY <1>1, <2>1, <2>2, <2>3
<1>3. EagerBefore(r + 1) = EagerNode(EagerBefore(r), n) /\ EagerBefore(r) \in Runs
  <2>1. Before(r + 1) \ {n} = Before(r) /\ Before(r + 1) # {} /\ Before(r) \in SUBSET (1..Len(prog))
    BY <1>1
  <2> QED BY <1>1, <1>2, <2>1, EagerStepFacts DEF EagerBefore
<1> DEFINE Q == EagerBefore(r + 1)
           R == EagerBefore(r)
<1> HIDE DEF Q, R
<1>4. /\ Q.tail[prog[n].s] = R.tail[prog[n].s] \cup R.tail[prog[n].on]
      /\ \A t \in User : t # prog[n].s => Q.tail[t] = R.tail[t]
  <2>1. Q = EagerNode(R, n) /\ R \in Runs
    BY <1>3 DEF Q, R
  <2>2. /\ EagerNode(R, n).tail[prog[n].s] = R.tail[prog[n].s] \cup R.tail[prog[n].on]
        /\ \A t \in User : t # prog[n].s => EagerNode(R, n).tail[t] = R.tail[t]
    BY <2>1, EagerNodeFields
  <2> QED BY <2>1, <2>2
<1>5. \A t \in User, m \in 1..Len(prog) : <<"op", m>> \in R.tail[t] => m \in Before(r)
  <2>1. Before(r) \in SUBSET (1..Len(prog))
    BY <1>1
  <2> QED BY <2>1, EagerOnly DEF R, EagerBefore
<1>6. prog[n].s \in User /\ prog[n].on \in User
  BY NodeFields
<1>7. \A t \in User, m \in 1..Len(prog) : <<"op", m>> \in Q.tail[t] => m \in Before(r)
  BY <1>4, <1>5, <1>6
<1> QED BY <1>4, <1>7 DEF Q, R

\* What comes before a node of a graph eagerly, of an earlier region.
LEMMA EagerCame ==
  ASSUME Program, Cut, NEW r, IsGraph(r), NEW n \in Nodes(r), prog[n].kind \in {"op", "coll"},
         NEW m \in Before(r), <<"op", m>> \in Eager.past[NodeItem(n)]
  PROVE  m \in Came(r)
<1>1. n \in 1..Len(prog) /\ region[n] = r /\ Nodes(r) \in SUBSET (1..Len(prog))
  BY RegionFacts
<1> DEFINE s == {k \in Nodes(r) : k < n}
<1>2. {k \in 1..Len(prog) : k < n} = Before(r) \cup s
  <2>1. ASSUME NEW k \in 1..Len(prog), k < n PROVE region[k] < r \/ region[k] = r
    <3>1. k <= n
      BY <1>1, <2>1
    <3>2. region[k] <= region[n] /\ region[k] \in Nat /\ region[n] \in Nat
      BY <1>1, <3>1, RegionFacts
    <3> QED BY <1>1, <3>2
  <2>2. ASSUME NEW k \in 1..Len(prog), region[k] < r PROVE k < n
    <3> SUFFICES ASSUME ~(k < n) PROVE FALSE
      OBVIOUS
    <3>1. n <= k
      BY <1>1
    <3>2. region[n] <= region[k] /\ region[k] \in Nat /\ region[n] \in Nat
      BY <1>1, <3>1, RegionFacts
    <3> QED BY <1>1, <2>2, <3>2
  <2> QED BY <2>1, <2>2, RegionFacts DEF Before
<1>3. prog[n].s \in Active(r)
  BY ActiveFacts
<1>4. <<"op", m>> \in EagerSteps[Before(r) \cup s].tail[prog[n].s]
  BY <1>1, <1>2, EagerPast
<1>5. s \in SUBSET Nodes(r)
  OBVIOUS
<1> HIDE DEF s
<1> QED BY <1>3, <1>4, <1>5, EagerFlows

-----------------------------------------------------------------------------
(* What the streams hold while a region runs.                              *)

\* What item y reads is among `before`, what came before it.
Served(before, y) ==
  LET arg == prog[y[2]].arg
      a   == Src[arg]
  IN y[1] \in {"op", "comm"} =>
       CASE a # 0 /\ prog[a].kind = "op" -> <<"op", a>> \in before
         [] a # 0 /\ prog[a].kind = "coll" -> <<"comm", a>> \in before
         [] OTHER -> arg # 0 => Outstanding \in before

\* An item of the program: of a node that has such items.
Fits(y) ==
  /\ y \in Items /\ y[2] \in 1..Len(prog)
  /\ y[1] = "comm" => prog[y[2]].kind = "coll"
  /\ y[1] # "comm" => prog[y[2]].kind = "op"
  /\ y[1] = "stage" => prog[y[2]].flag = "staged"
  /\ y[1] = "copy" => prog[y[2]].flag = "mutates"

\* The program ordered x before y, and they meet in memory.
MustPrecede(x, y) ==
  /\ x[2] < y[2] /\ NodeItem(x[2]) \in Eager.past[NodeItem(y[2])]
  /\ \/ region[x[2]] # region[y[2]]
     \/ y[1] = "copy" /\ x[1] # "copy"
  /\ \/ Written(x) \cap Touched(Src, y) # {}
     \/ Written(y) \cap Touched(Src, x) # {}

\* No copy is made of a transfer's result.
StagedInputs ==
  \A n \in 1..Len(prog) :
    LET a == Src[prog[n].arg] IN
    prog[n].kind = "op" /\ prog[n].flag = "staged" /\ a # 0 => prog[a].kind # "coll"

\* T holds the operation or the transfer of node n, its staged input, or what
\* n waits for.
Has(T, n) ==
  /\ prog[n].kind = "op" => <<"op", n>> \in T
  /\ prog[n].kind = "op" /\ prog[n].flag = "staged" => <<"stage", n>> \in T
  /\ prog[n].kind = "coll" => <<"comm", n>> \in T
  /\ prog[n].kind = "wait" /\ Src[n] = 0 => Outstanding \in T

\* T holds operation m and the copy it ends with.
Carried(T, m) ==
  prog[m].kind = "op" =>
    <<"op", m>> \in T /\ (prog[m].flag = "mutates" => <<"copy", m>> \in T)

\* T holds all of that of the regions before r.
Had(T, r) == \A n \in 1..Len(prog) : region[n] < r => Has(T, n)

\* ... the transfer that region r waits for, and what came before r eagerly.
Ready(T, r) ==
  /\ Had(T, r)
  /\ \A n \in Nodes(r) : prog[n].kind = "wait" /\ Src[n] = 0 => Outstanding \in T
  /\ \A m \in Came(r) : Carried(T, m)

\* MAX's stream holds what MAX has waited for, and what ran came after what it
\* reads, and after what the program ordered before it.
Sound(R) ==
  /\ R \in Runs
  /\ \A m \in R.waited : <<"comm", m>> \in R.tail[MaxMain]
  /\ \A y \in R.ran : Fits(y) /\ Served(R.past[y], y)
  /\ \A x \in R.ran : \A y \in R.ran : MustPrecede(x, y) => x \in R.past[y]

\* Item x may be queued after T: what has to precede it did, nothing had to follow.
Allowed(R, T, x) ==
  \A z \in R.ran : (MustPrecede(z, x) => z \in T) /\ ~MustPrecede(x, z)

\* The transfers MAX's stream has not waited for, but for those of C.
Settled(R, C) ==
  R.tail[Comm] \ {Outstanding} \subseteq R.tail[MaxMain] \cup {<<"comm", n>> : n \in C}

\* A torch stream holds what the program ordered before the region on it.
Follows(R, r) ==
  \A t \in User : \A m \in Before(r) :
    <<"op", m>> \in EagerBefore(r).tail[t] => Carried(R.tail[t], m)

\* What ran before region r, and inside it.
RanBelow(R, r) == \A y \in R.ran : y[2] \in Before(r)
RanIn(R, r) == \A y \in R.ran : y[2] \in Before(r) \/ (y[2] \in Nodes(r) /\ y[1] # "copy")

\* Before region r runs, and inside it.
Outside(R, r) ==
  Sound(R) /\ Settled(R, {}) /\ Had(R.tail[MaxMain], r) /\ Follows(R, r) /\ RanBelow(R, r)
Inside(R, r) ==
  /\ Sound(R) /\ Settled(R, Collectives(Nodes(r))) /\ RanIn(R, r)
  /\ \A n \in Flagged(Nodes(r), "staged") : <<"stage", n>> \in R.tail[MaxMain]
  /\ \A p \in Pool(r) \cup {MaxMain} : Ready(R.tail[p], r)

\* What a larger set holds.
LEMMA ReadyGrows ==
  ASSUME NEW T, NEW U, T \subseteq U, NEW r
  PROVE  /\ Ready(T, r) => Ready(U, r)
         /\ Had(T, r) => Had(U, r)
         /\ \A m : Carried(T, m) => Carried(U, m)
BY DEF Ready, Had, Has, Carried

\* What has to precede what: across regions forward, in one only before a copy.
LEMMA MustPrecedeRegions ==
  ASSUME Program, Cut, NEW x, NEW y, Fits(x), Fits(y), MustPrecede(x, y)
  PROVE  /\ region[x[2]] < region[y[2]]
              \/ (region[x[2]] = region[y[2]] /\ y[1] = "copy" /\ x[1] # "copy")
         /\ x[2] # y[2]
         /\ x[1] \in {"op", "copy", "stage"} => <<"op", x[2]>> \in Eager.past[NodeItem(y[2])]
<1>1. x[2] \in 1..Len(prog) /\ y[2] \in 1..Len(prog) /\ x[2] < y[2]
  BY DEF Fits, MustPrecede
<1>2. Len(prog) \in Nat /\ x[2] \in Nat /\ y[2] \in Nat /\ x[2] # y[2] /\ x[2] <= y[2]
  BY <1>1, NodeFields
<1>3. region[x[2]] <= region[y[2]] /\ region[x[2]] \in Nat /\ region[y[2]] \in Nat
  BY <1>1, <1>2, RegionFacts
<1>4. region[x[2]] < region[y[2]] \/ (region[x[2]] = region[y[2]] /\ y[1] = "copy" /\ x[1] # "copy")
  BY <1>3 DEF MustPrecede
<1>5. x[1] \in {"op", "copy", "stage"} => <<"op", x[2]>> \in Eager.past[NodeItem(y[2])]
  BY DEF Fits, MustPrecede, NodeItem
<1> QED BY <1>2, <1>4, <1>5

\* What a staged copy has to come after: an operation, or the copy of one.
LEMMA StageAfter ==
  ASSUME Program, StagedInputs, NEW x, NEW y, Fits(x), Fits(y), y[1] = "stage", MustPrecede(x, y)
  PROVE  x[1] \in {"op", "copy"}
<1>1. x[2] \in 1..Len(prog) /\ y[2] \in 1..Len(prog) /\ prog[y[2]].kind = "op"
      /\ prog[y[2]].flag = "staged"
  BY DEF Fits
<1>2. Written(y) = {} /\ Touched(Src, y) = {Src[prog[y[2]].arg]}
  BY <1>1 DEF Written, Touched
<1>3. Written(x) \cap {Src[prog[y[2]].arg]} # {}
  BY <1>2 DEF MustPrecede
<1>4. x[1] # "stage"
  BY <1>3 DEF Written
<1>5. x[1] # "comm"
  <2> SUFFICES ASSUME x[1] = "comm" PROVE FALSE
    OBVIOUS
  <2>1. x[2] = Src[prog[y[2]].arg]
    BY <1>3 DEF Written
  <2>2. prog[x[2]].kind = "coll" /\ x[2] # 0
    BY <1>1 DEF Fits
  <2> QED BY <1>1, <2>1, <2>2 DEF StagedInputs
<1>6. x[1] \in {"op", "comm", "stage", "copy"}
  BY DEF Fits, Items
<1> QED BY <1>4, <1>5, <1>6

\* An operation that changes nothing but the streams, which only grow.
LEMMA AsideSound ==
  ASSUME NEW R, Sound(R), NEW Q \in Runs, Aside(R, Q), Grows(R, Q)
  PROVE  Sound(Q)
BY PlaceNames DEF Sound, Aside, Grows

\* Queueing an item that has what it reads, and what has to precede it.
LEMMA EnqueueSound ==
  ASSUME Program, Cut, NEW R, Sound(R), NEW p \in Places, NEW x, Fits(x),
         Served(R.tail[p], x), Allowed(R, R.tail[p], x)
  PROVE  Sound(Enqueue(R, p, x)) /\ Grows(R, Enqueue(R, p, x))
<1> DEFINE Q == Enqueue(R, p, x)
<1>1. R \in Runs /\ x \in Items
  BY DEF Sound, Fits
<1>2. /\ Q \in Runs /\ Q.waited = R.waited /\ Q.ran = R.ran \cup {x}
      /\ Grows(R, Q) /\ Q.past[x] = R.tail[p]
      /\ \A y \in Items : y # x => Q.past[y] = R.past[y]
  BY <1>1, EnqueueFields
<1>3. R.tail \in [Places -> SUBSET Items] /\ R.past \in [Items -> SUBSET Items] /\ R.ran \in SUBSET Items
  BY <1>1 DEF Runs
<1> HIDE DEF Q
<1>4. \A m \in Q.waited : <<"comm", m>> \in Q.tail[MaxMain]
  BY <1>2, PlaceNames DEF Sound, Grows
<1>5. \A y \in Q.ran : Fits(y) /\ Served(Q.past[y], y)
  <2>1. ASSUME NEW y \in Q.ran PROVE Fits(y) /\ Served(Q.past[y], y)
    <3>1. CASE y = x
      BY <1>2, <1>3, <3>1
    <3>2. CASE y # x
      <4>1. y \in R.ran /\ y \in Items /\ Q.past[y] = R.past[y]
        BY <1>2, <1>3, <3>2
      <4> QED BY <4>1 DEF Sound
    <3> QED BY <3>1, <3>2
  <2> QED BY <2>1
<1>6. ASSUME NEW z \in Q.ran, NEW y \in Q.ran, MustPrecede(z, y) PROVE z \in Q.past[y]
  <2>1. CASE y = x
    <3>1. z # x
      BY <1>6, <2>1, MustPrecedeRegions
    <3> QED BY <1>2, <1>6, <2>1, <3>1 DEF Allowed
  <2>2. CASE y # x
    <3>1. y \in R.ran /\ y \in Items /\ Q.past[y] = R.past[y]
      BY <1>2, <1>3, <2>2
    <3>2. z # x
      BY <1>6, <3>1 DEF Allowed
    <3> QED BY <1>2, <1>6, <3>1, <3>2 DEF Sound
  <2> QED BY <2>1, <2>2
<1> QED BY <1>2, <1>4, <1>5, <1>6 DEF Sound, Q

\* Only operations and transfers read.
LEMMA OthersServed ==
  \A w \in {"stage", "copy"} : \A T, n : Served(T, <<w, n>>)
BY DEF Served

\* Queueing copies of inputs of one region on a torch stream.
LEMMA CopiesQueued ==
  ASSUME Program, Cut, NEW R, Sound(R), NEW p \in User, NEW w \in {"stage", "copy"},
         NEW r, NEW S \in SUBSET Nodes(r),
         \A k \in S : Fits(<<w, k>>) /\ Allowed(R, R.tail[p], <<w, k>>)
  PROVE  LET Z == CopyAll(R, p, w, S) IN
         /\ Sound(Z) /\ Grows(R, Z)
         /\ \A t \in Places : t # p => Z.tail[t] = R.tail[t]
         /\ Z.ran \subseteq R.ran \cup {<<w, k>> : k \in S}
         /\ \A k \in S : <<w, k>> \in Z.tail[p]
<1> DEFINE V == {Q \in Runs : /\ Sound(Q) /\ Grows(R, Q)
                              /\ \A t \in Places : t # p => Q.tail[t] = R.tail[t]
                              /\ Q.ran \subseteq R.ran \cup {<<w, k>> : k \in S}}
           Z == CopyAll(R, p, w, S)
<1>1. R \in V
  BY DEF Sound, Grows
<1>0. S \in SUBSET (1..Len(prog)) /\ (\A k \in S : region[k] = r) /\ Len(prog) \in Nat
  BY RegionFacts, NodeFields
<1>2. ASSUME NEW Q \in V, NEW k \in S
      PROVE  /\ Enqueue(Q, p, <<w, k>>) \in V /\ Grows(Q, Enqueue(Q, p, <<w, k>>))
             /\ <<w, k>> \in Enqueue(Q, p, <<w, k>>).tail[p]
  <2>1. p \in Places /\ Q \in Runs
    BY PlaceNames
  <2>2. Served(Q.tail[p], <<w, k>>)
    BY OthersServed
  <2>3. PICK x \in Items : x = <<w, k>> /\ Fits(x) /\ Allowed(R, R.tail[p], x)
    BY DEF Fits
  <2>4. Allowed(Q, Q.tail[p], x)
    <3>1. ASSUME NEW z \in Q.ran PROVE (MustPrecede(z, x) => z \in Q.tail[p]) /\ ~MustPrecede(x, z)
      <4>1. CASE z \in R.ran
        BY <2>1, <2>3, <4>1 DEF Allowed, Grows
      <4>2. CASE z \notin R.ran
        <5>1. PICK j \in S : z = <<w, j>>
          BY <4>2
        <5>2. Fits(z)
          BY <5>1
        <5>3. z[1] = x[1] /\ region[z[2]] = r /\ region[x[2]] = r /\ r \in Nat
          BY <1>0, <2>3, <5>1, RegionFacts
        <5>4. ~(region[z[2]] < region[x[2]]) /\ ~(region[x[2]] < region[z[2]])
          <6>1. ~(r < r)
            BY <5>3
          <6> QED BY <5>3, <6>1
        <5> HIDE DEF V
        <5>5. ~MustPrecede(z, x)
          <6> SUFFICES ASSUME MustPrecede(z, x) PROVE FALSE
            OBVIOUS
          <6>1. region[z[2]] < region[x[2]] \/ (x[1] = "copy" /\ z[1] # "copy")
            BY <2>3, <5>2, MustPrecedeRegions
          <6> QED BY <5>3, <5>4, <6>1
        <5>6. ~MustPrecede(x, z)
          <6> SUFFICES ASSUME MustPrecede(x, z) PROVE FALSE
            OBVIOUS
          <6>1. region[x[2]] < region[z[2]] \/ (z[1] = "copy" /\ x[1] # "copy")
            BY <2>3, <5>2, MustPrecedeRegions
          <6> QED BY <5>3, <5>4, <6>1
        <5> QED BY <5>5, <5>6
      <4> QED BY <4>1, <4>2
    <3> QED BY <3>1 DEF Allowed
  <2>5. Sound(Enqueue(Q, p, x)) /\ Grows(Q, Enqueue(Q, p, x))
    BY <2>1, <2>2, <2>3, <2>4, EnqueueSound
  <2>6. /\ Enqueue(Q, p, x) \in Runs
        /\ \A t \in Places : t # p => Enqueue(Q, p, x).tail[t] = Q.tail[t]
        /\ Enqueue(Q, p, x).ran = Q.ran \cup {x}
        /\ x \in Enqueue(Q, p, x).tail[p]
    BY <2>1, EnqueueFields
  <2>7. \A t \in Places : t # p => Enqueue(Q, p, x).tail[t] = R.tail[t]
    BY <2>6
  <2>8. Grows(R, Enqueue(Q, p, x))
    BY <2>5, GrowsTrans
  <2> QED BY <2>3, <2>5, <2>6, <2>7, <2>8
<1> HIDE DEF V
<1>3. EnqueueStays(S, V, R, p, w)
  BY <1>0, <1>1, <1>2 DEF EnqueueStays
<1>4. PICK it : EnqueueTook(it, S, V, R, p, w)
  BY <1>3, EnqueueTurns
<1>5. Z = it[S] /\ it \in [SUBSET S -> V]
      /\ \A s \in SUBSET S : s # {} => it[s] = Enqueue(it[s \ {Max(s)}], p, <<w, Max(s)>>)
  BY <1>4 DEF EnqueueTook
<1> DEFINE W == {s \in SUBSET S : \A k \in s : <<w, k>> \in it[s].tail[p]}
<1>6. {} \in W
  OBVIOUS
<1>7. ASSUME NEW s \in SUBSET S, s # {}, s \ {Max(s)} \in W PROVE s \in W
  <2> DEFINE n == Max(s)
             Q == it[s \ {n}]
  <2>1. n \in s
    BY <1>0, <1>7, HasMax
  <2>2. Q \in V /\ n \in S /\ it[s] = Enqueue(Q, p, <<w, n>>)
    BY <1>5, <1>7, <2>1
  <2>3. \A m \in s \ {n} : <<w, m>> \in Q.tail[p]
    BY <1>7
  <2> HIDE DEF n, Q
  <2>4. Grows(Q, it[s]) /\ <<w, n>> \in it[s].tail[p]
    BY <1>2, <2>2
  <2>5. \A m \in s : <<w, m>> \in it[s].tail[p]
    BY <2>3, <2>4, PlaceNames DEF Grows
  <2> QED BY <2>5
<1> HIDE DEF W
<1>8. \A s \in SUBSET S : s \in W
  BY <1>0, <1>6, <1>7, Climbs
<1>9. S \in W /\ Z \in V
  BY <1>5, <1>8
<1> HIDE DEF Z
<1>10. \A k \in S : <<w, k>> \in Z.tail[p]
  BY <1>5, <1>9 DEF W
<1>11. /\ Sound(Z) /\ Grows(R, Z) /\ \A t \in Places : t # p => Z.tail[t] = R.tail[t]
       /\ Z.ran \subseteq R.ran \cup {<<w, k>> : k \in S}
  BY <1>9 DEF V
<1> QED BY <1>10, <1>11 DEF Z

\* A step that leaves the process group's stream alone, and may queue items;
\* one that queues none.
Grew(R, Q) == Sound(Q) /\ Grows(R, Q) /\ Q.tail[Comm] = R.tail[Comm]
Kept(R, Q) == Grew(R, Q) /\ Q.ran = R.ran

\* They keep what held before a region and inside one.
LEMMA GrewFacts ==
  ASSUME NEW R, Sound(R), NEW Q, Grew(R, Q)
  PROVE  /\ \A C : Settled(R, C) => Settled(Q, C)
         /\ \A r : Had(R.tail[MaxMain], r) => Had(Q.tail[MaxMain], r)
         /\ \A r : Follows(R, r) => Follows(Q, r)
         /\ \A p \in Places : \A r : Ready(R.tail[p], r) => Ready(Q.tail[p], r)
         /\ \A T : Grew(Q, T) => Grew(R, T)
<1>1. \A p \in Places : R.tail[p] \subseteq Q.tail[p]
  BY DEF Grew, Grows
<1>2. \A C : Settled(R, C) => Settled(Q, C)
  BY <1>1, PlaceNames DEF Settled, Grew
<1>3. \A p \in Places : /\ \A r : (Ready(R.tail[p], r) => Ready(Q.tail[p], r))
                                  /\ (Had(R.tail[p], r) => Had(Q.tail[p], r))
                        /\ \A m : Carried(R.tail[p], m) => Carried(Q.tail[p], m)
  BY <1>1, ReadyGrows
<1>4. \A r : Had(R.tail[MaxMain], r) => Had(Q.tail[MaxMain], r)
  BY <1>3, PlaceNames
<1>5. \A r : Follows(R, r) => Follows(Q, r)
  BY <1>3, PlaceNames DEF Follows
<1>6. \A T : Grew(Q, T) => Grew(R, T)
  BY GrowsTrans DEF Grew
<1> QED BY <1>2, <1>3, <1>4, <1>5, <1>6

\* ... and one that queues none keeps all of it.
LEMMA KeptFacts ==
  ASSUME NEW R, Sound(R), NEW Q, Kept(R, Q)
  PROVE  /\ \A C : Settled(R, C) => Settled(Q, C)
         /\ \A r : Had(R.tail[MaxMain], r) => Had(Q.tail[MaxMain], r)
         /\ \A r : Outside(R, r) => Outside(Q, r)
         /\ \A p \in Places : \A r : Ready(R.tail[p], r) => Ready(Q.tail[p], r)
         /\ \A T : Kept(Q, T) => Kept(R, T)
<1>1. Grew(R, Q) /\ Q.ran = R.ran
  BY DEF Kept
<1>2. \A r : Outside(R, r) => Outside(Q, r)
  BY <1>1, GrewFacts DEF Outside, Grew, RanBelow
<1>3. \A T : Kept(Q, T) => Kept(R, T)
  BY <1>1, GrewFacts DEF Kept
<1> QED BY <1>1, <1>2, <1>3, GrewFacts

\* Every operation between streams is one, on another stream.
LEMMA StepsKeep ==
  ASSUME NEW R, Sound(R)
  PROVE  /\ Kept(R, R)
         /\ \A dst \in Places \ {Comm}, src \in Places : Kept(R, Order(R, dst, src))
         /\ \A dst \in Places \ {Comm}, x \in Items : Kept(R, Await(R, dst, x))
         /\ \A dsts : \A src \in Places : Comm \notin dsts => Kept(R, OrderAll(R, dsts, src))
         /\ \A dst \in Places \ {Comm}, srcs \in SUBSET Places : Kept(R, Gather(R, dst, srcs))
<1>1. R \in Runs
  BY DEF Sound
<1>0. ASSUME NEW Q \in Runs, Aside(R, Q), Grows(R, Q), Q.tail[Comm] = R.tail[Comm] PROVE Kept(R, Q)
  BY <1>0, AsideSound DEF Kept, Grew, Aside
<1>2. Kept(R, R)
  BY DEF Kept, Grew, Grows
<1>3. ASSUME NEW dst \in Places \ {Comm}, NEW src \in Places PROVE Kept(R, Order(R, dst, src))
  BY <1>0, <1>1, <1>3, OrderFields, PlaceNames
<1>4. ASSUME NEW dst \in Places \ {Comm}, NEW x \in Items PROVE Kept(R, Await(R, dst, x))
  BY <1>0, <1>1, <1>4, AwaitFields, PlaceNames
<1>5. ASSUME NEW dsts, NEW src \in Places, Comm \notin dsts PROVE Kept(R, OrderAll(R, dsts, src))
  BY <1>0, <1>1, <1>5, OrderAllFields, PlaceNames
<1>6. ASSUME NEW dst \in Places \ {Comm}, NEW srcs \in SUBSET Places PROVE Kept(R, Gather(R, dst, srcs))
  BY <1>0, <1>1, <1>6, GatherFields, PlaceNames
<1> QED BY <1>2, <1>3, <1>4, <1>5, <1>6

\* A staged copy may be queued once the contexts have been waited for.
LEMMA StageAllowed ==
  ASSUME Program, Cut, StagedInputs, NEW r, IsGraph(r), Outside(run, r),
         NEW n \in Flagged(Nodes(r), "staged"), NEW R, R.ran = run.ran, NEW T,
         \A t \in Active(r) : run.tail[t] \subseteq T
  PROVE  Fits(<<"stage", n>>) /\ Allowed(R, T, <<"stage", n>>)
<1>1. n \in Nodes(r) /\ prog[n].kind = "op" /\ prog[n].flag = "staged" /\ n \in 1..Len(prog)
      /\ region[n] = r /\ r \in Nat
  BY RegionFacts DEF Flagged
<1>2. PICK x \in Items : x = <<"stage", n>>
  BY <1>1, NodeFields, ItemTypes
<1>3. Fits(x)
  BY <1>1, <1>2 DEF Fits
<1>4. ASSUME NEW z \in R.ran PROVE (MustPrecede(z, x) => z \in T) /\ ~MustPrecede(x, z)
  <2>1. Fits(z) /\ z[2] \in Before(r) /\ z[2] \in 1..Len(prog) /\ region[z[2]] < r /\ region[z[2]] \in Nat
    <3>1. Fits(z) /\ z[2] \in Before(r)
      BY DEF Outside, Sound, RanBelow
    <3> QED BY <3>1, RegionFacts DEF Before
  <2>2. ~MustPrecede(x, z)
    <3>1. x[2] = n
      BY <1>2
    <3>2. ~(r < region[z[2]]) /\ region[z[2]] # r
      BY <1>1, <2>1
    <3> QED BY <1>1, <1>3, <2>1, <3>1, <3>2, MustPrecedeRegions
  <2>3. ASSUME MustPrecede(z, x) PROVE z \in T
    <3>1. z[1] \in {"op", "copy"} /\ <<"op", z[2]>> \in Eager.past[NodeItem(n)]
      <4>1. x[1] = "stage" /\ x[2] = n
        BY <1>2
      <4> QED BY <1>3, <2>1, <2>3, <4>1, StageAfter, MustPrecedeRegions
    <3>2. z[2] \in Came(r)
      BY <1>1, <2>1, <3>1, EagerCame
    <3>3. PICK t \in Active(r) : <<"op", z[2]>> \in EagerBefore(r).tail[t]
      BY <3>2 DEF Came
    <3>4. Carried(run.tail[t], z[2])
      BY <2>1, <3>3, ActiveFacts DEF Outside, Follows
    <3>5. z = <<z[1], z[2]>>
      BY <2>1 DEF Fits, Items
    <3>6. z \in run.tail[t]
      BY <2>1, <3>1, <3>4, <3>5 DEF Fits, Carried
    <3> QED BY <3>6
  <2> QED BY <2>2, <2>3
<1> QED BY <1>2, <1>3, <1>4 DEF Allowed

\* Entering a region: its streams have what earlier regions left, and the
\* transfer it waits for.
LEMMA EnteredInside ==
  ASSUME Program, Cut, StagedInputs, NEW r, IsGraph(r), Outside(run, r)
  PROVE  Inside(Entered(r), r) /\ Settled(Entered(r), {}) /\ Grows(run, Entered(r))
<1> DEFINE R1 == WaitInputs(run, r)
           R2 == Import(R1, r)
           R3 == Stage(R2, r)
           waits == \E n \in Nodes(r) : prog[n].kind = "wait" /\ Src[n] = 0
           cur == Current(r)
<1>1. Sound(run) /\ Nodes(r) # {}
  BY DEF Outside, IsGraph
<1>2. cur \in Active(r) /\ cur \in User /\ cur \in Places \ {Comm} /\ cur # MaxMain
      /\ Active(r) \in SUBSET Places /\ MaxMain \in Places \ {Comm} /\ Comm \notin Active(r)
  BY ActiveFacts, PlaceNames
<1>3. Kept(run, R1) /\ (waits => Outstanding \in R1.tail[cur])
  <2>1. CASE waits
    <3>1. R1 = Await(run, cur, Outstanding)
      BY <2>1 DEF WaitInputs
    <3>2. Outstanding \in Items
      BY ItemTypes
    <3>3. run \in Runs
      BY <1>1 DEF Sound
    <3>4. Outstanding \in Await(run, cur, Outstanding).tail[cur]
      <4> HIDE DEF cur
      <4> QED BY <1>2, <3>2, <3>3, AwaitFields
    <3>5. Kept(run, Await(run, cur, Outstanding))
      <4> HIDE DEF cur
      <4> QED BY <1>1, <1>2, <3>2, StepsKeep
    <3> QED BY <3>1, <3>4, <3>5
  <2>2. CASE ~waits
    <3>1. R1 = run
      BY <2>2 DEF WaitInputs
    <3> QED BY <1>1, <2>2, <3>1, StepsKeep
  <2> QED BY <2>1, <2>2
<1>4. Sound(R1)
  BY <1>3 DEF Kept, Grew
<1>5. /\ Kept(R1, R2) /\ (waits => Outstanding \in R2.tail[MaxMain])
      /\ \A p \in Active(r) : R1.tail[p] \subseteq R2.tail[MaxMain]
  <2>1. R2 = Gather(R1, MaxMain, Active(r))
    BY DEF Import
  <2>2. R1 \in Runs
    BY <1>4 DEF Sound
  <2> HIDE DEF R1, R2, cur, waits
  <2>3. R2.tail[MaxMain] = R1.tail[MaxMain] \cup UNION {R1.tail[p] : p \in Active(r)}
    BY <1>2, <2>1, <2>2, GatherFields
  <2> QED BY <1>2, <1>3, <1>4, <2>1, <2>3, StepsKeep
<1>6. Sound(R2)
  BY <1>5 DEF Kept, Grew
<1> DEFINE S == Flagged(Nodes(r), "staged")
<1>16. Grows(run, R2) /\ R2.ran = run.ran
  <2> HIDE DEF R1, R2
  <2> QED BY <1>3, <1>5, GrowsTrans DEF Kept, Grew
<1>7. /\ Grew(R2, R3) /\ R3.ran \subseteq R2.ran \cup {<<"stage", k>> : k \in S}
      /\ \A k \in S : <<"stage", k>> \in R3.tail[MaxMain]
  <2> HIDE DEF R2
  <2>1. CASE S = {}
    <3>1. R3 = R2
      BY <2>1 DEF Stage
    <3> QED BY <1>6, <2>1, <3>1, StepsKeep DEF Kept
  <2>2. CASE S # {}
    <3> DEFINE R4 == Gather(R2, cur, Active(r))
               R5 == CopyAll(R4, cur, "stage", S)
    <3>1. R3 = Order(R5, MaxMain, cur)
      BY <2>2 DEF Stage, CopyAll
    <3>2. S \in SUBSET Nodes(r)
      BY DEF Flagged
    <3> HIDE DEF R3, cur
    <3>3. Kept(R2, R4) /\ \A t \in Active(r) : R2.tail[t] \subseteq R4.tail[cur]
      <4>1. Kept(R2, R4)
        BY <1>2, <1>6, StepsKeep
      <4>2. R2 \in Runs
        BY <1>6 DEF Sound
      <4>3. R4.tail[cur] = R2.tail[cur] \cup UNION {R2.tail[p] : p \in Active(r)}
        BY <1>2, <4>2, GatherFields
      <4> HIDE DEF R4
      <4> QED BY <4>1, <4>3
    <3>4. Sound(R4) /\ R4.ran = run.ran
      BY <1>16, <3>3 DEF Kept, Grew
    <3> HIDE DEF R4
    <3>9. \A t \in Active(r) : run.tail[t] \subseteq R4.tail[cur]
      BY <1>2, <1>16, <3>3 DEF Grows
    <3>10. \A k \in S : Fits(<<"stage", k>>) /\ Allowed(R4, R4.tail[cur], <<"stage", k>>)
      BY <3>4, <3>9, StageAllowed
    <3> HIDE DEF S
    <3>5. /\ Sound(R5) /\ Grows(R4, R5)
          /\ \A t \in Places : t # cur => R5.tail[t] = R4.tail[t]
          /\ R5.ran \subseteq R4.ran \cup {<<"stage", k>> : k \in S}
          /\ \A k \in S : <<"stage", k>> \in R5.tail[cur]
      BY <1>2, <3>2, <3>4, <3>10, CopiesQueued
    <3>6. Grew(R4, R5)
      BY <1>2, <3>5, PlaceNames DEF Grew
    <3> HIDE DEF R5
    <3>7. Kept(R5, R3) /\ R5.tail[cur] \subseteq R3.tail[MaxMain]
      <4>1. Kept(R5, R3)
        BY <1>2, <3>1, <3>5, StepsKeep
      <4>2. R5 \in Runs
        BY <3>5 DEF Sound
      <4>3. Order(R5, MaxMain, cur).tail[MaxMain] = R5.tail[MaxMain] \cup R5.tail[cur]
        BY <1>2, <4>2, OrderFields
      <4> QED BY <3>1, <4>1, <4>3
    <3>8. Grew(R4, R3) /\ R3.ran = R5.ran
      BY <3>4, <3>6, <3>7, GrewFacts DEF Kept
    <3>11. Grew(R2, R3)
      BY <1>6, <3>3, <3>8, GrewFacts DEF Kept
    <3> QED BY <1>16, <3>4, <3>5, <3>7, <3>8, <3>11
  <2> QED BY <2>1, <2>2
<1>8. Sound(R3) /\ Grows(run, R3)
  <2> HIDE DEF R1, R2, R3
  <2> QED BY <1>7, <1>16, GrowsTrans DEF Grew
<1>17. RanIn(R3, r)
  <2> SUFFICES ASSUME NEW y \in R3.ran PROVE y[2] \in Before(r) \/ (y[2] \in Nodes(r) /\ y[1] # "copy")
    BY DEF RanIn
  <2>1. y \in run.ran \/ \E k \in S : y = <<"stage", k>>
    BY <1>7, <1>16
  <2>2. \A k \in S : k \in Nodes(r)
    BY DEF Flagged
  <2> HIDE DEF S
  <2> QED BY <2>1, <2>2 DEF Outside, RanBelow
<1>9. Settled(R3, {}) /\ Ready(R3.tail[MaxMain], r)
  <2> HIDE DEF R1, R2, R3
  <2>1. Settled(R1, {}) /\ Had(R1.tail[MaxMain], r)
    BY <1>1, <1>3, KeptFacts DEF Outside
  <2>2. Settled(R2, {}) /\ Had(R2.tail[MaxMain], r)
    BY <1>4, <1>5, <2>1, KeptFacts
  <2>3. ASSUME NEW m \in Came(r) PROVE Carried(R2.tail[MaxMain], m)
    <3>1. PICK t \in Active(r) : m \in Before(r) /\ <<"op", m>> \in EagerBefore(r).tail[t]
      BY DEF Came
    <3>2. t \in User /\ t \in Places
      BY <1>2, <3>1, ActiveFacts
    <3>3. Carried(run.tail[t], m)
      BY <3>1, <3>2 DEF Outside, Follows
    <3>4. run.tail[t] \subseteq R2.tail[MaxMain]
      BY <1>3, <1>5, <3>2 DEF Kept, Grew, Grows
    <3> QED BY <3>3, <3>4, ReadyGrows
  <2>4. Ready(R2.tail[MaxMain], r)
    BY <1>5, <2>2, <2>3 DEF Ready
  <2> QED BY <1>2, <1>6, <1>7, <2>2, <2>4, GrewFacts
<1>10. Entered(r) = OrderAll(R3, Pool(r), MaxMain)
  BY DEF Entered
<1> HIDE DEF R1, R2, R3, waits, cur, S
<1>11. Pool(r) \subseteq Places \ {Comm}
  BY <1>1, PoolFacts
<1> DEFINE E == OrderAll(R3, Pool(r), MaxMain)
<1>12. Kept(R3, E)
  <2>1. \A dsts : \A src \in Places : Comm \notin dsts => Kept(R3, OrderAll(R3, dsts, src))
    BY <1>8, StepsKeep
  <2>2. Comm \notin Pool(r) /\ MaxMain \in Places
    BY <1>2, <1>11
  <2> QED BY <2>1, <2>2
<1>13. \A p \in Pool(r) \cup {MaxMain} : R3.tail[MaxMain] \subseteq E.tail[p]
  <2>1. R3 \in Runs
    BY <1>8 DEF Sound
  <2>2. \A p \in Places \cap Pool(r) : E.tail[p] = R3.tail[p] \cup R3.tail[MaxMain]
    BY <1>2, <2>1, OrderAllFields
  <2> HIDE DEF E
  <2> QED BY <1>2, <1>11, <1>12, <2>2 DEF Kept, Grew, Grows
<1> HIDE DEF E
<1>14. \A p \in Pool(r) \cup {MaxMain} : Ready(E.tail[p], r)
  BY <1>9, <1>13, ReadyGrows
<1>15. Sound(E) /\ Settled(E, {}) /\ E.ran = R3.ran /\ Grows(run, E)
  BY <1>8, <1>9, <1>12, KeptFacts, GrowsTrans DEF Kept, Grew
<1>18. RanIn(E, r)
  BY <1>15, <1>17 DEF RanIn
<1>19. \A k \in S : <<"stage", k>> \in E.tail[MaxMain]
  BY <1>7, <1>13
<1>20. Settled(E, Collectives(Nodes(r)))
  BY <1>15 DEF Settled
<1>21. Inside(E, r)
  BY <1>14, <1>15, <1>18, <1>19, <1>20 DEF Inside, S
<1> QED BY <1>10, <1>15, <1>21 DEF E

\* MAX waits for a collective of the region, if it has not yet.
LEMMA GraphWaitKeeps ==
  ASSUME Program, Cut, NEW r, NEW m, NEW R, Sound(R)
  PROVE  /\ Kept(R, GraphWait(R, r, m))
         /\ m \in Collectives(Nodes(r)) => <<"comm", m>> \in GraphWait(R, r, m).tail[MaxMain]
         /\ GraphWait(R, r, m).ran = R.ran /\ GraphWait(R, r, m).past = R.past
         /\ \A p \in Places : p # MaxMain => GraphWait(R, r, m).tail[p] = R.tail[p]
<1> DEFINE Q == GraphWait(R, r, m)
<1>1. R \in Runs
  BY DEF Sound
<1>2. CASE m \in Collectives(Nodes(r)) \ R.waited
  <2>1. m \in 1..Len(prog) /\ <<"comm", m>> \in Items /\ m \in Nat
    BY <1>2, RegionFacts, NodeFields, ItemTypes DEF Collectives
  <2> DEFINE A == Await(R, MaxMain, <<"comm", m>>)
             w == R.waited \cup {m}
  <2>2. Q = [A EXCEPT !.waited = w]
    <3>1. A.waited = R.waited
      BY <1>1, <2>1, AwaitFields, PlaceNames DEF Aside
    <3> HIDE DEF A
    <3> QED BY <1>2, <3>1 DEF GraphWait, A
  <2>3. PICK x \in Items : x = <<"comm", m>>
    BY <2>1
  <2>4. /\ A \in Runs /\ Aside(R, A) /\ Grows(R, A)
        /\ x \in A.tail[MaxMain]
        /\ \A p \in Places : p # MaxMain => A.tail[p] = R.tail[p]
    BY <1>1, <2>3, AwaitFields, PlaceNames
  <2>5. w \in SUBSET Nat
    BY <1>1, <2>1 DEF Runs
  <2> HIDE DEF A, w, Q
  <2>6. /\ Q \in Runs /\ Q.waited = w /\ Q.ran = A.ran /\ Q.past = A.past /\ Q.tail = A.tail
    BY <2>2, <2>4, <2>5 DEF Runs
  <2>7. /\ Grows(R, Q) /\ x \in Q.tail[MaxMain] /\ Q.ran = R.ran /\ Q.past = R.past
        /\ \A p \in Places : p # MaxMain => Q.tail[p] = R.tail[p]
    BY <2>4, <2>6 DEF Aside, Grows
  <2>8. \A k \in Q.waited : <<"comm", k>> \in Q.tail[MaxMain]
    <3>1. \A k \in R.waited : <<"comm", k>> \in Q.tail[MaxMain]
      BY <2>7, PlaceNames DEF Sound, Grows
    <3> QED BY <2>3, <2>6, <2>7, <3>1 DEF w
  <2>9. Sound(Q)
    BY <2>6, <2>7, <2>8 DEF Sound
  <2> QED BY <2>3, <2>7, <2>9, PlaceNames DEF Kept, Grew, Q
<1>3. CASE ~(m \in Collectives(Nodes(r)) \ R.waited)
  <2>1. Q = R
    BY <1>3 DEF GraphWait
  <2>2. m \in R.waited => <<"comm", m>> \in R.tail[MaxMain]
    BY DEF Sound
  <2> QED BY <1>3, <2>1, <2>2, StepsKeep
<1> QED BY <1>2, <1>3

\* The operations of the region before node n are on their streams.
Queued(R, r, n) ==
  \A m \in Nodes(r) : m < n /\ prog[m].kind = "op" => <<"op", m>> \in R.tail[Place(m)]

\* What is captured are items, and the value a node reads off its stream.
LEMMA CapturedFacts ==
  ASSUME Program, Cut, NEW n \in 1..Len(prog), NEW R \in Runs
  PROVE  /\ Captured(R, n) \subseteq Items
         /\ LET a == Src[prog[n].arg] IN
            a \in Nodes(region[n]) /\ a < n /\ prog[a].kind = "op" /\ stream[a] # stream[n]
              => <<"op", a>> \in Captured(R, n)
<1> DEFINE Joined == Group(n)
           F(m) == LET a == Src[prog[m].arg] IN
                   IF a \in Nodes(region[n]) \ Joined /\ prog[a].kind = "op"
                   THEN {<<"op", a>>} \cup R.past[<<"op", a>>] ELSE {}
<1>1. Captured(R, n) = UNION {F(m) : m \in Joined}
  BY DEF Captured
<1>2. n \in Joined
  <2>1. n \in Nodes(region[n]) /\ \A k \in (n .. n) \cup (n .. n) : k = n
    BY RegionFacts
  <2> QED BY <2>1 DEF Group
<1>3. \A a \in Joined : a = n \/ stream[a] = stream[n]
  <2>1. ASSUME NEW a \in Joined PROVE a = n \/ stream[a] = stream[n]
    <3>1. CASE stream[n] = 0
      BY <3>1 DEF Group
    <3>2. CASE stream[n] # 0
      <4>1. a \in Nodes(region[n]) /\ \A k \in (a .. n) \cup (n .. a) : stream[k] = stream[n]
        BY <3>2 DEF Group
      <4>2. a \in 1..Len(prog) /\ Len(prog) \in Nat
        BY <4>1, RegionFacts, NodeFields
      <4>3. a \in (a .. n) \cup (n .. a)
        BY <4>2
      <4> QED BY <4>1, <4>3
    <3> QED BY <3>1, <3>2
  <2> QED BY <2>1
<1> HIDE DEF Joined
<1>4. \A m \in Joined : F(m) \subseteq Items
  <2>1. \A a \in Nodes(region[n]) : <<"op", a>> \in Items
    BY RegionFacts, NodeFields, ItemTypes
  <2>2. \A x \in Items : R.past[x] \subseteq Items
    BY DEF Runs
  <2> QED BY <2>1, <2>2
<1>5. Captured(R, n) \subseteq Items
  <2> HIDE DEF F
  <2> QED BY <1>1, <1>4
<1>6. LET a == Src[prog[n].arg] IN
      a \in Nodes(region[n]) /\ a < n /\ prog[a].kind = "op" /\ stream[a] # stream[n]
        => <<"op", a>> \in F(n)
  <2>1. \A a \in Nodes(region[n]) : a < n /\ stream[a] # stream[n] => a \notin Joined
    <3>1. \A a \in Nodes(region[n]) : a < n => a # n
      BY RegionFacts
    <3> QED BY <1>3, <3>1
  <2> QED BY <2>1
<1> HIDE DEF F
<1> QED BY <1>1, <1>2, <1>5, <1>6

\* When its turn comes, a node has what it reads.
LEMMA Fed ==
  ASSUME Program, Cut, NEW n \in 1..Len(prog), NEW r, r = region[n], NEW R,
         Inside(R, r), Queued(R, r, n)
  PROVE  LET Q == GraphWait(R, r, Src[prog[n].arg]) IN
         /\ Served(Q.tail[Place(n)] \cup Captured(Q, n), <<"op", n>>)
         /\ prog[n].kind = "coll" => Served(Q.tail[MaxMain], <<"comm", n>>)
<1> DEFINE arg == prog[n].arg
           a == Src[arg]
           Q == GraphWait(R, r, a)
           T == Q.tail[Place(n)]
<1>1. Sound(R) /\ R \in Runs
  BY DEF Inside, Sound
<1>2. /\ Kept(R, Q) /\ (a \in Collectives(Nodes(r)) => <<"comm", a>> \in Q.tail[MaxMain])
  BY <1>1, GraphWaitKeeps
<1>3. n \in Nodes(r) /\ Nodes(r) # {} /\ Len(prog) \in Nat
  BY RegionFacts, NodeFields
<1>4. Place(n) \in Pool(r) \cup {MaxMain} /\ Place(n) \in Places
  BY <1>3, PoolFacts, PlaceFacts
<1>5. Ready(T, r)
  <2>1. Ready(R.tail[Place(n)], r)
    BY <1>4 DEF Inside
  <2> HIDE DEF Q
  <2> QED BY <1>1, <1>2, <1>4, <2>1, KeptFacts
<1>6. arg \in 0..Len(prog) /\ arg < n /\ (arg # 0 => arg \in 1..Len(prog) /\ prog[arg].kind # "stream")
  BY NodeFields DEF Program
<1>7. /\ a \in 0..arg /\ (a # 0 => prog[a].kind # "wait")
      /\ (a # 0 /\ arg # 0 => prog[a].kind # "stream")
      /\ (arg # 0 /\ prog[arg].kind # "wait" => a = arg)
      /\ (arg = 0 => a = 0)
  BY <1>6, SrcFacts
<1>8. ASSUME a # 0
      PROVE  /\ a \in 1..Len(prog) /\ a < n /\ a \in Nat
             /\ prog[a].kind \in {"op", "coll"}
             /\ region[a] < r \/ a \in Nodes(r)
  <2> HIDE DEF a, arg
  <2>1. a \in 1..Len(prog) /\ a < n /\ a \in Nat
    BY <1>3, <1>6, <1>7, <1>8
  <2>2. prog[a].kind \in {"op", "coll"}
    BY <1>6, <1>7, <1>8, <2>1, NodeFields
  <2>3. region[a] <= r /\ region[a] \in Nat /\ r \in Nat
    BY <2>1, RegionFacts
  <2>4. region[a] < r \/ a \in Nodes(r)
    BY <2>1, <2>3, RegionFacts
  <2> QED BY <2>1, <2>2, <2>4
<1>9. a # 0 /\ region[a] < r => Has(T, a)
  BY <1>5, <1>8 DEF Ready, Had
<1>10. a \in Nodes(r) /\ prog[a].kind = "coll" => <<"comm", a>> \in T /\ Place(n) = MaxMain
  <2> SUFFICES ASSUME a \in Nodes(r), prog[a].kind = "coll"
               PROVE <<"comm", a>> \in T /\ Place(n) = MaxMain
    OBVIOUS
  <2>1. a \in Collectives(Nodes(r))
    BY DEF Collectives
  <2>2. Place(n) = MaxMain
    BY <2>1, PlaceFacts
  <2> QED BY <1>2, <2>1, <2>2
<1>11. a # 0 /\ a \in Nodes(r) /\ prog[a].kind = "op" => <<"op", a>> \in T \cup Captured(Q, n)
  <2> SUFFICES ASSUME a # 0, a \in Nodes(r), prog[a].kind = "op"
               PROVE <<"op", a>> \in T \cup Captured(Q, n)
    OBVIOUS
  <2>1. <<"op", a>> \in R.tail[Place(a)] /\ Place(a) \in Places
    BY <1>8, PlaceFacts DEF Queued
  <2>2. <<"op", a>> \in Q.tail[Place(a)]
    BY <1>2, <2>1 DEF Kept, Grew, Grows
  <2>3. CASE stream[a] = stream[n]
    <3>1. Place(a) = Place(n)
      BY <2>3 DEF Place
    <3> QED BY <2>2, <3>1
  <2>4. CASE stream[a] # stream[n]
    <3>1. Q \in Runs
      BY <1>2 DEF Kept, Grew, Sound
    <3> HIDE DEF Q
    <3>2. <<"op", a>> \in Captured(Q, n)
      BY <1>8, <2>4, <3>1, CapturedFacts
    <3> QED BY <3>2
  <2> QED BY <2>3, <2>4
<1>12. a = 0 /\ arg # 0 => Outstanding \in T
  <2> SUFFICES ASSUME a = 0, arg # 0 PROVE Outstanding \in T
    OBVIOUS
  <2>1. prog[arg].kind = "wait" /\ Src[arg] = 0 /\ arg \in 1..Len(prog) /\ arg <= n
    BY <1>6, <1>7
  <2>2. region[arg] <= r /\ region[arg] \in Nat /\ r \in Nat
    BY <2>1, RegionFacts
  <2>3. CASE region[arg] < r
    BY <1>5, <2>1, <2>3 DEF Ready, Had, Has
  <2>4. CASE region[arg] = r
    <3>1. arg \in Nodes(r)
      BY <2>1, <2>4, RegionFacts
    <3> QED BY <1>5, <2>1, <3>1 DEF Ready
  <2> QED BY <2>2, <2>3, <2>4
<1> HIDE DEF Q, T
<1>13. Served(T \cup Captured(Q, n), <<"op", n>>)
  <2>1. CASE a = 0
    BY <1>12, <2>1 DEF Served
  <2>2. CASE a # 0 /\ region[a] < r
    BY <1>8, <1>9, <2>2 DEF Served, Has
  <2>3. CASE a # 0 /\ a \in Nodes(r)
    BY <1>8, <1>10, <1>11, <2>3 DEF Served
  <2> QED BY <1>8, <2>1, <2>2, <2>3
<1>14. ASSUME prog[n].kind = "coll" PROVE Served(Q.tail[MaxMain], <<"comm", n>>)
  <2>1. n \in Collectives(Nodes(r))
    BY <1>3, <1>14 DEF Collectives
  <2>2. Place(n) = MaxMain /\ T = Q.tail[MaxMain]
    BY <2>1, PlaceFacts DEF T
  <2>3. a \in Nodes(r) /\ prog[a].kind = "op" /\ a # 0 => <<"op", a>> \in T
    <3> SUFFICES ASSUME a \in Nodes(r), prog[a].kind = "op", a # 0 PROVE <<"op", a>> \in T
      OBVIOUS
    <3>1. <<"op", a>> \in R.tail[Place(a)]
      BY <1>8 DEF Queued
    <3>2. Place(a) = MaxMain
      <4>1. a \in 1..Len(prog) /\ region[a] = r
        BY RegionFacts
      <4>2. Collectives(Nodes(region[a])) # {}
        BY <2>1, <4>1
      <4> HIDE DEF a
      <4> QED BY <4>1, <4>2, PlaceFacts
    <3> QED BY <1>2, <2>2, <3>1, <3>2, PlaceNames DEF Kept, Grew, Grows
  <2>4. CASE a = 0
    BY <1>12, <2>2, <2>4 DEF Served
  <2>5. CASE a # 0 /\ region[a] < r
    BY <1>8, <1>9, <2>2, <2>5 DEF Served, Has
  <2>6. CASE a # 0 /\ a \in Nodes(r)
    BY <1>8, <1>10, <2>2, <2>3, <2>6 DEF Served
  <2> QED BY <1>8, <2>4, <2>5, <2>6
<1> QED BY <1>13, <1>14 DEF Q, T

\* When its turn comes, what the program ordered before a node is there too.
LEMMA NodeAllowed ==
  ASSUME Program, Cut, NEW r, IsGraph(r), NEW n \in Nodes(r), NEW x, Fits(x), x[2] = n,
         x[1] \in {"op", "comm"}, NEW R, Sound(R), RanIn(R, r), NEW T, Ready(T, r)
  PROVE  Allowed(R, T, x)
<1>1. n \in 1..Len(prog) /\ region[n] = r /\ r \in Nat
  BY RegionFacts
<1>2. ASSUME NEW z \in R.ran PROVE (MustPrecede(z, x) => z \in T) /\ ~MustPrecede(x, z)
  <2>1. Fits(z) /\ (z[2] \in Before(r) \/ (z[2] \in Nodes(r) /\ z[1] # "copy"))
    BY DEF Sound, RanIn
  <2>2. z[2] \in 1..Len(prog) /\ region[z[2]] \in Nat /\ region[z[2]] <= r
        /\ (region[z[2]] < r <=> z[2] \in Before(r))
    <3>1. z[2] \in 1..Len(prog)
      BY <2>1 DEF Fits
    <3>2. region[z[2]] \in Nat /\ (z[2] \in Nodes(r) => region[z[2]] = r)
      BY <3>1, RegionFacts
    <3> QED BY <1>1, <2>1, <3>1, <3>2 DEF Before
  <2>3. ~MustPrecede(x, z)
    <3> SUFFICES ASSUME MustPrecede(x, z) PROVE FALSE
      OBVIOUS
    <3>1. region[n] < region[z[2]] \/ (region[n] = region[z[2]] /\ z[1] = "copy")
      BY <2>1, MustPrecedeRegions
    <3>2. z[1] = "copy" /\ region[z[2]] = r
      BY <1>1, <2>2, <3>1
    <3> QED BY <1>1, <2>1, <2>2, <3>2
  <2>4. ASSUME MustPrecede(z, x) PROVE z \in T
    <3>1. region[z[2]] < region[n] /\ (z[1] = "copy" => <<"op", z[2]>> \in Eager.past[NodeItem(n)])
      BY <2>1, <2>4, MustPrecedeRegions
    <3>2. z[2] \in Before(r) /\ region[z[2]] < r
      BY <1>1, <2>2, <3>1
    <3>3. z = <<z[1], z[2]>> /\ z[1] \in {"op", "comm", "stage", "copy"}
      BY <2>1 DEF Fits, Items
    <3>4. CASE z[1] = "copy"
      <4>1. prog[n].kind \in {"op", "coll"}
        BY DEF Fits
      <4>2. z[2] \in Came(r)
        BY <3>1, <3>2, <3>4, <4>1, EagerCame
      <4>3. Carried(T, z[2])
        BY <4>2 DEF Ready
      <4> QED BY <2>1, <3>3, <3>4, <4>3 DEF Carried, Fits
    <3>5. CASE z[1] # "copy"
      <4>1. Has(T, z[2])
        BY <2>2, <3>2 DEF Ready, Had
      <4> QED BY <2>1, <3>3, <3>5, <4>1 DEF Has, Fits
    <3> QED BY <3>4, <3>5
  <2> QED BY <2>3, <2>4
<1> QED BY <1>2 DEF Allowed

\* What queueing a node keeps, and what it leaves on the node's stream.
NodeDone(R, Q, r, n) ==
  /\ Inside(Q, r) /\ Grows(R, Q)
  /\ prog[n].kind = "op" => <<"op", n>> \in Q.tail[Place(n)]
  /\ Collectives(Nodes(r)) = {} => Q.tail[Comm] = R.tail[Comm]

\* Inside a region its streams may grow.
LEMMA InsideGrows ==
  ASSUME Program, Cut, NEW r, Nodes(r) # {}, NEW R, Inside(R, r), NEW Q, Sound(Q), Grows(R, Q),
         Settled(Q, Collectives(Nodes(r))), RanIn(Q, r)
  PROVE  Inside(Q, r)
<1>1. \A p \in Pool(r) \cup {MaxMain} : p \in Places
  BY PoolFacts, PlaceNames
<1>2. \A p \in Pool(r) \cup {MaxMain} : R.tail[p] \subseteq Q.tail[p] /\ Ready(R.tail[p], r)
  BY <1>1 DEF Inside, Grows
<1> QED BY <1>2, ReadyGrows, PlaceNames DEF Inside

\* ... as they do when the process group's stream stays.
LEMMA InsideKept ==
  ASSUME Program, Cut, NEW r, Nodes(r) # {}, NEW R, Inside(R, r), NEW Q, Kept(R, Q)
  PROVE  Inside(Q, r)
<1>1. Sound(R) /\ Settled(R, Collectives(Nodes(r)))
  BY DEF Inside
<1>2. Settled(Q, Collectives(Nodes(r)))
  BY <1>1, KeptFacts
<1>3. RanIn(Q, r)
  BY DEF Inside, RanIn, Kept
<1> QED BY <1>2, <1>3, InsideGrows DEF Kept, Grew

\* Queueing one node.
LEMMA NodeStep ==
  ASSUME Program, Cut, NEW n \in 1..Len(prog), NEW r, r = region[n], IsGraph(r), NEW R,
         Inside(R, r), Queued(R, r, n)
  PROVE  NodeDone(R, GraphNode(R, n), r, n)
<1> DEFINE a == Src[prog[n].arg]
           Q == GraphWait(R, r, a)
<1>1. Sound(R) /\ R \in Runs
  BY DEF Inside, Sound
<1>2. n \in Nodes(r) /\ Nodes(r) # {}
  BY RegionFacts
<1>3. Kept(R, Q) /\ Sound(Q) /\ Q \in Runs
  <2>1. Kept(R, Q)
    BY <1>1, GraphWaitKeeps
  <2> QED BY <2>1 DEF Kept, Grew, Sound
<1>4. Inside(Q, r)
  <2> HIDE DEF Q
  <2> QED BY <1>2, <1>3, InsideKept
<1>5. CASE prog[n].kind = "wait"
  <2> DEFINE W == GraphWait(R, r, Src[n])
  <2>1. GraphNode(R, n) = W
    BY <1>5 DEF GraphNode
  <2>2. Kept(R, W)
    BY <1>1, GraphWaitKeeps
  <2> HIDE DEF W
  <2>3. Inside(W, r)
    BY <1>2, <2>2, InsideKept
  <2> QED BY <1>5, <2>1, <2>2, <2>3 DEF NodeDone, Kept, Grew
<1>6. CASE prog[n].kind = "coll"
  <2> DEFINE O == Order(Q, Comm, MaxMain)
             E == Enqueue(O, Comm, <<"comm", n>>)
  <2>1. GraphNode(R, n) = E
    BY <1>6 DEF GraphNode
  <2>2. n \in Collectives(Nodes(r))
    BY <1>2, <1>6 DEF Collectives
  <2>3. PICK x \in Items : x = <<"comm", n>> /\ Fits(x)
    BY <1>6, NodeFields, ItemTypes DEF Fits
  <2>4. Served(Q.tail[MaxMain], x)
    BY <1>6, <2>3, Fed
  <2> HIDE DEF Q, O
  <2>5. /\ O \in Runs /\ Aside(Q, O) /\ Grows(Q, O)
        /\ O.tail[Comm] = Q.tail[Comm] \cup Q.tail[MaxMain]
        /\ O.tail[MaxMain] = Q.tail[MaxMain]
    BY <1>3, OrderFields, PlaceNames DEF O
  <2>6. Sound(O)
    BY <1>3, <2>5, AsideSound
  <2>7. Served(O.tail[Comm], x)
    BY <2>4, <2>5 DEF Served
  <2>8. Allowed(O, O.tail[Comm], x)
    <3>1. RanIn(O, r) /\ Ready(Q.tail[MaxMain], r)
      BY <1>4, <2>5 DEF Inside, RanIn, Aside
    <3>2. Ready(O.tail[Comm], r)
      BY <2>5, <3>1, ReadyGrows
    <3> QED BY <1>2, <2>3, <2>6, <3>1, <3>2, NodeAllowed
  <2>9. Sound(Enqueue(O, Comm, x)) /\ Grows(O, Enqueue(O, Comm, x))
    BY <2>3, <2>6, <2>7, <2>8, EnqueueSound, PlaceNames
  <2>10. /\ Enqueue(O, Comm, x).tail[Comm] = O.tail[Comm] \cup {x}
         /\ Enqueue(O, Comm, x).ran = O.ran \cup {x}
         /\ Enqueue(O, Comm, x).tail[MaxMain] = O.tail[MaxMain]
    BY <2>5, EnqueueFields, PlaceNames
  <2>11. E = Enqueue(O, Comm, x)
    BY <2>3
  <2> HIDE DEF E
  <2>12. Settled(Q, Collectives(Nodes(r)))
    BY <1>4 DEF Inside
  <2>13. Settled(E, Collectives(Nodes(r)))
    BY <2>2, <2>3, <2>5, <2>10, <2>11, <2>12 DEF Settled
  <2>14. Grows(Q, E)
    BY <2>5, <2>9, <2>11, GrowsTrans
  <2>17. RanIn(E, r)
    BY <1>2, <1>4, <2>3, <2>5, <2>10, <2>11 DEF Inside, RanIn, Aside
  <2>15. Inside(E, r)
    BY <1>2, <1>4, <2>9, <2>11, <2>13, <2>14, <2>17, InsideGrows
  <2>16. Grows(R, E)
    BY <1>3, <2>14, GrowsTrans DEF Kept, Grew
  <2> QED BY <1>6, <2>1, <2>2, <2>15, <2>16 DEF NodeDone
<1>7. CASE prog[n].kind = "op"
  <2> DEFINE C == [Q EXCEPT !.tail[Place(n)] = @ \cup Captured(Q, n)]
             E == Enqueue(C, Place(n), <<"op", n>>)
  <2>1. GraphNode(R, n) = E
    BY <1>7 DEF GraphNode
  <2>2. Place(n) \in Places \ {Comm}
    BY PlaceFacts
  <2>3. PICK x \in Items : x = <<"op", n>> /\ Fits(x)
    BY <1>7, NodeFields, ItemTypes DEF Fits
  <2>4. Served(Q.tail[Place(n)] \cup Captured(Q, n), x)
    BY <2>3, Fed
  <2> HIDE DEF Q
  <2>5. Captured(Q, n) \subseteq Items
    BY <1>3, CapturedFacts
  <2>6. /\ C \in Runs /\ Aside(Q, C) /\ C.tail[Place(n)] = Q.tail[Place(n)] \cup Captured(Q, n)
        /\ \A t \in Places : t # Place(n) => C.tail[t] = Q.tail[t]
    <3> DEFINE t1 == [Q.tail EXCEPT ![Place(n)] = @ \cup Captured(Q, n)]
    <3>1. C = [Q EXCEPT !.tail = t1]
      BY <1>3, <2>2 DEF Runs
    <3>2. Q.tail \in [Places -> SUBSET Items]
      BY <1>3 DEF Runs
    <3>3. /\ t1 \in [Places -> SUBSET Items]
          /\ t1[Place(n)] = Q.tail[Place(n)] \cup Captured(Q, n)
          /\ \A t \in Places : t # Place(n) => t1[t] = Q.tail[t]
      BY <2>2, <2>5, <3>2
    <3> HIDE DEF t1, C
    <3>4. C \in Runs /\ C.tail = t1 /\ Aside(Q, C)
      BY <1>3, <3>1, <3>3 DEF Runs, Aside
    <3> QED BY <3>3, <3>4
  <2> HIDE DEF C
  <2>7. Grows(Q, C)
    BY <2>6 DEF Grows
  <2>8. Sound(C)
    BY <1>3, <2>6, <2>7, AsideSound
  <2>9. Served(C.tail[Place(n)], x)
    BY <2>3, <2>4, <2>6
  <2>16. Allowed(C, C.tail[Place(n)], x)
    <3>1. RanIn(C, r) /\ Ready(Q.tail[Place(n)], r)
      BY <1>2, <1>4, <2>6, PoolFacts DEF Inside, RanIn, Aside
    <3>2. Ready(C.tail[Place(n)], r)
      BY <2>6, <3>1, ReadyGrows
    <3> QED BY <1>2, <2>3, <2>8, <3>1, <3>2, NodeAllowed
  <2>10. Sound(Enqueue(C, Place(n), x)) /\ Grows(C, Enqueue(C, Place(n), x))
    BY <2>2, <2>3, <2>8, <2>9, <2>16, EnqueueSound
  <2>11. /\ Enqueue(C, Place(n), x).tail[Place(n)] = C.tail[Place(n)] \cup {x}
         /\ Enqueue(C, Place(n), x).ran = C.ran \cup {x}
         /\ Enqueue(C, Place(n), x).tail[Comm] = C.tail[Comm]
    BY <2>2, <2>6, EnqueueFields, PlaceNames
  <2>12. E = Enqueue(C, Place(n), x)
    BY <2>3
  <2> HIDE DEF E
  <2>13. Grew(R, E)
    <3>1. Grows(R, E)
      BY <1>3, <2>7, <2>10, <2>12, GrowsTrans DEF Kept, Grew
    <3>2. E.tail[Comm] = R.tail[Comm]
      BY <1>3, <2>2, <2>6, <2>11, <2>12, PlaceNames DEF Kept, Grew
    <3> QED BY <2>10, <2>12, <3>1, <3>2 DEF Grew
  <2>17. RanIn(E, r)
    BY <1>2, <1>4, <2>3, <2>6, <2>11, <2>12 DEF Inside, RanIn, Aside
  <2>14. Inside(E, r)
    <3>1. Settled(E, Collectives(Nodes(r)))
      BY <1>1, <2>13, GrewFacts DEF Inside
    <3> QED BY <1>2, <2>13, <2>17, <3>1, InsideGrows DEF Grew
  <2>15. <<"op", n>> \in E.tail[Place(n)]
    BY <2>3, <2>11, <2>12
  <2> QED BY <2>1, <2>13, <2>14, <2>15 DEF NodeDone, Grew
<1> QED BY <1>2, <1>5, <1>6, <1>7, NodeFields DEF IsGraph

\* Queueing a node gives streams of their type, whatever they held.
LEMMA GraphNodeType ==
  ASSUME Program, Cut, NEW n \in 1..Len(prog), NEW R \in Runs
  PROVE  GraphNode(R, n) \in Runs
<1>1. ASSUME NEW m PROVE GraphWait(R, region[n], m) \in Runs
  <2>1. CASE m \in Collectives(Nodes(region[n])) \ R.waited
    <3>1. m \in 1..Len(prog) /\ <<"comm", m>> \in Items /\ m \in Nat
      BY <2>1, RegionFacts, NodeFields, ItemTypes DEF Collectives
    <3> DEFINE A == Await(R, MaxMain, <<"comm", m>>)
    <3>2. A \in Runs
      BY <3>1, AwaitFields, PlaceNames
    <3>3. GraphWait(R, region[n], m) = [A EXCEPT !.waited = @ \cup {m}]
      BY <2>1 DEF GraphWait
    <3> HIDE DEF A
    <3> QED BY <3>1, <3>2, <3>3 DEF Runs
  <2>2. CASE ~(m \in Collectives(Nodes(region[n])) \ R.waited)
    BY <2>2 DEF GraphWait
  <2> QED BY <2>1, <2>2
<1> DEFINE Q == GraphWait(R, region[n], Src[prog[n].arg])
<1>2. Q \in Runs
  BY <1>1
<1>3. \A w \in {"op", "comm"} : <<w, n>> \in Items
  BY NodeFields, ItemTypes
<1>4. CASE prog[n].kind = "wait"
  BY <1>1, <1>4 DEF GraphNode
<1>5. CASE prog[n].kind = "coll"
  <2>1. GraphNode(R, n) = Enqueue(Order(Q, Comm, MaxMain), Comm, <<"comm", n>>)
    BY <1>5 DEF GraphNode
  <2> HIDE DEF Q
  <2>2. Order(Q, Comm, MaxMain) \in Runs
    BY <1>2, OrderFields, PlaceNames
  <2> QED BY <1>3, <2>1, <2>2, EnqueueFields, PlaceNames
<1>6. CASE prog[n].kind \in {"op", "stream"}
  <2> DEFINE C == [Q EXCEPT !.tail[Place(n)] = @ \cup Captured(Q, n)]
  <2>1. GraphNode(R, n) = Enqueue(C, Place(n), <<"op", n>>)
    BY <1>6 DEF GraphNode
  <2>2. Captured(Q, n) \subseteq Items
    BY <1>2, CapturedFacts
  <2> HIDE DEF Q
  <2>3. Place(n) \in Places
    BY PlaceFacts
  <2>4. C \in Runs
    BY <1>2, <2>2, <2>3 DEF Runs
  <2> HIDE DEF C
  <2> QED BY <1>3, <2>1, <2>3, <2>4, EnqueueFields
<1> QED BY <1>4, <1>5, <1>6, NodeFields

\* Queueing the first nodes of a region.
LEMMA QueueAllFacts ==
  ASSUME Program, Cut, NEW r, IsGraph(r), NEW R, Inside(R, r),
         NEW S \in SUBSET Nodes(r), \A m \in Nodes(r), n \in S : m < n => m \in S
  PROVE  LET Z == QueueAll(R, S) IN
         /\ Inside(Z, r) /\ Grows(R, Z)
         /\ \A m \in S : prog[m].kind = "op" => <<"op", m>> \in Z.tail[Place(m)]
         /\ Collectives(Nodes(r)) = {} => Z.tail[Comm] = R.tail[Comm]
<1> DEFINE First(s) == \A m \in Nodes(r), n \in s : m < n => m \in s
           Good(Z, s) == /\ Inside(Z, r) /\ Grows(R, Z)
                         /\ \A m \in s : prog[m].kind = "op" => <<"op", m>> \in Z.tail[Place(m)]
                         /\ Collectives(Nodes(r)) = {} => Z.tail[Comm] = R.tail[Comm]
<1>1. /\ S \in SUBSET (1..Len(prog)) /\ Len(prog) \in Nat
      /\ R \in Runs /\ \A m \in Nodes(r) : m \in 1..Len(prog) /\ region[m] = r
  BY RegionFacts, NodeFields DEF Inside, Sound
<1>2. \A Q \in Runs, m \in S : GraphNode(Q, m) \in Runs
  BY <1>1, GraphNodeType
<1>3. GraphNodeStays(S, Runs, R)
  BY <1>1, <1>2 DEF GraphNodeStays
<1>4. PICK it : GraphNodeTook(it, S, Runs, R)
  BY <1>3, GraphNodeTurns
<1>5. /\ it[{}] = R /\ QueueAll(R, S) = it[S]
      /\ \A s \in SUBSET S : s # {} => it[s] = GraphNode(it[s \ {Max(s)}], Max(s))
  BY <1>4 DEF GraphNodeTook
<1> DEFINE W == {s \in SUBSET S : First(s) => Good(it[s], s)}
<1>6. {} \in W
  <2>1. Good(it[{}], {})
    BY <1>5 DEF Grows
  <2> QED BY <2>1
<1>7. ASSUME NEW s \in SUBSET S, s # {}, s \ {Max(s)} \in W PROVE s \in W
  <2> SUFFICES ASSUME First(s) PROVE Good(it[s], s)
    OBVIOUS
  <2> DEFINE n == Max(s)
             t == s \ {n}
             Q == it[t]
  <2>1. n \in s /\ \A y \in s : n >= y
    BY <1>1, <1>7, HasMax
  <2>2. n \in Nodes(r) /\ n \in 1..Len(prog) /\ region[n] = r
    BY <1>1, <2>1
  <2>3. \A m \in s : m \in Nat
    BY <1>1
  <2>4. First(t)
    BY <2>1, <2>3
  <2>5. Good(Q, t)
    BY <1>7, <2>4
  <2>6. Queued(Q, r, n)
    <3>1. \A m \in Nodes(r) : m < n => m \in t
      BY <1>1, <2>1, <2>2
    <3> QED BY <2>5, <3>1 DEF Queued
  <2>7. it[s] = GraphNode(Q, n)
    BY <1>5, <1>7
  <2> HIDE DEF n, Q
  <2>8. NodeDone(Q, it[s], r, n)
    BY <2>2, <2>5, <2>6, <2>7, NodeStep
  <2>9. Inside(it[s], r) /\ Grows(R, it[s])
    BY <2>5, <2>8, GrowsTrans DEF NodeDone
  <2>10. ASSUME NEW m \in s, prog[m].kind = "op" PROVE <<"op", m>> \in it[s].tail[Place(m)]
    <3>1. CASE m = n
      BY <2>8, <2>10, <3>1 DEF NodeDone
    <3>2. CASE m # n
      <4>1. <<"op", m>> \in Q.tail[Place(m)] /\ Place(m) \in Places
        BY <1>1, <2>5, <2>10, <3>2, PlaceFacts DEF n
      <4> QED BY <2>8, <4>1 DEF NodeDone, Grows
    <3> QED BY <3>1, <3>2
  <2>11. Collectives(Nodes(r)) = {} => it[s].tail[Comm] = R.tail[Comm]
    BY <2>5, <2>8 DEF NodeDone
  <2> QED BY <2>9, <2>10, <2>11
<1> HIDE DEF W
<1>8. S \in W
  <2>1. S \in SUBSET (1..Len(prog)) /\ Len(prog) \in Nat
    BY <1>1
  <2>2. \A s \in SUBSET S : s # {} /\ s \ {Max(s)} \in W => s \in W
    BY <1>7
  <2>3. \A s \in SUBSET S : s \in W
    BY <1>6, <2>1, <2>2, Climbs
  <2> QED BY <2>3
<1>9. Good(it[S], S)
  BY <1>8 DEF W
<1> QED BY <1>5, <1>9

\* At its end a graph waits for every collective of its region.
LEMMA FinishFacts ==
  ASSUME Program, Cut, NEW r, NEW R, Sound(R)
  PROVE  /\ Kept(R, Finish(R, r))
         /\ \A n \in Collectives(Nodes(r)) : <<"comm", n>> \in Finish(R, r).tail[MaxMain]
<1> DEFINE S == Collectives(Nodes(r))
           V == {Q \in Runs : Kept(R, Q)}
<1>1. S \in SUBSET (1..Len(prog)) /\ Len(prog) \in Nat
  BY RegionFacts, NodeFields DEF Collectives
<1>2. R \in V
  BY StepsKeep DEF Sound
<1>3. ASSUME NEW Q \in V, NEW m \in S
      PROVE  /\ GraphWait(Q, r, m) \in V /\ Kept(Q, GraphWait(Q, r, m))
             /\ <<"comm", m>> \in GraphWait(Q, r, m).tail[MaxMain]
  <2>1. Sound(Q) /\ Kept(R, Q)
    BY DEF Kept, Grew
  <2> HIDE DEF V
  <2>2. /\ Kept(Q, GraphWait(Q, r, m))
        /\ <<"comm", m>> \in GraphWait(Q, r, m).tail[MaxMain]
    BY <2>1, GraphWaitKeeps
  <2>3. Kept(R, GraphWait(Q, r, m))
    BY <2>1, <2>2, KeptFacts
  <2> QED BY <2>2, <2>3 DEF V, Kept, Grew, Sound
<1>4. GraphWaitStays(S, V, R, r)
  <2> HIDE DEF S, V
  <2> QED BY <1>1, <1>2, <1>3 DEF GraphWaitStays
<1> HIDE DEF V
<1>5. PICK it : GraphWaitTook(it, S, V, R, r)
  BY <1>4, GraphWaitTurns
<1>6. /\ it \in [SUBSET S -> V] /\ it[{}] = R /\ WaitAll(R, r, S) = it[S]
      /\ \A s \in SUBSET S : s # {} => it[s] = GraphWait(it[s \ {Max(s)}], r, Max(s))
  BY <1>5 DEF GraphWaitTook
<1>7. Finish(R, r) = it[S]
  BY <1>6 DEF Finish, WaitAll
<1> HIDE DEF S
<1> DEFINE W == {s \in SUBSET S : \A n \in s : <<"comm", n>> \in it[s].tail[MaxMain]}
<1>8. {} \in W
  OBVIOUS
<1>9. ASSUME NEW s \in SUBSET S, s # {}, s \ {Max(s)} \in W PROVE s \in W
  <2> DEFINE n == Max(s)
             Q == it[s \ {n}]
  <2>1. n \in s
    BY <1>1, <1>9, HasMax
  <2>2. Q \in V /\ n \in S /\ it[s] = GraphWait(Q, r, n)
    BY <1>6, <1>9, <2>1
  <2>3. \A m \in s \ {n} : <<"comm", m>> \in Q.tail[MaxMain]
    BY <1>9
  <2> HIDE DEF n, Q
  <2>4. Grows(Q, it[s]) /\ <<"comm", n>> \in it[s].tail[MaxMain]
    BY <1>3, <2>2 DEF Kept, Grew
  <2>5. \A m \in s : <<"comm", m>> \in it[s].tail[MaxMain]
    BY <2>3, <2>4, PlaceNames DEF Grows
  <2> QED BY <2>5
<1> HIDE DEF W
<1>10. \A s \in SUBSET S : s \in W
  BY <1>1, <1>8, <1>9, Climbs
<1>11. S \in W
  BY <1>10
<1> QED BY <1>6, <1>7, <1>11 DEF S, V, W

\* Leaving a region: MAX's main stream comes after the region's.
LEMMA ExportFacts ==
  ASSUME Program, Cut, NEW r, Nodes(r) # {}, NEW R, Sound(R)
  PROVE  /\ Kept(R, Export(R, r))
         /\ \A p \in Pool(r) \cup {MaxMain} : R.tail[p] \subseteq Export(R, r).tail[MaxMain]
         /\ \A t \in Active(r) : Export(R, r).tail[MaxMain] \subseteq Export(R, r).tail[t]
<1> DEFINE P == Pool(r) \cup {MaxMain}
           Joined == Gather(R, MaxMain, P)
           E == OrderAll(Joined, Active(r), MaxMain)
<1>1. Export(R, r) = E
  BY DEF Export
<1>2. P \in SUBSET Places /\ MaxMain \in Places \ {Comm} /\ Comm \notin Active(r) /\ R \in Runs
  BY PoolFacts, ActiveFacts, PlaceNames DEF Sound
<1> HIDE DEF P
<1>3. Kept(R, Joined)
  BY <1>2, StepsKeep
<1>4. Joined.tail[MaxMain] = R.tail[MaxMain] \cup UNION {R.tail[p] : p \in P}
  BY <1>2, GatherFields
<1>5. \A p \in P : R.tail[p] \subseteq Joined.tail[MaxMain]
  <2> HIDE DEF Joined
  <2> QED BY <1>4
<1>6. Sound(Joined)
  BY <1>3 DEF Kept, Grew
<1> HIDE DEF Joined
<1>7. Kept(Joined, E)
  BY <1>2, <1>6, StepsKeep
<1>8. Kept(R, E)
  BY <1>3, <1>7, KeptFacts
<1>9. Joined.tail[MaxMain] \subseteq E.tail[MaxMain]
  BY <1>7, PlaceNames DEF Kept, Grew, Grows
<1>10. \A t \in Active(r) : E.tail[MaxMain] \subseteq E.tail[t]
  <2>1. Joined \in Runs /\ Active(r) \subseteq Places /\ MaxMain \notin Active(r)
    BY <1>6, ActiveFacts, PlaceNames DEF Sound
  <2>2. \A t \in Places \cap Active(r) : E.tail[t] = Joined.tail[t] \cup Joined.tail[MaxMain]
    BY <1>2, <2>1, OrderAllFields
  <2>3. E.tail[MaxMain] = Joined.tail[MaxMain]
    BY <1>2, <2>1, OrderAllFields
  <2> HIDE DEF E
  <2> QED BY <2>1, <2>2, <2>3
<1> HIDE DEF E
<1> QED BY <1>1, <1>5, <1>8, <1>9, <1>10 DEF P

\* A region with one context has it as its current stream.
LEMMA ActiveAlone ==
  ASSUME Program, Cut, NEW r, ~(Len(Contexts(r)) > 1)
  PROVE  Active(r) = {Current(r)}
<1>1. Contexts(r) \in Seq(User)
  <2>1. Nodes(r) \in SUBSET (1..Len(prog))
    BY RegionFacts
  <2> QED BY <2>1, ContextFacts DEF Contexts
<1> DEFINE c == Contexts(r)
<1> HIDE DEF c
<1>0. c \in Seq(User) /\ ~(Len(c) > 1)
  BY <1>1 DEF c
<1>2. Len(c) \in Nat /\ DOMAIN c = 1..Len(c) /\ (Len(c) = 0 \/ Len(c) = 1)
  <2>1. Len(c) \in Nat /\ DOMAIN c = 1..Len(c)
    BY <1>0
  <2> QED BY <1>0, <2>1
<1>3. CASE Len(c) = 0
  <2>1. ToSet(c) = {}
    BY <1>2, <1>3 DEF ToSet
  <2> QED BY <2>1 DEF Active, c
<1>4. CASE Len(c) = 1
  <2>1. ToSet(c) = {c[1]}
    BY <1>2, <1>4 DEF ToSet
  <2>2. Current(r) = c[1]
    BY <1>4 DEF Current, c
  <2> QED BY <2>1, <2>2 DEF Active, c
<1> QED BY <1>2, <1>3, <1>4

\* Once the graph has run, its epilogue may copy the mutated inputs back.
LEMMA CopyAllowed ==
  ASSUME Program, Cut, NEW r \in Nat, NEW n \in Flagged(Nodes(r), "mutates"),
         NEW R, Sound(R), RanIn(R, r), NEW T, Had(T, r + 1), IsGraph(r), Ready(T, r)
  PROVE  Fits(<<"copy", n>>) /\ Allowed(R, T, <<"copy", n>>)
<1>1. n \in Nodes(r) /\ prog[n].kind = "op" /\ prog[n].flag = "mutates" /\ n \in 1..Len(prog)
      /\ region[n] = r
  BY RegionFacts DEF Flagged
<1>2. PICK x \in Items : x = <<"copy", n>>
  BY <1>1, NodeFields, ItemTypes
<1>3. Fits(x)
  BY <1>1, <1>2 DEF Fits
<1>4. x[1] = "copy" /\ x[2] = n
  BY <1>2
<1>5. ASSUME NEW z \in R.ran PROVE (MustPrecede(z, x) => z \in T) /\ ~MustPrecede(x, z)
  <2>1. Fits(z) /\ (z[2] \in Before(r) \/ (z[2] \in Nodes(r) /\ z[1] # "copy"))
    BY DEF Sound, RanIn
  <2>2. z[2] \in 1..Len(prog) /\ region[z[2]] \in Nat /\ region[z[2]] <= r
        /\ (region[z[2]] < r <=> z[2] \in Before(r)) /\ region[z[2]] < r + 1
    <3>1. z[2] \in 1..Len(prog)
      BY <2>1 DEF Fits
    <3>2. region[z[2]] \in Nat /\ (z[2] \in Nodes(r) => region[z[2]] = r)
      BY <3>1, RegionFacts
    <3>3. region[z[2]] < r <=> z[2] \in Before(r)
      BY <3>1 DEF Before
    <3>4. region[z[2]] <= r
      BY <2>1, <3>2, <3>3
    <3> QED BY <3>1, <3>2, <3>3, <3>4
  <2>3. ~MustPrecede(x, z)
    <3> SUFFICES ASSUME MustPrecede(x, z) PROVE FALSE
      OBVIOUS
    <3>1. region[n] < region[z[2]]
      BY <1>3, <1>4, <2>1, MustPrecedeRegions
    <3> QED BY <1>1, <2>2, <3>1
  <2>4. ASSUME MustPrecede(z, x) PROVE z \in T
    <3>3. z = <<z[1], z[2]>> /\ z[1] \in {"op", "comm", "stage", "copy"}
      BY <2>1 DEF Fits, Items
    <3>4. CASE z[1] = "copy"
      <4>1. <<"op", z[2]>> \in Eager.past[NodeItem(n)]
        BY <1>3, <1>4, <2>1, <2>4, <3>4, MustPrecedeRegions
      <4>2. z[2] \in Came(r)
        BY <1>1, <2>1, <3>4, <4>1, EagerCame
      <4>3. Carried(T, z[2])
        BY <4>2 DEF Ready
      <4> QED BY <2>1, <3>3, <3>4, <4>3 DEF Carried, Fits
    <3>5. CASE z[1] # "copy"
      <4>1. Has(T, z[2])
        BY <2>2 DEF Had
      <4> QED BY <2>1, <3>3, <3>5, <4>1 DEF Has, Fits
    <3> QED BY <3>4, <3>5
  <2> QED BY <2>3, <2>4
<1> QED BY <1>2, <1>3, <1>5 DEF Allowed

\* What the streams hold once a graph has run, before its epilogue.
LEMMA ExecutedFacts ==
  ASSUME Program, Cut, StagedInputs, NEW r \in Nat, IsGraph(r), Outside(run, r)
  PROVE  LET Left == Export(Executed(r), r) IN
         /\ Sound(Left) /\ Settled(Left, {}) /\ RanIn(Left, r) /\ Grows(run, Left)
         /\ Had(Left.tail[MaxMain], r + 1) /\ Ready(Left.tail[MaxMain], r)
         /\ \A t \in Active(r) : Left.tail[MaxMain] \subseteq Left.tail[t]
<1> DEFINE E == Entered(r)
           Q == QueueAll(E, Nodes(r))
           F == Finish(Q, r)
           Left == Export(F, r)
<1>0. Nodes(r) # {} /\ Nodes(r) \in SUBSET Nodes(r)
  BY DEF IsGraph
<1>1. Executed(r) = F
  BY DEF Executed, QueueAll
<1>2. Inside(E, r) /\ Grows(run, E)
  BY EnteredInside
<1> HIDE DEF E
<1>3. /\ Inside(Q, r) /\ Grows(E, Q)
      /\ \A m \in Nodes(r) : prog[m].kind = "op" => <<"op", m>> \in Q.tail[Place(m)]
  BY <1>0, <1>2, QueueAllFacts
<1>4. Sound(Q)
  BY <1>3 DEF Inside
<1> HIDE DEF Q
<1>5. /\ Kept(Q, F)
      /\ \A n \in Collectives(Nodes(r)) : <<"comm", n>> \in F.tail[MaxMain]
  BY <1>4, FinishFacts
<1>6. Sound(F) /\ Inside(F, r)
  BY <1>0, <1>3, <1>5, InsideKept DEF Kept, Grew
<1> HIDE DEF F
<1>7. Settled(F, {})
  BY <1>5, <1>6 DEF Inside, Settled
<1>8. /\ Kept(F, Left)
      /\ \A p \in Pool(r) \cup {MaxMain} : F.tail[p] \subseteq Left.tail[MaxMain]
      /\ \A t \in Active(r) : Left.tail[MaxMain] \subseteq Left.tail[t]
  BY <1>0, <1>6, ExportFacts
<1> HIDE DEF Left
<1>9. Sound(Left) /\ Settled(Left, {}) /\ RanIn(Left, r)
  BY <1>6, <1>7, <1>8, KeptFacts DEF Kept, Grew, Inside, RanIn
<1>10. Grows(run, Left)
  BY <1>2, <1>3, <1>5, <1>8, GrowsTrans DEF Kept, Grew
<1>11. F.tail[MaxMain] \subseteq Left.tail[MaxMain]
  BY <1>8
<1>12. Ready(Left.tail[MaxMain], r)
  <2>1. Ready(F.tail[MaxMain], r)
    BY <1>6 DEF Inside
  <2> QED BY <2>1, <1>11, ReadyGrows
<1>13. ASSUME NEW n \in Nodes(r) PROVE Has(Left.tail[MaxMain], n)
  <2>1. ASSUME prog[n].kind = "op" PROVE <<"op", n>> \in Left.tail[MaxMain]
    <3>1. Place(n) \in Pool(r) \cup {MaxMain} /\ Place(n) \in Places
      BY <1>0, PoolFacts, PlaceFacts, RegionFacts
    <3>2. <<"op", n>> \in F.tail[Place(n)]
      BY <1>3, <1>5, <2>1, <3>1 DEF Kept, Grew, Grows
    <3> QED BY <1>8, <3>1, <3>2
  <2>2. ASSUME prog[n].kind = "coll" PROVE <<"comm", n>> \in Left.tail[MaxMain]
    <3>1. n \in Collectives(Nodes(r))
      BY <2>2 DEF Collectives
    <3> QED BY <1>5, <1>11, <3>1
  <2>3. ASSUME prog[n].kind = "op", prog[n].flag = "staged"
        PROVE  <<"stage", n>> \in Left.tail[MaxMain]
    <3>1. n \in Flagged(Nodes(r), "staged")
      BY <2>3 DEF Flagged
    <3> QED BY <1>6, <1>11, <3>1 DEF Inside
  <2> QED BY <1>12, <2>1, <2>2, <2>3 DEF Has, Ready
<1>14. Had(Left.tail[MaxMain], r + 1)
  <2>1. ASSUME NEW n \in 1..Len(prog), region[n] < r + 1 PROVE Has(Left.tail[MaxMain], n)
    <3>1. region[n] < r \/ n \in Nodes(r)
      BY <2>1, RegionFacts
    <3> QED BY <1>12, <1>13, <3>1 DEF Ready, Had
  <2> QED BY <2>1 DEF Had
<1> QED BY <1>1, <1>8, <1>9, <1>10, <1>12, <1>14 DEF Left

\* The streams after a region ran.
After(r) == Publish(Epilogue(Export(Executed(r), r), r), r)

\* A region that ran leaves what the next one needs.
LEMMA RegionRuns ==
  ASSUME Program, Cut, StagedInputs, NEW r \in Nat, IsGraph(r), Outside(run, r)
  PROVE  Outside(After(r), r + 1)
<1> DEFINE Left == Export(Executed(r), r)
           S == Flagged(Nodes(r), "mutates")
           c == Current(r)
           Copied == CopyAll(Left, c, "copy", S)
           Z == Publish(Copied, r)
<1>1. After(r) = Z
  BY DEF After, Epilogue, CopyAll
<1>2. /\ Sound(Left) /\ Settled(Left, {}) /\ RanIn(Left, r) /\ Grows(run, Left)
      /\ Had(Left.tail[MaxMain], r + 1) /\ Ready(Left.tail[MaxMain], r)
      /\ \A t \in Active(r) : Left.tail[MaxMain] \subseteq Left.tail[t]
  BY ExecutedFacts
<1>3. c \in Active(r) /\ c \in User /\ c \in Places /\ c # MaxMain /\ c # Comm
      /\ Active(r) \subseteq User /\ User \subseteq Places /\ MaxMain \in Places
      /\ Comm \notin Active(r) /\ Comm \in Places /\ MaxMain \notin User
  BY ActiveFacts, PlaceNames
<1>4. S \in SUBSET Nodes(r)
  BY DEF Flagged
<1> HIDE DEF Left, c
<1>5. Had(Left.tail[c], r + 1) /\ Ready(Left.tail[c], r)
  BY <1>2, <1>3, ReadyGrows
<1>6. \A k \in S : Fits(<<"copy", k>>) /\ Allowed(Left, Left.tail[c], <<"copy", k>>)
  BY <1>2, <1>5, CopyAllowed
<1>7. \A k \in S : k \in Nodes(r) /\ k \in 1..Len(prog) /\ region[k] = r
  BY <1>4, RegionFacts
<1>17. \A m \in Nodes(r) : prog[m].kind = "op" /\ prog[m].flag = "mutates" => m \in S
  BY DEF Flagged
<1> HIDE DEF S
<1>8. /\ Sound(Copied) /\ Grows(Left, Copied)
      /\ \A t \in Places : t # c => Copied.tail[t] = Left.tail[t]
      /\ Copied.ran \subseteq Left.ran \cup {<<"copy", k>> : k \in S}
      /\ \A k \in S : <<"copy", k>> \in Copied.tail[c]
  BY <1>2, <1>3, <1>4, <1>6, CopiesQueued
<1> HIDE DEF Copied
<1>9. Grew(Left, Copied)
  BY <1>3, <1>8 DEF Grew
<1>10. Kept(Copied, Z)
  <2>1. CASE Len(Contexts(r)) > 1
    <3>1. Z = OrderAll(Copied, Active(r), c)
      BY <2>1 DEF Publish, c
    <3>2. \A dsts : \A src \in Places : Comm \notin dsts => Kept(Copied, OrderAll(Copied, dsts, src))
      BY <1>8, StepsKeep
    <3> QED BY <1>3, <3>1, <3>2
  <2>2. CASE ~(Len(Contexts(r)) > 1)
    <3>1. Z = Copied
      BY <2>2 DEF Publish
    <3> QED BY <1>8, <3>1, StepsKeep
  <2> QED BY <2>1, <2>2
<1>11. \A t \in Active(r) : Copied.tail[c] \subseteq Z.tail[t]
  <2>1. CASE Len(Contexts(r)) > 1
    <3>1. Z = OrderAll(Copied, Active(r), c)
      BY <2>1 DEF Publish, c
    <3>2. Copied \in Runs
      BY <1>8 DEF Sound
    <3>3. \A t \in Places \cap Active(r) :
            OrderAll(Copied, Active(r), c).tail[t] = Copied.tail[t] \cup Copied.tail[c]
      BY <1>3, <3>2, OrderAllFields
    <3> HIDE DEF Z
    <3> QED BY <1>3, <3>1, <3>3
  <2>2. CASE ~(Len(Contexts(r)) > 1)
    <3>1. Z = Copied
      BY <2>2 DEF Publish
    <3>2. Active(r) = {c}
      BY <2>2, ActiveAlone DEF c
    <3> QED BY <3>1, <3>2
  <2> QED BY <2>1, <2>2
<1> HIDE DEF Z
<1>12. Sound(Z) /\ Grew(Left, Z) /\ Grows(Left, Z) /\ Z.ran = Copied.ran
  <2>1. Grew(Copied, Z) /\ Z.ran = Copied.ran
    BY <1>10 DEF Kept
  <2>2. Grew(Left, Z)
    BY <1>2, <1>9, <2>1, GrewFacts
  <2> QED BY <2>1, <2>2 DEF Grew
<1>13. Settled(Z, {}) /\ Had(Z.tail[MaxMain], r + 1)
  BY <1>2, <1>12, GrewFacts
<1>14. RanBelow(Z, r + 1)
  <2> SUFFICES ASSUME NEW y \in Z.ran PROVE y[2] \in Before(r + 1)
    BY DEF RanBelow
  <2>1. y \in Left.ran \/ \E k \in S : y = <<"copy", k>>
    BY <1>8, <1>12
  <2>2. y[2] \in Before(r) \/ y[2] \in Nodes(r)
    BY <1>2, <1>7, <2>1 DEF RanIn
  <2>3. \A n \in 1..Len(prog) : region[n] \in Nat
    BY RegionFacts
  <2>4. \A n \in Nodes(r) : n \in 1..Len(prog) /\ region[n] = r
    BY RegionFacts
  <2> QED BY <2>2, <2>3, <2>4 DEF Before
<1>15. Follows(Z, r + 1)
  <2> SUFFICES ASSUME NEW t \in User, NEW m \in Before(r + 1),
                      <<"op", m>> \in EagerBefore(r + 1).tail[t]
               PROVE  Carried(Z.tail[t], m)
    BY DEF Follows
  <2>1. m \in 1..Len(prog)
    BY DEF Before
  <2>2. /\ t \in Active(r) => m \in Nodes(r) \/ m \in Came(r)
        /\ t \notin Active(r) => m \in Before(r) /\ <<"op", m>> \in EagerBefore(r).tail[t]
    BY <2>1, EagerAfterGraph
  <2>3. t \in Places
    BY <1>3
  <2>4. CASE t \notin Active(r)
    <3>1. Carried(run.tail[t], m)
      BY <2>2, <2>4 DEF Outside, Follows
    <3>2. run.tail[t] \subseteq Z.tail[t]
      BY <1>2, <1>12, <2>3 DEF Grows
    <3> QED BY <3>1, <3>2, ReadyGrows
  <2>5. CASE t \in Active(r) /\ m \in Came(r)
    <3>1. Carried(Left.tail[MaxMain], m)
      BY <1>2, <2>5 DEF Ready
    <3>2. Left.tail[MaxMain] \subseteq Z.tail[t]
      BY <1>2, <1>12, <2>3, <2>5 DEF Grows
    <3> QED BY <3>1, <3>2, ReadyGrows
  <2>6. CASE t \in Active(r) /\ m \in Nodes(r)
    <3>1. Has(Left.tail[MaxMain], m)
      <4>1. region[m] < r + 1
        BY <2>6, RegionFacts
      <4> QED BY <1>2, <2>1, <4>1 DEF Had
    <3>2. Left.tail[MaxMain] \subseteq Z.tail[t]
      BY <1>2, <1>12, <2>3, <2>6 DEF Grows
    <3>3. m \in S => <<"copy", m>> \in Z.tail[t]
      BY <1>8, <1>11, <2>6
    <3> QED BY <1>17, <2>6, <3>1, <3>2, <3>3 DEF Carried, Has
  <2> QED BY <2>2, <2>4, <2>5, <2>6
<1>16. Outside(Z, r + 1)
  BY <1>12, <1>13, <1>14, <1>15 DEF Outside
<1> QED BY <1>1, <1>16

\* A graph that raises has what it queued in order, and leaves the process
\* group's stream alone if its region has no collective.
LEMMA RegionRaises ==
  ASSUME Program, Cut, StagedInputs, NEW r \in Nat, IsGraph(r), Outside(run, r),
         NEW bad \in Nodes(r)
  PROVE  LET Left == Export(QueueAll(Entered(r), {n \in Nodes(r) : n < bad}), r) IN
         Sound(Left) /\ (Collectives(Nodes(r)) = {} => Settled(Left, {}))
<1> DEFINE S == {n \in Nodes(r) : n < bad}
           E == Entered(r)
           Q == QueueAll(E, S)
           Left == Export(Q, r)
<1>1. Inside(E, r) /\ Settled(E, {})
  BY EnteredInside
<1>2. Nodes(r) \in SUBSET (1..Len(prog)) /\ Len(prog) \in Nat
  BY RegionFacts, NodeFields
<1>3. S \in SUBSET Nodes(r) /\ \A m \in Nodes(r), n \in S : m < n => m \in S
  <2>1. ASSUME NEW m \in Nodes(r), NEW n \in S, m < n PROVE m \in S
    <3>1. m \in Nat /\ n \in Nat /\ bad \in Nat /\ n < bad
      BY <1>2
    <3> QED BY <2>1, <3>1
  <2> QED BY <2>1
<1> HIDE DEF S, E
<1>4. /\ Inside(Q, r) /\ Grows(E, Q)
      /\ Collectives(Nodes(r)) = {} => Q.tail[Comm] = E.tail[Comm]
  BY <1>1, <1>3, QueueAllFacts
<1> HIDE DEF Q
<1>5. Sound(Q)
  BY <1>4 DEF Inside
<1>6. Collectives(Nodes(r)) = {} => Settled(Q, {})
  BY <1>1, <1>4, PlaceNames DEF Settled, Grows
<1>7. Kept(Q, Left)
  BY <1>5, ExportFacts DEF IsGraph
<1> HIDE DEF Left
<1>8. Sound(Left) /\ (Collectives(Nodes(r)) = {} => Settled(Left, {}))
  BY <1>5, <1>6, <1>7, KeptFacts DEF Kept, Grew
<1> QED BY <1>8 DEF Left, Q, E, S

\* A stream operation is a region of its own.
LEMMA ControlAlone ==
  ASSUME Program, Cut, NEW r, Nodes(r) # {}, Control(Min(Nodes(r)))
  PROVE  Min(Nodes(r)) \in 1..Len(prog) /\ Nodes(r) = {Min(Nodes(r))}
<1> DEFINE n == Min(Nodes(r))
<1>1. Nodes(r) = {m \in 1..Len(prog) : region[m] = r} /\ Len(prog) \in Nat
  BY RegionFacts, NodeFields
<1>2. n \in Nodes(r) /\ \A m \in Nodes(r) : n <= m
  <2>1. Nodes(r) \in SUBSET Nat
    BY <1>1
  <2> QED BY <2>1, HasMin
<1> HIDE DEF n
<1>3. ASSUME NEW m \in Nodes(r), m # n PROVE FALSE
  <2>1. n \in 1..Len(prog) /\ m \in 1..Len(prog) /\ region[n] = r /\ region[m] = r /\ n <= m
    BY <1>1, <1>2
  <2>2. n + 1 \in 1..Len(prog) /\ n + 1 <= m /\ n <= n + 1 /\ (n + 1) - 1 = n
    BY <1>1, <1>3, <2>1
  <2>3. region[n] <= region[n + 1] /\ region[n + 1] <= region[m]
    BY <2>1, <2>2, RegionFacts
  <2>4. region[n] \in Nat /\ region[n + 1] \in Nat
    BY <2>1, <2>2, RegionFacts
  <2>5. Starts(n + 1)
    BY <2>2 DEF Starts, n
  <2>6. region[n + 1] = region[n] + 1
    BY <2>1, <2>2, <2>5 DEF Cut, CutBy
  <2> QED BY <2>1, <2>3, <2>4, <2>6
<1> QED BY <1>1, <1>2, <1>3 DEF n

\* Any other region holds no stream operation, and is a graph.
LEMMA GraphRegion ==
  ASSUME Program, Cut, NEW r, Nodes(r) # {}, ~Control(Min(Nodes(r)))
  PROVE  IsGraph(r)
<1> DEFINE n == Min(Nodes(r))
<1>1. Nodes(r) = {m \in 1..Len(prog) : region[m] = r} /\ Len(prog) \in Nat
  BY RegionFacts, NodeFields
<1>2. n \in Nodes(r) /\ \A m \in Nodes(r) : n <= m
  <2>1. Nodes(r) \in SUBSET Nat
    BY <1>1
  <2> QED BY <2>1, HasMin
<1>3. prog[n].kind # "stream"
  BY DEF Control
<1> HIDE DEF n
<1>4. ASSUME NEW m \in Nodes(r), prog[m].kind = "stream" PROVE FALSE
  <2>1. n \in 1..Len(prog) /\ m \in 1..Len(prog) /\ region[n] = r /\ region[m] = r /\ n < m
    <3>1. n <= m /\ n # m
      BY <1>2, <1>3, <1>4
    <3> QED BY <1>1, <1>2, <3>1
  <2>2. m - 1 \in 1..Len(prog) /\ n <= m - 1 /\ (m - 1) + 1 = m
    BY <1>1, <2>1
  <2>3. region[n] <= region[m - 1] /\ region[m - 1] \in Nat /\ region[n] \in Nat
    BY <2>1, <2>2, RegionFacts
  <2>4. Starts((m - 1) + 1)
    BY <1>4, <2>2 DEF Starts, Control
  <2>5. region[(m - 1) + 1] = region[m - 1] + 1
    BY <2>1, <2>2, <2>4 DEF Cut, CutBy
  <2> QED BY <2>1, <2>2, <2>3, <2>5
<1> QED BY <1>4 DEF IsGraph

\* A stream operation orders one torch stream after another.
LEMMA ControlRuns ==
  ASSUME Program, Cut, NEW r \in Nat, Nodes(r) # {}, Outside(run, r), Control(Min(Nodes(r)))
  PROVE  LET n == Min(Nodes(r)) IN Outside(Order(run, prog[n].s, prog[n].on), r + 1)
<1> DEFINE n == Min(Nodes(r))
           R == Order(run, prog[n].s, prog[n].on)
<1>1. n \in 1..Len(prog) /\ Nodes(r) = {n} /\ prog[n].kind = "stream"
  BY ControlAlone DEF Control
<1> HIDE DEF n
<1>2. prog[n].s \in Places \ {Comm} /\ prog[n].on \in Places
  BY <1>1, NodeFields, PlaceNames
<1>3. Sound(run)
  BY DEF Outside
<1>4. Kept(run, R)
  BY <1>2, <1>3, StepsKeep
<1> HIDE DEF R
<1>5. Outside(R, r)
  BY <1>3, <1>4, KeptFacts
<1>6. ASSUME NEW m \in 1..Len(prog), region[m] < r + 1 PROVE Has(R.tail[MaxMain], m)
  <2>1. CASE region[m] < r
    BY <1>5, <2>1 DEF Outside, Had
  <2>2. CASE m = n
    BY <1>1, <2>2 DEF Has
  <2>3. region[m] \in Nat /\ (region[m] = r => m \in Nodes(r))
    BY RegionFacts
  <2>4. region[m] < r \/ m = n
    BY <1>1, <1>6, <2>3
  <2> QED BY <2>1, <2>2, <2>4
<1>7. RanBelow(R, r + 1)
  <2>1. \A m \in Before(r) : m \in Before(r + 1)
    BY RegionFacts DEF Before
  <2> QED BY <1>5, <2>1 DEF Outside, RanBelow
<1>8. Follows(R, r + 1)
  <2> SUFFICES ASSUME NEW t \in User, NEW m \in Before(r + 1),
                      <<"op", m>> \in EagerBefore(r + 1).tail[t]
               PROVE  Carried(R.tail[t], m)
    BY DEF Follows
  <2>1. m \in 1..Len(prog)
    BY DEF Before
  <2>2. /\ EagerBefore(r + 1).tail[prog[n].s]
             = EagerBefore(r).tail[prog[n].s] \cup EagerBefore(r).tail[prog[n].on]
        /\ \A u \in User : u # prog[n].s => EagerBefore(r + 1).tail[u] = EagerBefore(r).tail[u]
        /\ m \in Before(r)
    BY <1>1, <2>1, EagerAfterControl
  <2>3. \A u \in User : <<"op", m>> \in EagerBefore(r).tail[u] => Carried(run.tail[u], m)
    BY <2>2 DEF Outside, Follows
  <2>4. run.tail[t] \subseteq R.tail[t]
    BY <1>4, PlaceNames DEF Kept, Grew, Grows
  <2>5. CASE <<"op", m>> \in EagerBefore(r).tail[t]
    BY <2>3, <2>4, <2>5, ReadyGrows
  <2>6. CASE <<"op", m>> \notin EagerBefore(r).tail[t]
    <3>1. t = prog[n].s /\ <<"op", m>> \in EagerBefore(r).tail[prog[n].on]
      BY <2>2, <2>6
    <3>2. Carried(run.tail[prog[n].on], m)
      BY <1>1, <2>3, <3>1, NodeFields
    <3>3. run.tail[prog[n].on] \subseteq R.tail[prog[n].s]
      <4>1. run \in Runs
        BY <1>3 DEF Sound
      <4>2. Order(run, prog[n].s, prog[n].on).tail[prog[n].s]
              = run.tail[prog[n].s] \cup run.tail[prog[n].on]
        <5> DEFINE s == prog[n].s
                   o == prog[n].on
        <5>1. s \in Places /\ o \in Places
          BY <1>2
        <5> HIDE DEF s, o
        <5>2. Order(run, s, o).tail[s] = run.tail[s] \cup run.tail[o]
          BY <4>1, <5>1, OrderFields
        <5> QED BY <5>2 DEF s, o
      <4> QED BY <4>2 DEF R
    <3> QED BY <3>1, <3>2, <3>3, ReadyGrows
  <2> QED BY <2>5, <2>6
<1>9. Had(R.tail[MaxMain], r + 1)
  BY <1>6 DEF Had
<1> QED BY <1>5, <1>7, <1>8, <1>9 DEF Outside, R, n

-----------------------------------------------------------------------------
(* The inductive invariant of a program traced, compiled and run.          *)

\* Before it is compiled the program has queued nothing; between two regions
\* MAX's main stream has all they did; a program that failed has let go of
\* its memory only once nothing writes it, or said so.
GraphInv ==
  /\ Program /\ StagedInputs
  /\ phase \in {"trace", "refused", "run", "done", "failed"}
  /\ at \in Nat
  /\ phase \in {"trace", "refused"} => run = NoStreams /\ at = 1
  /\ phase \in {"run", "done"} => Cut /\ Outside(run, at)
  /\ phase = "run" => Nodes(at) # {}
  /\ phase = "failed" =>
       /\ Cut /\ Sound(run)
       /\ \/ run.told
          \/ run.tail[Comm] \ {Outstanding} \subseteq run.tail[MaxMain] \cup run.host

\* The sources of a program's nodes stay as it grows.
LEMMA SrcFound == Program => Finds(Src, Len(prog))
BY SrcFinds

\* A node's source does not depend on the nodes after it.
LEMMA SourcesKept ==
  ASSUME Program, Program', Len(prog') = Len(prog) + 1,
         \A n \in 1..Len(prog) : prog'[n] = prog[n]
  PROVE  \A a \in 0..Len(prog) : Src'[a] = Src[a]
<1>1. (Program => Finds(Src, Len(prog)))'
  BY SrcFound, PTL
<1>2. Len(prog) \in Nat
  BY NodeFields
<1>3. \A n \in 0..Len(prog) :
        /\ Src[n] = IF n > 0 /\ prog[n].kind = "wait" THEN Src[prog[n].arg] ELSE n
        /\ Src'[n] = IF n > 0 /\ prog'[n].kind = "wait" THEN Src'[prog'[n].arg] ELSE n
  <2>1. \A n \in 0..Len(prog) :
          Src[n] = IF n > 0 /\ prog[n].kind = "wait" THEN Src[prog[n].arg] ELSE n
    BY SrcFinds DEF Finds
  <2>2. \A n \in 0..Len(prog') :
          Src'[n] = IF n > 0 /\ prog'[n].kind = "wait" THEN Src'[prog'[n].arg] ELSE n
    BY <1>1 DEF Finds
  <2>3. \A n \in 0..Len(prog) : n \in 0..Len(prog')
    BY <1>2
  <2> QED BY <2>1, <2>2, <2>3
<1> DEFINE Bad == {a \in 0..Len(prog) : Src'[a] # Src[a]}
<1>4. Bad = {}
  <2> SUFFICES ASSUME Bad # {} PROVE FALSE
    OBVIOUS
  <2>1. Bad \in SUBSET Nat
    BY <1>2
  <2>2. PICK n \in Bad : \A y \in Bad : n <= y
    BY <2>1, HasMin
  <2>3. n \in 0..Len(prog) /\ Src'[n] # Src[n]
    OBVIOUS
  <2> HIDE DEF Bad
  <2>4. n \in 1..Len(prog) /\ prog'[n] = prog[n] /\ prog[n].kind = "wait"
    <3>1. n > 0
      BY <1>3, <2>3
    <3>2. n \in 1..Len(prog)
      BY <1>2, <2>3, <3>1
    <3> QED BY <1>3, <2>3, <3>1, <3>2
  <2>5. prog[n].arg \in 0..Len(prog) /\ prog[n].arg < n /\ n \in Nat
    BY <2>4, NodeFields
  <2>6. Src'[prog[n].arg] = Src[prog[n].arg]
    <3>1. prog[n].arg \notin Bad
      BY <1>2, <2>2, <2>5
    <3> QED BY <2>5, <3>1 DEF Bad
  <2>7. n > 0
    BY <2>4, <2>5
  <2> QED BY <1>3, <2>3, <2>4, <2>6, <2>7
<1> QED BY <1>4

\* Tracing adds a node that reads what is there.
LEMMA Traced ==
  ASSUME Program, StagedInputs, Len(prog) < Length, NEW x \in NodeSet,
         prog' = Append(prog, x),
         x.arg \in 0..Len(prog), x.arg # 0 => prog[x.arg].kind # "stream",
         x.kind = "op" /\ x.flag = "staged" /\ Src[x.arg] # 0 => prog[Src[x.arg]].kind # "coll"
  PROVE  Program' /\ StagedInputs'
<1>1. prog \in Seq(NodeSet) /\ Len(prog) \in Nat
  BY DEF Program
<1>2. prog' \in Seq(NodeSet) /\ Len(prog') = Len(prog) + 1
      /\ prog'[Len(prog) + 1] = x /\ \A n \in 1..Len(prog) : prog'[n] = prog[n]
  BY <1>1
<1>3. Len(prog') <= Length
  BY <1>1, <1>2, GraphAssumption
<1>4. ASSUME NEW n \in 1..Len(prog')
      PROVE  /\ prog'[n].arg \in 0..(n - 1)
             /\ prog'[n].arg # 0 => prog'[prog'[n].arg].kind # "stream"
  <2>1. CASE n \in 1..Len(prog)
    <3>1. /\ prog[n].arg \in 0..(n - 1)
          /\ prog[n].arg # 0 => prog[prog[n].arg].kind # "stream"
      BY <2>1 DEF Program
    <3>2. prog[n].arg # 0 => prog[n].arg \in 1..Len(prog)
      BY <1>1, <2>1, <3>1
    <3> QED BY <1>2, <2>1, <3>1, <3>2
  <2>2. CASE n = Len(prog) + 1
    <3>1. x.arg \in 0..(n - 1) /\ (x.arg # 0 => x.arg \in 1..Len(prog))
      BY <1>1, <2>2
    <3> QED BY <1>2, <2>2, <3>1
  <2> QED BY <1>1, <1>2, <2>1, <2>2
<1>5. Program'
  BY <1>2, <1>3, <1>4 DEF Program
<1>6. \A a \in 0..Len(prog) : Src'[a] = Src[a]
  BY <1>2, <1>5, SourcesKept
<1>7. \A a \in 0..Len(prog) : Src'[a] # 0 => Src'[a] \in 1..Len(prog) /\ prog'[Src'[a]] = prog[Src[a]]
  <2>1. \A a \in 0..Len(prog) : Src[a] \in 0..a
    BY SrcFacts
  <2>2. \A a \in 0..Len(prog) : Src[a] # 0 => Src[a] \in 1..Len(prog)
    <3>1. ASSUME NEW a \in 0..Len(prog), NEW b \in 0..a, b # 0 PROVE b \in 1..Len(prog)
      BY <1>1, <3>1
    <3> QED BY <2>1, <3>1
  <2> QED BY <1>2, <1>6, <2>2
<1>8. ASSUME NEW n \in 1..Len(prog'), prog'[n].kind = "op", prog'[n].flag = "staged",
             Src'[prog'[n].arg] # 0
      PROVE  prog'[Src'[prog'[n].arg]].kind # "coll"
  <2>1. CASE n \in 1..Len(prog)
    <3>1. prog[n].arg \in 0..Len(prog) /\ prog'[n] = prog[n]
      BY <1>2, <2>1, NodeFields
    <3>2. Src[prog[n].arg] # 0 => prog[Src[prog[n].arg]].kind # "coll"
      BY <1>8, <2>1, <3>1 DEF StagedInputs
    <3> QED BY <1>6, <1>7, <1>8, <3>1, <3>2
  <2>2. CASE n = Len(prog) + 1
    BY <1>2, <1>6, <1>7, <1>8, <2>2
  <2>3. n \in 1..Len(prog) \/ n = Len(prog) + 1
    BY <1>1, <1>2
  <2> QED BY <2>1, <2>2, <2>3
<1>9. StagedInputs'
  BY <1>8 DEF StagedInputs
<1> QED BY <1>5, <1>9

\* What an operation or a wait may read is there.
LEMMA ReadsThere ==
  ASSUME Program
  PROVE  /\ \A a \in Newest : a \in 0..Len(prog) /\ (a # 0 => prog[a].kind # "stream")
         /\ \A a \in Values \cup {0} : a \in 0..Len(prog) /\ (a # 0 => prog[a].kind # "stream")
         /\ \A a \in Newest \cup Values : a \in Nat
<1>1. Len(prog) \in Nat
  BY NodeFields
<1>2. Values \cup {0} \in SUBSET (0..Len(prog)) /\ Values \cup {0} # {}
  BY <1>1 DEF Values
<1>3. Max(Values \cup {0}) \in Values \cup {0}
  BY <1>1, <1>2, HasMaxFromZero
<1>4. \A a \in Values : a \in 1..Len(prog) /\ prog[a].kind # "stream"
  BY DEF Values
<1>5. \A a \in Values \cup {0} : a \in 0..Len(prog) /\ a \in Nat /\ (a # 0 => prog[a].kind # "stream")
  BY <1>1, <1>2, <1>4
<1>6. Newest \subseteq Values \cup {0}
  BY <1>3 DEF Newest
<1> QED BY <1>5, <1>6

\* A step that leaves the program and its regions alone.
LEMMA SameProgram ==
  ASSUME UNCHANGED <<prog, training, region, stream>>
  PROVE  /\ Src' = Src /\ (Program => Program') /\ (Cut => Cut')
         /\ (StagedInputs => StagedInputs')
         /\ \A r : (Nodes(r) = {})' <=> Nodes(r) = {}
<1>1. Src' = Src
  BY DEF Src
<1>2. Program => Program'
  BY DEF Program
<1>3. Cut => Cut'
  BY DEF Cut, CutBy, Starts, Control, Collectives, NodesOf
<1>4. StagedInputs => StagedInputs'
  BY <1>1 DEF StagedInputs
<1> QED BY <1>1, <1>2, <1>3, <1>4 DEF Nodes, NodesOf

\* ... and so what the program orders.
LEMMA SameOrder ==
  ASSUME UNCHANGED <<prog, training, region, stream>>
  PROVE  Eager' = Eager /\ EagerSteps' = EagerSteps
<1>1. Src' = Src
  BY SameProgram
<1>2. Eager' = Eager
  BY <1>1 DEF Eager, InTurn, EagerNode, MapThenFoldSet, Enqueue, Await, Order
<1>3. EagerSteps' = EagerSteps
  BY <1>1 DEF EagerSteps, EagerTook, EagerAll, InTurn, EagerNode, MapThenFoldSet,
              Enqueue, Await, Order
<1> QED BY <1>2, <1>3

\* The streams, when only they and the region to run next change.
LEMMA SoundStays ==
  ASSUME UNCHANGED <<prog, training, region, stream>>, Sound(run')
  PROVE  Sound(run)'
<1>1. Src' = Src /\ Eager' = Eager
  BY SameProgram, SameOrder
<1>2. (run \in Runs)' /\ (\A m \in run.waited : <<"comm", m>> \in run.tail[MaxMain])'
  BY DEF Sound, MaxMain
<1>3. (\A y \in run.ran : Fits(y) /\ Served(run.past[y], y))'
  BY <1>1 DEF Sound, Fits, Served, Outstanding
<1>4. (\A x \in run.ran : \A y \in run.ran : MustPrecede(x, y) => x \in run.past[y])'
  <2>1. \A x \in run'.ran : \A y \in run'.ran : MustPrecede(x, y) => x \in run'.past[y]
    BY DEF Sound
  <2>2. \A x, y : MustPrecede(x, y)' <=> MustPrecede(x, y)
    BY <1>1 DEF MustPrecede, NodeItem, Touched, Written
  <2> QED BY <2>1, <2>2
<1> QED BY <1>2, <1>3, <1>4 DEF Sound

\* Between two regions a step that changes only the streams and `at`.
LEMMA OutsideStays ==
  ASSUME UNCHANGED <<prog, training, region, stream>>, Outside(run', at')
  PROVE  Outside(run, at)'
<1>1. Src' = Src /\ EagerSteps' = EagerSteps
  BY SameProgram, SameOrder
<1>2. Sound(run)'
  BY SoundStays DEF Outside
<1>3. Settled(run, {})' /\ Had(run.tail[MaxMain], at)'
  BY <1>1 DEF Outside, Settled, Had, Has, Outstanding, Comm, MaxMain
<1>4. Follows(run, at)'
  BY <1>1 DEF Outside, Follows, EagerBefore, Before, Carried
<1>5. RanBelow(run, at)'
  BY DEF Outside, RanBelow, Before
<1> QED BY <1>2, <1>3, <1>4, <1>5 DEF Outside

\* After a region the next one runs, if there is one.
LEMMA Advances ==
  ASSUME GraphInv, phase = "run", Advance, Outside(run', at + 1)
  PROVE  GraphInv'
<1>1. Program /\ StagedInputs /\ Cut /\ at \in Nat
  BY DEF GraphInv
<1>2. UNCHANGED <<prog, training, region, stream>> /\ at' = at + 1
      /\ phase' = IF Nodes(at + 1) = {} THEN "done" ELSE "run"
  BY DEF Advance
<1>3. Program' /\ StagedInputs' /\ Cut' /\ Outside(run, at)'
  BY <1>1, <1>2, SameProgram, OutsideStays
<1>4. Nodes(at)' = Nodes(at + 1)
  BY <1>2 DEF Nodes, NodesOf
<1> QED BY <1>1, <1>2, <1>3, <1>4 DEF GraphInv

\* Compiling the program.
LEMMA Compiles ==
  ASSUME GraphInv, Compile
  PROVE  GraphInv'
<1>1. Program /\ phase = "trace" /\ Len(prog) = Length /\ run = NoStreams /\ at = 1
      /\ UNCHANGED <<prog, training, at, run>>
  BY DEF Compile, GraphInv
<1>0. StagedInputs
  BY DEF GraphInv
<1>2. Program' /\ StagedInputs'
  <2>1. Src' = Src
    BY <1>1 DEF Src
  <2> QED BY <1>0, <1>1, <2>1 DEF Program, StagedInputs
<1>3. CASE phase' = "refused"
  BY <1>1, <1>2, <1>3 DEF GraphInv
<1>4. CASE phase' # "refused"
  <2> DEFINE part == Partition
             st == [n \in 1..Len(prog) |-> StreamOf(part, n)]
  <2>1. phase' = "run" /\ region' = part /\ stream' = st
    BY <1>4 DEF Compile
  <2>2. CutBy(part, st)
    BY <1>1, Compiled
  <2> HIDE DEF part, st
  <2>3. Cut'
    BY <1>1, <2>1, <2>2 DEF Cut, CutBy, Starts, Control, Collectives, NodesOf
  <2>4. part \in [1..Len(prog) -> Nat \ {0}] /\ part[1] = 1 /\ 1 \in 1..Len(prog)
    BY <1>1, <2>2, GraphAssumption DEF CutBy
  <2>5. Nodes(at)' # {}
    BY <1>1, <2>1, <2>4 DEF Nodes, NodesOf
  <2>6. Outside(run, at)'
    <3>1. Sound(run)'
      BY <1>1, NoStreamsType DEF Sound
    <3>2. Settled(run, {})'
      BY <1>1, NoStreamsType DEF Settled, Outstanding, Comm
    <3>3. Had(run.tail[MaxMain], at)'
      BY <1>1, <2>1, <2>4 DEF Had
    <3>4. Before(at)' = {}
      BY <1>1, <2>1, <2>4 DEF Before
    <3>5. Follows(run, at)' /\ RanBelow(run, at)'
      BY <1>1, <3>4, NoStreamsType DEF Follows, RanBelow
    <3> QED BY <3>1, <3>2, <3>3, <3>5 DEF Outside
  <2> QED BY <1>1, <1>2, <2>1, <2>3, <2>5, <2>6 DEF GraphInv
<1> QED BY <1>3, <1>4

\* A graph that raises.
LEMMA Fails ==
  ASSUME GraphInv, RunFails
  PROVE  GraphInv'
<1>0. Program /\ StagedInputs /\ Cut /\ at \in Nat /\ Nodes(at) # {} /\ Outside(run, at)
      /\ ~Control(Min(Nodes(at)))
  BY DEF RunFails, GraphInv
<1>1. Program /\ StagedInputs /\ Cut /\ at \in Nat /\ IsGraph(at) /\ Outside(run, at)
  BY <1>0, GraphRegion
<1>2. UNCHANGED <<prog, training, region, stream, at>> /\ phase' = "failed"
  BY DEF RunFails
<1> DEFINE Left(bad) == Export(QueueAll(Entered(at), {n \in Nodes(at) : n < bad}), at)
           coll == Collectives(Nodes(at)) # {}
<1>3. PICK bad \in Nodes(at) :
        \/ run' = [Left(bad) EXCEPT !.host = IF coll THEN Left(bad).tail[Comm] ELSE {}]
        \/ coll /\ run' = [Left(bad) EXCEPT !.told = TRUE]
  BY DEF RunFails, QueueAll
<1>4. Sound(Left(bad)) /\ (~coll => Settled(Left(bad), {}))
  BY <1>1, RegionRaises
<1> HIDE DEF Left
<1> DEFINE R == Left(bad)
<1>5. \/ run' = [R EXCEPT !.host = IF coll THEN R.tail[Comm] ELSE {}]
      \/ coll /\ run' = [R EXCEPT !.told = TRUE]
  BY <1>3
<1> HIDE DEF R, coll
<1>6. R \in Runs /\ R.tail[Comm] \in SUBSET Items
  BY <1>4, PlaceNames DEF Sound, Runs, R
<1>7. /\ run' \in Runs /\ run'.tail = R.tail /\ run'.past = R.past /\ run'.ran = R.ran
      /\ run'.waited = R.waited
      /\ run'.told \/ run'.host = IF coll THEN R.tail[Comm] ELSE {}
  BY <1>5, <1>6 DEF Runs
<1>8. Sound(run')
  BY <1>4, <1>7 DEF Sound, R
<1>9. Sound(run)'
  BY <1>2, <1>8, SoundStays
<1>10. \/ run'.told
       \/ run'.tail[Comm] \ {Outstanding} \subseteq run'.tail[MaxMain] \cup run'.host
  BY <1>4, <1>7 DEF Settled, R
<1>11. Program' /\ StagedInputs' /\ Cut'
  BY <1>1, <1>2, SameProgram
<1> QED BY <1>1, <1>2, <1>9, <1>10, <1>11 DEF GraphInv, Outstanding, Comm, MaxMain

\* Tracing a node.
LEMMA Traces ==
  ASSUME GraphInv, TraceOp \/ TraceCollective \/ TraceWait \/ TraceWaitStream
  PROVE  GraphInv'
<1>1. Program /\ StagedInputs /\ phase = "trace" /\ Len(prog) < Length
  BY DEF GraphInv, TraceOp, TraceCollective, TraceWait, TraceWaitStream, Tracing
<1> DEFINE Dense(x) == x.kind = "op" /\ x.flag = "staged" /\ Src[x.arg] # 0
                         => prog[Src[x.arg]].kind # "coll"
<1>2. \E x \in NodeSet : /\ Trace(x) /\ x.arg \in 0..Len(prog)
                         /\ x.arg # 0 => prog[x.arg].kind # "stream"
                         /\ Dense(x)
  <2>0. /\ \A a \in Newest : a \in Nat /\ a \in 0..Len(prog) /\ (a # 0 => prog[a].kind # "stream")
        /\ \A a \in Values \cup {0} :
             a \in Nat /\ a \in 0..Len(prog) /\ (a # 0 => prog[a].kind # "stream")
    BY <1>1, ReadsThere
  <2>1. CASE TraceOp
    <3>1. PICK s \in User, a \in Newest, f \in Flags :
            /\ f = "staged" /\ Src[a] # 0 => prog[Src[a]].kind # "coll"
            /\ Trace([kind |-> "op", s |-> s, arg |-> a, flag |-> f])
      BY <2>1 DEF TraceOp
    <3>2. [kind |-> "op", s |-> s, arg |-> a, flag |-> f] \in NodeSet
      BY <2>0 DEF NodeSet
    <3> QED BY <2>0, <3>1, <3>2
  <2>2. CASE TraceCollective
    <3>1. PICK s \in User, a \in Newest :
            Trace([kind |-> "coll", s |-> s, arg |-> a, flag |-> "none"])
      BY <2>2 DEF TraceCollective
    <3>2. [kind |-> "coll", s |-> s, arg |-> a, flag |-> "none"] \in NodeSet
      BY <2>0 DEF NodeSet
    <3> QED BY <2>0, <3>1, <3>2
  <2>3. CASE TraceWait
    <3>1. PICK s \in User, a \in Values \cup {0} :
            Trace([kind |-> "wait", s |-> s, arg |-> a, flag |-> "none"])
      BY <2>3 DEF TraceWait
    <3>2. [kind |-> "wait", s |-> s, arg |-> a, flag |-> "none"] \in NodeSet
      BY <2>0 DEF NodeSet
    <3> QED BY <2>0, <3>1, <3>2
  <2>4. CASE TraceWaitStream
    <3>1. PICK s \in User, t \in User :
            Trace([kind |-> "stream", s |-> s, arg |-> 0, on |-> t])
      BY <2>4 DEF TraceWaitStream
    <3>2. [kind |-> "stream", s |-> s, arg |-> 0, on |-> t] \in NodeSet
      BY DEF NodeSet
    <3>3. Len(prog) \in Nat
      BY <1>1, NodeFields
    <3> QED BY <3>1, <3>2, <3>3
  <2> QED BY <2>1, <2>2, <2>3, <2>4
<1>3. PICK x \in NodeSet : /\ Trace(x) /\ x.arg \in 0..Len(prog)
                           /\ x.arg # 0 => prog[x.arg].kind # "stream"
                           /\ Dense(x)
  BY <1>2
<1>4. prog' = Append(prog, x) /\ UNCHANGED <<training, phase, region, stream, at, run>>
  BY <1>3 DEF Trace
<1>5. Program' /\ StagedInputs'
  BY <1>1, <1>3, <1>4, Traced
<1> QED BY <1>1, <1>4, <1>5 DEF GraphInv

\* The invariant holds of the program before it is traced, and at every step.
LEMMA GraphInvInit == Init => GraphInv
<1> SUFFICES ASSUME Init PROVE GraphInv
  OBVIOUS
<1>1. prog = <<>> /\ phase = "trace" /\ at = 1 /\ run = NoStreams
  BY DEF Init
<1>2. Program
  BY <1>1, GraphAssumption DEF Program
<1>3. StagedInputs
  BY <1>1 DEF StagedInputs
<1> QED BY <1>1, <1>2, <1>3 DEF GraphInv

\* Every step keeps the invariant.
LEMMA GraphInvStep == GraphInv /\ [Next]_vars => GraphInv'
<1> SUFFICES ASSUME GraphInv, [Next]_vars PROVE GraphInv'
  OBVIOUS
<1>1. CASE TraceOp \/ TraceCollective \/ TraceWait \/ TraceWaitStream
  BY <1>1, Traces
<1>2. CASE Compile
  BY <1>2, Compiles
<1>3. CASE RunControl
  <2>1. Program /\ Cut /\ at \in Nat /\ Nodes(at) # {} /\ Outside(run, at) /\ phase = "run"
    BY <1>3 DEF RunControl, GraphInv
  <2>2. /\ run' = Order(run, prog[Min(Nodes(at))].s, prog[Min(Nodes(at))].on)
        /\ Control(Min(Nodes(at))) /\ Advance
    BY <1>3 DEF RunControl
  <2>3. Outside(run', at + 1)
    BY <2>1, <2>2, ControlRuns
  <2> QED BY <2>1, <2>2, <2>3, Advances
<1>4. CASE RunGraph
  <2>0. Program /\ StagedInputs /\ Cut /\ at \in Nat /\ Nodes(at) # {} /\ Outside(run, at)
        /\ phase = "run" /\ ~Control(Min(Nodes(at)))
    BY <1>4 DEF RunGraph, GraphInv
  <2>1. Program /\ StagedInputs /\ Cut /\ at \in Nat /\ IsGraph(at) /\ Outside(run, at) /\ phase = "run"
    BY <2>0, GraphRegion
  <2>2. run' = After(at) /\ Advance
    BY <1>4 DEF RunGraph, After
  <2>3. Outside(run', at + 1)
    BY <2>1, <2>2, RegionRuns
  <2> QED BY <2>1, <2>2, <2>3, Advances
<1>5. CASE RunFails
  BY <1>5, Fails
<1>6. CASE UNCHANGED vars
  <2>1. UNCHANGED <<prog, training, region, stream>> /\ UNCHANGED <<phase, at, run>>
    BY <1>6 DEF vars
  <2>2. (Program => Program') /\ (StagedInputs => StagedInputs')
    BY <2>1, SameProgram
  <2>3. Cut => Cut'
    BY <2>1, SameProgram
  <2>4. (Nodes(at) # {}) => (Nodes(at) # {})'
    BY <2>1 DEF Nodes, NodesOf
  <2>5. Outside(run, at) => Outside(run, at)'
    BY <2>1, OutsideStays
  <2>6. Sound(run) => Sound(run)'
    BY <2>1, SoundStays
  <2> QED BY <2>1, <2>2, <2>3, <2>4, <2>5, <2>6 DEF GraphInv, Outstanding, Comm, MaxMain
<1> QED BY <1>1, <1>2, <1>3, <1>4, <1>5, <1>6 DEF Next

\* What ran came after what it reads.
LEMMA GraphInvReads == GraphInv => ReadsAfterWrites
<1> SUFFICES ASSUME GraphInv, Over PROVE ReadsAfterWrites
  BY DEF ReadsAfterWrites
<1>1. Sound(run)
  BY DEF GraphInv, Over, Outside
<1> QED BY <1>1 DEF Sound, Served, ReadsAfterWrites

\* The transfers a region started are over when it is.
LEMMA GraphInvSettled == GraphInv => TransfersSettled
BY DEF GraphInv, TransfersSettled, Outside, Settled

\* What ran came after what the program ordered before it.
LEMMA GraphInvOrder == GraphInv => EagerOrderKept
<1> SUFFICES ASSUME GraphInv, Over PROVE EagerOrderKept
  BY DEF EagerOrderKept
<1>1. Sound(run)
  BY DEF GraphInv, Over, Outside
<1>2. \A x, y \in run.ran : MustPrecede(x, y) => x \in run.past[y]
  BY <1>1 DEF Sound
<1> QED BY <1>2 DEF EagerOrderKept, MustPrecede, NodeItem

\* A compiled program keeps the order it asked for: two items that meet in
\* memory, and whose nodes its own streams order eagerly, run in that order on
\* MAX's streams, whatever the regions the program is cut into.
THEOREM ProgramEagerOrderKept == Spec => []EagerOrderKept
<1> QED BY GraphInvInit, GraphInvStep, GraphInvOrder, PTL DEF Spec

\* Nothing a compiled program runs reads a value before the operation, the
\* collective or the outstanding transfer that writes it.
THEOREM ProgramReadsAfterWrites == Spec => []ReadsAfterWrites
<1> QED BY GraphInvInit, GraphInvStep, GraphInvReads, PTL DEF Spec

\* No region gives memory back that a transfer it started still uses: the graph,
\* or the host once it raised, has waited for it, or the error says it has not.
THEOREM ProgramTransfersSettled == Spec => []TransfersSettled
<1> QED BY GraphInvInit, GraphInvStep, GraphInvSettled, PTL DEF Spec

-----------------------------------------------------------------------------
(* The whole backend.                                                      *)

\* Scheduling a program beside lowering a call is scheduling that program.
LEMMA CompileSchedules == CompileSpec => Spec
<1>1. CompileInit => Init
  BY DEF CompileInit
<1>2. [Schedule \/ LowerCall]_<<vars, call, out>> => [Next]_vars
  BY DEF Schedule, LowerCall
<1> QED BY <1>1, <1>2, PTL DEF CompileSpec, Spec

\* The backend as a whole keeps the streams' promises: every compiled program
\* keeps the order it asked for, reads what is there, and outlives its transfers.
THEOREM CompiledInOrder == CompileSpec => [](EagerOrderKept /\ ReadsAfterWrites /\ TransfersSettled)
<1> QED BY CompileSchedules, ProgramEagerOrderKept, ProgramReadsAfterWrites,
           ProgramTransfersSettled, PTL
=============================================================================
