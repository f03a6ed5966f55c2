-------------------------- MODULE CollStreams_proofs --------------------------
(***************************************************************************)
(* That no operation of the collectives' streams touches memory which went *)
(* back to the allocator, that no coalescing block leaves anything behind, *)
(* and that whoever waits for a collective reads its result, proved for    *)
(* every number of calls, every set of collectives and either library.     *)
(* What is invariant, and what a batch, a call, a free or an execution     *)
(* does to it, is defined in CollStreamsInv.                               *)
(*                                                                         *)
(* The argument, from the operators up:                                    *)
(*   folds       a fold over a finite set stays inside any set its steps   *)
(*               stay in (SetClimbs, FoldStays), and keeps any relation    *)
(*               they keep (FoldKept);                                     *)
(*   streams     what a record of host state is after an operation is      *)
(*               enqueued, a stream waits or a tensor is recorded;         *)
(*   batches     Extends, Grown and Issues;                                *)
(*   methods     every collective is a batch that makes or defers a fence  *)
(*               for each tensor it was given (Collects);                  *)
(*   the steps   one lemma per action of CollStreams preserves StreamsInv. *)
(*                                                                         *)
(* Then, for ValueInv: a method is followed operation by operation (Doing) *)
(* to the line it leaves (Given), the copies back of a block in whatever   *)
(* order they are made (Returning), a free behind them (FreeFine), and an  *)
(* execution as a shift of every point of its stream (Shifted), which      *)
(* frees nothing a call still needs (ExecuteUnneeded).                     *)
(***************************************************************************)
EXTENDS CollStreamsInv, FiniteSetTheorems, WellFoundedInduction, SequenceTheorems, TLAPS

-----------------------------------------------------------------------------
(* Types, and what the stream operations do to them.                       *)

\* An operation that waits for nothing.
LEMMA NoWaitType == NoWait \in [Streams -> Nat]
BY DEF NoWait

\* A new operation has its type and the fields it was made of.
LEMMA OpType ==
  ASSUME NEW kind \in OpKinds, NEW reads \in SUBSET Bufs, NEW writes \in SUBSET Bufs
  PROVE  /\ Op(kind, reads, writes) \in OpSet
         /\ Op(kind, reads, writes).kind = kind
         /\ Op(kind, reads, writes).reads = reads
         /\ Op(kind, reads, writes).writes = writes
BY NoWaitType DEF Op, OpSet

\* Enqueue appends to one stream and changes no user of a buffer.
LEMMA EnqueueFields ==
  ASSUME NEW g \in Hosts, NEW s \in Streams, NEW op \in OpSet
  PROVE  /\ Enqueue(g, s, op) \in Hosts
         /\ Enqueue(g, s, op).q =
              [g.q EXCEPT ![s] = Append(@, [op EXCEPT !.waits = g.waits[s]])]
         /\ Aside(g, Enqueue(g, s, op)) /\ Enqueue(g, s, op).users = g.users
<1> DEFINE k == Enqueue(g, s, op)
           o == [op EXCEPT !.waits = g.waits[s]]
<1>1. o \in OpSet
  BY DEF OpSet, Hosts
<1>2. k = [g EXCEPT !.q = [g.q EXCEPT ![s] = Append(@, o)],
                    !.waits = [g.waits EXCEPT ![s] = NoWait]]
  BY DEF Enqueue, Hosts
<1>3. [g.q EXCEPT ![s] = Append(@, o)] \in [Streams -> Seq(OpSet)]
  BY <1>1 DEF Hosts
<1>4. [g.waits EXCEPT ![s] = NoWait] \in [Streams -> [Streams -> Nat]]
  BY NoWaitType DEF Hosts
<1> HIDE DEF k, o
<1>5. /\ k \in Hosts
      /\ k.q = [g.q EXCEPT ![s] = Append(@, o)]
      /\ Aside(g, k) /\ k.users = g.users
  BY <1>2, <1>3, <1>4 DEF Hosts, Aside
<1> QED BY <1>5 DEF k, o

\* WaitFor only raises what a stream waits for: to the point, at least.
LEMMA WaitForFields ==
  ASSUME NEW g \in Hosts, NEW s \in Streams, NEW point \in [Streams -> Nat]
  PROVE  /\ WaitFor(g, s, point) \in Hosts
         /\ WaitFor(g, s, point).q = g.q
         /\ WaitFor(g, s, point).users = g.users
         /\ Aside(g, WaitFor(g, s, point))
         /\ \A t \in Streams : g.waits[s][t] <= WaitFor(g, s, point).waits[s][t]
         /\ \A t \in Streams : t # s => point[t] <= WaitFor(g, s, point).waits[s][t]
<1> DEFINE k == WaitFor(g, s, point)
           w == [t \in Streams |-> IF t = s \/ point[t] <= g.waits[s][t]
                                   THEN g.waits[s][t] ELSE point[t]]
<1>1. k = [g EXCEPT !.waits = [g.waits EXCEPT ![s] = w]]
  BY DEF WaitFor, Hosts
<1>2. g.waits \in [Streams -> [Streams -> Nat]]
  BY DEF Hosts
<1>3. w \in [Streams -> Nat]
  BY <1>2
<1>4. [g.waits EXCEPT ![s] = w] \in [Streams -> [Streams -> Nat]]
  BY <1>2, <1>3
<1>5. \A t \in Streams : g.waits[s][t] <= w[t] /\ (t # s => point[t] <= w[t])
  BY <1>2
<1> HIDE DEF k, w
<1>6. k \in Hosts /\ k.q = g.q /\ k.users = g.users /\ Aside(g, k)
      /\ k.waits = [g.waits EXCEPT ![s] = w]
  BY <1>1, <1>4 DEF Hosts, Aside
<1>7. k.waits[s] = w
  BY <1>2, <1>6
<1> QED BY <1>5, <1>6, <1>7 DEF k

\* The point of a stream is behind everything enqueued on it.
LEMMA IssuedType ==
  ASSUME NEW g \in Hosts, NEW s \in Streams
  PROVE  Issued(g, s) \in [Streams -> Nat] /\ Issued(g, s)[s] = Len(g.q[s])
BY DEF Issued, Hosts

\* A stream that waits for another waits for all it holds.
LEMMA WaitStreamFields ==
  ASSUME NEW g \in Hosts, NEW s \in Streams, NEW o \in Streams
  PROVE  /\ WaitStream(g, s, o) \in Hosts
         /\ WaitStream(g, s, o).q = g.q
         /\ WaitStream(g, s, o).users = g.users
         /\ Aside(g, WaitStream(g, s, o))
         /\ \A t \in Streams : g.waits[s][t] <= WaitStream(g, s, o).waits[s][t]
         /\ o # s => Len(g.q[o]) <= WaitStream(g, s, o).waits[s][o]
BY WaitForFields, IssuedType DEF WaitStream

\* record_stream adds the stream to the users of buffers of others.
LEMMA RecordStreamFields ==
  ASSUME NEW g \in Hosts, NEW bufs \in SUBSET Bufs, NEW s \in Streams
  PROVE  /\ RecordStream(g, bufs, s) \in Hosts
         /\ RecordStream(g, bufs, s).q = g.q
         /\ Aside(g, RecordStream(g, bufs, s))
         /\ \A b \in Bufs : g.users[b] \subseteq RecordStream(g, bufs, s).users[b]
         /\ \A b \in bufs : Owner(b) = s \/ s \in RecordStream(g, bufs, s).users[b]
<1> DEFINE k == RecordStream(g, bufs, s)
           u == [b \in Bufs |-> IF b \in bufs /\ Owner(b) # s
                                THEN g.users[b] \cup {s} ELSE g.users[b]]
<1>1. k = [g EXCEPT !.users = u]
  BY DEF RecordStream, Hosts
<1>2. g.users \in [Bufs -> SUBSET Streams]
  BY DEF Hosts
<1>3. u \in [Bufs -> SUBSET Streams]
  BY <1>2
<1>4. /\ \A b \in Bufs : g.users[b] \subseteq u[b]
      /\ \A b \in bufs : Owner(b) = s \/ s \in u[b]
  BY <1>2
<1> HIDE DEF k, u
<1>5. k \in Hosts /\ k.q = g.q /\ k.users = u /\ Aside(g, k)
  BY <1>1, <1>3 DEF Hosts, Aside
<1> QED BY <1>4, <1>5 DEF k

\* The three streams.
LEMMA StreamNames == "cur" \in Streams /\ "comm" \in Streams /\ "side" \in Streams
BY DEF Streams

\* The owner of a buffer is a stream.
LEMMA OwnerType == \A b : Owner(b) \in Streams
BY DEF Owner, Streams

\* The parts of a host state have their types.
LEMMA HostTypes ==
  ASSUME NEW g \in Hosts
  PROVE  /\ \A t \in Streams : g.q[t] \in Seq(OpSet) /\ Len(g.q[t]) \in Nat
         /\ \A t \in Streams : \A i \in Queued(g, t) : g.q[t][i] \in OpSet
         /\ g.group \in Seq(OpSet) /\ Len(g.group) \in Nat
         /\ \A op \in GroupOps(g) : op \in OpSet
         /\ \A s, t \in Streams : g.waits[s][t] \in Nat
         /\ \A b \in Bufs : g.users[b] \subseteq Streams
<1>1. g.q \in [Streams -> Seq(OpSet)] /\ g.group \in Seq(OpSet)
      /\ g.waits \in [Streams -> [Streams -> Nat]] /\ g.users \in [Bufs -> SUBSET Streams]
  BY DEF Hosts
<1>2. \A sq \in Seq(OpSet) : Len(sq) \in Nat /\ \A i \in 1..Len(sq) : sq[i] \in OpSet
  BY ElementOfSeq
<1>3. \A t \in Streams : g.q[t] \in Seq(OpSet)
  BY <1>1
<1> QED BY <1>1, <1>2, <1>3 DEF Queued, GroupOps

-----------------------------------------------------------------------------
(* Folds.                                                                  *)

\* A property of the empty set that every set has once it holds of the set
\* without one of its elements holds of every finite set.
LEMMA SetClimbs ==
  ASSUME NEW S, IsFiniteSet(S), NEW W, {} \in W,
         NEW c, \A s \in SUBSET S : s # {} => c[s] \in s,
         \A s \in SUBSET S : s # {} /\ s \ {c[s]} \in W => s \in W
  PROVE  \A s \in SUBSET S : s \in W
<1> DEFINE Bad == {s \in SUBSET S : s \notin W}
           Sizes == {Cardinality(s) : s \in Bad}
<1> SUFFICES ASSUME Bad # {} PROVE FALSE
  OBVIOUS
<1>1. \A s \in SUBSET S : IsFiniteSet(s) /\ Cardinality(s) \in Nat
  BY FS_Subset, FS_CardinalityType
<1>2. Sizes # {} /\ Sizes \subseteq Nat
  BY <1>1
<1>3. PICK n \in Sizes : \A m \in Sizes : ~(m < n)
  <2>1. \A T \in SUBSET Nat : T # {} => \E x \in T : \A y \in T : ~(<<y, x>> \in OpToRel(<, Nat))
    BY NatLessThanWellFounded, WFMin
  <2> QED BY <1>2, <2>1 DEF OpToRel
<1>4. PICK s \in Bad : Cardinality(s) = n
  OBVIOUS
<1>5. s # {} /\ c[s] \in s
  OBVIOUS
<1>6. s \ {c[s]} \in Bad
  BY <1>4, <1>5
<1>7. Cardinality(s \ {c[s]}) = n - 1
  BY <1>1, <1>4, <1>5, FS_RemoveElement
<1>8. n \in Nat /\ n - 1 < n
  BY <1>2
<1>9. n - 1 \in Sizes
  BY <1>6, <1>7
<1> QED BY <1>3, <1>8, <1>9

\* Recursion over the subsets of a finite set defines a function.
LEMMA FoldExists ==
  ASSUME NEW S, NEW V, NEW base, NEW c, NEW o, FoldArgs(S, V, base, c, o)
  PROVE  \E f \in [SUBSET S -> V] : Folds(f, S, base, c, o)
<1> USE DEF FoldArgs
<1> DEFINE Step(f, s) == IF s = {} THEN base ELSE o[c[s]][f[s \ {c[s]}]]
           To(f, n) == \A s \in SUBSET S : Cardinality(s) < n => f[s] = Step(f, s)
           F == [SUBSET S -> V]
           None_ == {n \in Nat : ~\E f \in F : To(f, n)}
<1>1. \A s \in SUBSET S : IsFiniteSet(s) /\ Cardinality(s) \in Nat
  BY FS_Subset, FS_CardinalityType
<1>2. ASSUME NEW n \in Nat, \E f \in F : To(f, n) PROVE \E f \in F : To(f, n + 1)
  <2>1. PICK f \in F : To(f, n)
    BY <1>2
  <2> DEFINE k == [s \in SUBSET S |-> Step(f, s)]
  <2>2. \A s \in SUBSET S : s # {} => c[s] \in S /\ s \ {c[s]} \in SUBSET S
    OBVIOUS
  <2>3. k \in F
    BY <2>2
  <2>4. ASSUME NEW s \in SUBSET S, Cardinality(s) < n + 1 PROVE k[s] = Step(k, s)
    <3>1. CASE s = {}
      BY <3>1
    <3>2. CASE s # {}
      <4> DEFINE t == s \ {c[s]}
      <4>1. t \in SUBSET S /\ Cardinality(t) = Cardinality(s) - 1
        BY <1>1, <3>2, FS_RemoveElement
      <4>2. Cardinality(t) < n
        BY <1>1, <2>4, <4>1
      <4>3. f[t] = Step(f, t)
        BY <2>1, <4>1, <4>2
      <4>4. k[t] = f[t]
        BY <4>1, <4>3
      <4> QED BY <3>2, <4>4
    <3> QED BY <3>1, <3>2
  <2> HIDE DEF k, Step
  <2> QED BY <2>3, <2>4
<1>3. \E f \in F : To(f, 0)
  <2>1. [s \in SUBSET S |-> base] \in F
    OBVIOUS
  <2>2. \A s \in SUBSET S : ~(Cardinality(s) < 0)
    BY <1>1
  <2> HIDE DEF Step, F
  <2> QED BY <2>1, <2>2
<1> HIDE DEF To
<1>4. None_ = {}
  <2> SUFFICES ASSUME None_ # {} PROVE FALSE
    OBVIOUS
  <2>1. PICK n \in None_ : \A m \in None_ : ~(m < n)
    <3>1. \A T \in SUBSET Nat : T # {} => \E x \in T : \A y \in T : ~(<<y, x>> \in OpToRel(<, Nat))
      BY NatLessThanWellFounded, WFMin
    <3> QED BY <3>1 DEF OpToRel
  <2>2. n \in Nat /\ n # 0 /\ ~\E f \in F : To(f, n)
    BY <1>3, <2>1
  <2>3. n - 1 \in Nat /\ n - 1 < n /\ (n - 1) + 1 = n
    BY <2>2
  <2>4. n - 1 \notin None_
    BY <2>1, <2>3
  <2>5. \E f \in F : To(f, n - 1)
    BY <2>3, <2>4
  <2>6. \E f \in F : To(f, (n - 1) + 1)
    BY <1>2, <2>3, <2>5
  <2> QED BY <2>2, <2>3, <2>6
<1>5. Cardinality(S) + 1 \in Nat
  BY <1>1
<1>6. PICK f \in F : To(f, Cardinality(S) + 1)
  BY <1>4, <1>5
<1>7. \A s \in SUBSET S : Cardinality(s) < Cardinality(S) + 1
  BY <1>1, FS_Subset
<1> QED BY <1>6, <1>7 DEF To, Folds

\* A nonempty set of numbers up to n has a greatest one.
LEMMA HasMax ==
  ASSUME NEW n \in Nat, NEW S \in SUBSET (1..n), S # {}
  PROVE  Max(S) \in S /\ \A y \in S : Max(S) >= y
<1> DEFINE Below == {n - x : x \in S}
<1>1. Below \in SUBSET Nat /\ Below # {}
  BY SMT
<1>2. PICK m \in Below : \A y \in Below : ~(y < m)
  <2>1. \A T \in SUBSET Nat : T # {} => \E x \in T : \A y \in T : ~(<<y, x>> \in OpToRel(<, Nat))
    BY NatLessThanWellFounded, WFMin
  <2> QED BY <1>1, <2>1 DEF OpToRel
<1>3. PICK x \in S : m = n - x
  OBVIOUS
<1>4. \A y \in S : n - y \in Below /\ n - y \in Nat /\ y \in Nat
  OBVIOUS
<1>5. \A y \in S : x >= y
  BY <1>2, <1>3, <1>4
<1> QED BY <1>5 DEF Max

\* What each step of a fold keeps of the state and of the part of the set
\* that was folded holds of the fold.
LEMMA FoldKept ==
  ASSUME NEW S, NEW V, NEW base, NEW c, NEW o, FoldArgs(S, V, base, c, o), NEW it,
         Follows(it, S, V, base, c, o),
         NEW R, <<base, {}>> \in R, FoldKeeps(R, S, V, o)
  PROVE  it[S] \in V /\ <<it[S], S>> \in R
<1> DEFINE W == {s \in SUBSET S : it[s] \in V /\ <<it[s], s>> \in R}
<1>1. {} \in W
  BY DEF FoldArgs, Follows
<1>2. ASSUME NEW s \in SUBSET S, s # {}, s \ {c[s]} \in W PROVE s \in W
  <2> DEFINE x == c[s]
             r == s \ {x}
  <2>1. x \in s /\ x \in S /\ o \in [S -> [V -> V]] /\ it[r] \in V /\ <<it[r], r>> \in R
    BY <1>2 DEF FoldArgs
  <2>2. it[s] = o[x][it[r]]
    BY <1>2, <2>1 DEF Follows
  <2>3. r \in SUBSET S /\ x \notin r /\ r \cup {x} = s
    BY <2>1
  <2> HIDE DEF x, r
  <2>4. o[x] \in [V -> V]
    BY <2>1
  <2>5. o[x][it[r]] \in V
    BY <2>1, <2>4
  <2>6. <<o[x][it[r]], r \cup {x}>> \in R
    BY <2>1, <2>3 DEF FoldKeeps
  <2> QED BY <2>2, <2>3, <2>5, <2>6
<1>3. IsFiniteSet(S) /\ \A s \in SUBSET S : s # {} => c[s] \in s
  BY DEF FoldArgs
<1> HIDE DEF W
<1>4. S \in W
  BY <1>1, <1>2, <1>3, SetClimbs, SMTT(30)
<1> QED BY <1>4 DEF W

\* What the waits of a free keep.
LEMMA UsersFoldKept ==
  ASSUME NEW g \in Hosts, NEW b \in Bufs, NEW S \in SUBSET Streams, NEW R, <<g, {}>> \in R,
         \A s \in SUBSET S, t \in S, k \in Hosts :
           t \notin s /\ <<k, s>> \in R => <<WaitStream(k, Owner(b), t), s \cup {t}>> \in R
  PROVE  UsersFold(g, b, S) \in Hosts /\ <<UsersFold(g, b, S), S>> \in R
<1> DEFINE V == Hosts
           c == [s \in SUBSET S |-> CHOOSE x \in s : TRUE]
           o == [t \in S |-> [k \in V |-> WaitStream(k, Owner(b), t)]]
           Does(f) == f = [s \in SUBSET S |-> IF s = {} THEN g
                ELSE LET x == CHOOSE x \in s : TRUE
                     IN WaitStream(f[s \ {x}], Owner(b), x)]
           it == CHOOSE f : Does(f)
<1>1. IsFiniteSet(S)
  <2>1. IsFiniteSet({"cur", "side", "comm"})
    <3>1. IsFiniteSet({"cur"}) /\ IsFiniteSet({"side"}) /\ IsFiniteSet({"comm"})
      BY FS_Singleton
    <3>2. IsFiniteSet({"cur"} \cup {"side"})
      BY <3>1, FS_Union
    <3>3. IsFiniteSet(({"cur"} \cup {"side"}) \cup {"comm"})
      BY <3>1, <3>2, FS_Union
    <3>4. ({"cur"} \cup {"side"}) \cup {"comm"} = {"cur", "side", "comm"}
      OBVIOUS
    <3> QED BY <3>3, <3>4
  <2> QED BY <2>1, FS_Subset DEF Streams
<1>3. \A k \in V, t \in S : WaitStream(k, Owner(b), t) \in V
  BY OwnerType, WaitStreamFields
<1>4. \A s \in SUBSET S : s # {} => c[s] \in s /\ c[s] = CHOOSE x \in s : TRUE
  OBVIOUS
<1>5. UsersFold(g, b, S) = it[S]
  BY DEF UsersFold, FoldSet, MapThenFoldSet
<1> HIDE DEF V
<1>6. FoldArgs(S, V, g, c, o)
  BY <1>1, <1>3, <1>4 DEF FoldArgs, V
<1>7. PICK f \in [SUBSET S -> V] : Folds(f, S, g, c, o)
  <2> HIDE DEF c, o
  <2> QED BY <1>6, FoldExists
<1>8. Does(f)
  BY <1>4, <1>7, ZenonT(60) DEF Folds
<1>9. Does(it)
  <2> HIDE DEF Does
  <2> QED BY <1>8
<1> HIDE DEF it
<1>10. Follows(it, S, V, g, c, o)
  BY <1>4, <1>9 DEF Follows
<1>12. FoldKeeps(R, S, V, o)
  BY DEF V, FoldKeeps
<1>11. it[S] \in V /\ <<it[S], S>> \in R
  <2> HIDE DEF c, o
  <2> QED BY <1>6, <1>10, <1>12, FoldKept
<1> QED BY <1>5, <1>11 DEF V

\* After them the owner waits for all that every user holds.
LEMMA UsersFoldFields ==
  ASSUME NEW g \in Hosts, NEW b \in Bufs, NEW S \in SUBSET Streams
  PROVE  /\ UsersFold(g, b, S) \in Hosts
         /\ UsersFold(g, b, S).q = g.q
         /\ UsersFold(g, b, S).users = g.users
         /\ Aside(g, UsersFold(g, b, S))
         /\ \A t \in S : t # Owner(b) =>
              Len(g.q[t]) <= UsersFold(g, b, S).waits[Owner(b)][t]
<1> DEFINE Good(k, s) == /\ k.q = g.q /\ k.users = g.users /\ Aside(g, k)
                         /\ \A t \in s : t # Owner(b) => Len(g.q[t]) <= k.waits[Owner(b)][t]
           R == {x \in Hosts \X SUBSET S : Good(x[1], x[2])}
<1>1. <<g, {}>> \in R
  BY DEF Aside
<1>2. ASSUME NEW s \in SUBSET S, NEW t \in S, NEW k \in Hosts, t \notin s, <<k, s>> \in R
      PROVE  <<WaitStream(k, Owner(b), t), s \cup {t}>> \in R
  <2> DEFINE n == WaitStream(k, Owner(b), t)
  <2>1. Good(k, s)
    BY <1>2
  <2>5. /\ n \in Hosts /\ n.q = k.q /\ n.users = k.users /\ Aside(k, n)
        /\ \A u \in Streams : k.waits[Owner(b)][u] <= n.waits[Owner(b)][u]
        /\ t # Owner(b) => Len(k.q[t]) <= n.waits[Owner(b)][t]
    <3>1. t \in Streams /\ Owner(b) \in Streams
      BY OwnerType
    <3> QED BY <3>1, WaitStreamFields
  <2> HIDE DEF n
  <2>2. /\ n \in Hosts /\ n.q = g.q /\ n.users = g.users /\ Aside(g, n)
        /\ \A u \in Streams : k.waits[Owner(b)][u] <= n.waits[Owner(b)][u]
        /\ t # Owner(b) => Len(g.q[t]) <= n.waits[Owner(b)][t]
    BY <2>1, <2>5 DEF Aside
  <2>3. ASSUME NEW u \in s \cup {t}, u # Owner(b) PROVE Len(g.q[u]) <= n.waits[Owner(b)][u]
    <3>1. /\ Len(g.q[u]) \in Nat /\ k.waits[Owner(b)][u] \in Nat
          /\ n.waits[Owner(b)][u] \in Nat /\ u \in Streams
      BY <2>2, HostTypes, OwnerType
    <3> QED BY <2>1, <2>2, <2>3, <3>1
  <2>4. <<n, s \cup {t}>> \in R
    BY <2>2, <2>3
  <2> QED BY <2>4 DEF n
<1> HIDE DEF R
<1>3. UsersFold(g, b, S) \in Hosts /\ <<UsersFold(g, b, S), S>> \in R
  BY <1>1, <1>2, UsersFoldKept
<1> QED BY <1>3 DEF R

-----------------------------------------------------------------------------
(* Batches of operations on the comm stream.                               *)

\* Appending nothing.
LEMMA ExtendsRefl ==
  ASSUME NEW g \in Hosts, NEW k \in Hosts, k.q = g.q,
         \A b \in Bufs : g.users[b] \subseteq k.users[b], NEW s, NEW T
  PROVE  Extends(g, k, s, T)
BY HostTypes DEF Extends, Queued

\* Two batches on one stream are one.
LEMMA ExtendsTrans ==
  ASSUME NEW g \in Hosts, NEW k \in Hosts, NEW m \in Hosts, NEW s, NEW T,
         Extends(g, k, s, T), Extends(k, m, s, T)
  PROVE  Extends(g, m, s, T)
<1> SUFFICES ASSUME NEW t \in Streams
    PROVE /\ Len(g.q[t]) <= Len(m.q[t])
          /\ \A i \in Queued(g, t) : m.q[t][i] = g.q[t][i]
          /\ \A i \in Queued(m, t) :
               i \in Queued(g, t) \/ (t = s /\ Works(m.q[t][i], T))
  BY DEF Extends
<1>1. Len(g.q[t]) \in Nat /\ Len(k.q[t]) \in Nat /\ Len(m.q[t]) \in Nat
  BY HostTypes
<1>2. Len(g.q[t]) <= Len(k.q[t]) /\ Len(k.q[t]) <= Len(m.q[t])
  BY DEF Extends
<1>3. \A i \in Queued(g, t) : i \in Queued(k, t)
  BY <1>1, <1>2 DEF Queued
<1>4. \A i \in Queued(g, t) : k.q[t][i] = g.q[t][i]
  BY DEF Extends
<1>5. \A i \in Queued(k, t) : m.q[t][i] = k.q[t][i]
  BY DEF Extends
<1>6. \A i \in Queued(m, t) : i \in Queued(k, t) \/ (t = s /\ Works(m.q[t][i], T))
  BY DEF Extends
<1>7. \A i \in Queued(k, t) : i \in Queued(g, t) \/ (t = s /\ Works(k.q[t][i], T))
  BY DEF Extends
<1>8. Len(g.q[t]) <= Len(m.q[t])
  BY <1>1, <1>2
<1> QED BY <1>3, <1>4, <1>5, <1>6, <1>7, <1>8

\* The stamp changes nothing but what the operation waits for.
LEMMA StampedFields ==
  ASSUME NEW g \in Hosts, NEW s \in Streams, NEW op \in OpSet
  PROVE  /\ Stamped(g, s, op) \in OpSet
         /\ Stamped(g, s, op).kind = op.kind /\ Stamped(g, s, op).reads = op.reads
         /\ Stamped(g, s, op).writes = op.writes /\ Stamped(g, s, op).waits = g.waits[s]
BY DEF Stamped, OpSet, Hosts

\* What Enqueue leaves alone.
LEMMA EnqueueAside ==
  ASSUME NEW g \in Hosts, NEW s \in Streams, NEW op \in OpSet
  PROVE  /\ Enqueue(g, s, op) \in Hosts /\ Aside(g, Enqueue(g, s, op))
         /\ Enqueue(g, s, op).users = g.users
BY EnqueueFields

\* What Enqueue does to a stream, position by position.
LEMMA EnqueuePositions ==
  ASSUME NEW g \in Hosts, NEW s \in Streams, NEW op \in OpSet
  PROVE  /\ \A t \in Streams \ {s} : Enqueue(g, s, op).q[t] = g.q[t]
         /\ Len(Enqueue(g, s, op).q[s]) = Len(g.q[s]) + 1
         /\ \A i \in Queued(g, s) : Enqueue(g, s, op).q[s][i] = g.q[s][i]
         /\ Enqueue(g, s, op).q[s][Len(g.q[s]) + 1] = Stamped(g, s, op)
<1>1. Enqueue(g, s, op).q = [g.q EXCEPT ![s] = Append(@, Stamped(g, s, op))]
  BY EnqueueFields DEF Stamped
<1>2. g.q \in [Streams -> Seq(OpSet)] /\ g.q[s] \in Seq(OpSet)
  BY DEF Hosts
<1>3. Stamped(g, s, op) \in OpSet
  BY StampedFields
<1>4. Enqueue(g, s, op).q[s] = Append(g.q[s], Stamped(g, s, op))
      /\ \A t \in Streams \ {s} : Enqueue(g, s, op).q[t] = g.q[t]
  BY <1>1, <1>2
<1> QED BY <1>2, <1>3, <1>4, AppendProperties DEF Queued

\* Enqueue appends an operation.
LEMMA EnqueueExtends ==
  ASSUME NEW g \in Hosts, NEW s \in Streams, NEW op \in OpSet, NEW T, Works(op, T)
  PROVE  Extends(g, Enqueue(g, s, op), s, T)
<1> DEFINE k == Enqueue(g, s, op)
<1>1. k.users = g.users
  BY EnqueueFields
<1>2. \A t \in Streams \ {s} : k.q[t] = g.q[t]
  BY EnqueuePositions
<1>3. Len(k.q[s]) = Len(g.q[s]) + 1 /\ \A i \in Queued(g, s) : k.q[s][i] = g.q[s][i]
  BY EnqueuePositions
<1>4. Works(k.q[s][Len(g.q[s]) + 1], T)
  <2>1. k.q[s][Len(g.q[s]) + 1] = Stamped(g, s, op)
    BY EnqueuePositions
  <2>2. /\ Stamped(g, s, op).kind = op.kind /\ Stamped(g, s, op).reads = op.reads
        /\ Stamped(g, s, op).writes = op.writes
    BY StampedFields
  <2> HIDE DEF k
  <2> QED BY <2>1, <2>2 DEF Works, Touches
<1>5. \A t \in Streams : Len(g.q[t]) \in Nat
  BY HostTypes
<1> HIDE DEF k
<1>6. \A i \in Queued(k, s) : i \in Queued(g, s) \/ i = Len(g.q[s]) + 1
  BY <1>3, <1>5 DEF Queued
<1>7. \A t \in Streams : Len(g.q[t]) <= Len(k.q[t])
  BY <1>2, <1>3, <1>5
<1>8. Extends(g, k, s, T)
  BY <1>1, <1>2, <1>3, <1>4, <1>6, <1>7 DEF Extends, Queued
<1> QED BY <1>8 DEF k

\* No enqueue at all.
LEMMA GrownRefl == ASSUME NEW g \in Hosts, NEW T PROVE g \in Grown(g, T)
BY ExtendsRefl DEF Grown, Aside

\* One more enqueue on the comm stream.
LEMMA EnqueueGrows ==
  ASSUME NEW g \in Hosts, NEW T, NEW k \in Grown(g, T), NEW op \in OpSet, Works(op, T)
  PROVE  Enqueue(k, "comm", op) \in Grown(g, T)
<1>1. k \in Hosts /\ "comm" \in Streams
  BY DEF Grown, Streams
<1>2. Enqueue(k, "comm", op) \in Hosts /\ Aside(k, Enqueue(k, "comm", op))
      /\ Enqueue(k, "comm", op).users = k.users
  BY <1>1, EnqueueAside
<1>3. Extends(k, Enqueue(k, "comm", op), "comm", T)
  BY <1>1, EnqueueExtends
<1>4. Extends(g, Enqueue(k, "comm", op), "comm", T)
  BY <1>1, <1>2, <1>3, ExtendsTrans DEF Grown
<1> QED BY <1>2, <1>4 DEF Grown, Aside

\* A fold whose steps stay inside V stays inside V.
LEMMA FoldStays ==
  ASSUME NEW S, NEW V, NEW base, NEW c, NEW o, FoldArgs(S, V, base, c, o), NEW it,
         Follows(it, S, V, base, c, o)
  PROVE  it[S] \in V
<1> USE DEF Follows
<1> DEFINE W == {s \in SUBSET S : it[s] \in V}
<1>1. {} \in W
  BY DEF FoldArgs
<1>2. ASSUME NEW s \in SUBSET S, s # {}, s \ {c[s]} \in W PROVE s \in W
  <2>1. c[s] \in S /\ o \in [S -> [V -> V]] /\ it[s \ {c[s]}] \in V
    BY <1>2 DEF FoldArgs
  <2>2. o[c[s]] \in [V -> V]
    BY <2>1
  <2>3. o[c[s]][it[s \ {c[s]}]] \in V
    BY <2>1, <2>2
  <2> QED BY <1>2, <2>3
<1>3. IsFiniteSet(S) /\ \A s \in SUBSET S : s # {} => c[s] \in s
  BY DEF FoldArgs
<1> HIDE DEF W
<1>4. S \in W
  BY <1>1, <1>2, <1>3, SetClimbs
<1> QED BY <1>4 DEF W

\* A copy between two buffers of T works inside T.
LEMMA CopyType ==
  ASSUME NEW a \in Bufs, NEW b \in Bufs, NEW T, a \in T, b \in T
  PROVE  Copy(a, b) \in OpSet /\ Works(Copy(a, b), T)
<1>1. "copy" \in OpKinds /\ {a} \in SUBSET Bufs /\ {b} \in SUBSET Bufs
  BY DEF OpKinds
<1> QED BY <1>1, OpType DEF Copy, Works, Touches

\* There are finitely many buffers.
LEMMA BufsFinite == IsFiniteSet(Bufs) /\ \A S \in SUBSET Bufs : IsFiniteSet(S)
<1>1. IsFiniteSet(Calls)
  BY FS_Interval, StreamsAssumption DEF Calls
<1>2. IsFiniteSet(Roles)
  <2>1. Roles = ((((({"in"} \cup {"out"}) \cup {"own"}) \cup {"sin"}) \cup {"sout"})
                 \cup {"sown"}) \cup {"flat"}
    BY DEF Roles, UserRoles
  <2>2. \A x : IsFiniteSet({x})
    BY FS_Singleton
  <2>3. IsFiniteSet({"in"} \cup {"out"})
    BY <2>2, FS_Union
  <2>4. IsFiniteSet(({"in"} \cup {"out"}) \cup {"own"})
    BY <2>2, <2>3, FS_Union
  <2>5. IsFiniteSet((({"in"} \cup {"out"}) \cup {"own"}) \cup {"sin"})
    BY <2>2, <2>4, FS_Union
  <2>6. IsFiniteSet(((({"in"} \cup {"out"}) \cup {"own"}) \cup {"sin"}) \cup {"sout"})
    BY <2>2, <2>5, FS_Union
  <2>7. IsFiniteSet((((({"in"} \cup {"out"}) \cup {"own"}) \cup {"sin"}) \cup {"sout"}) \cup {"sown"})
    BY <2>2, <2>6, FS_Union
  <2> QED BY <2>1, <2>2, <2>7, FS_Union
<1>3. IsFiniteSet(Bufs)
  BY <1>1, <1>2, FS_Product DEF Bufs
<1> QED BY <1>3, FS_Subset

\* There are finitely many pairs of buffers.
LEMMA PairsFinite == ASSUME NEW P \in SUBSET (Bufs \X Bufs) PROVE IsFiniteSet(P)
BY BufsFinite, FS_Product, FS_Subset

\* A copy back is an enqueue.
LEMMA ReturnType ==
  ASSUME NEW k \in Hosts, NEW p, p[1] \in Bufs, p[2] \in Bufs
  PROVE  Return(k, p) \in Hosts
<1>1. p[1] \in Bufs /\ p[2] \in Bufs => Copy(p[2], p[1]) \in OpSet
  <2>1. \A a \in Bufs, b \in Bufs : Copy(a, b) \in OpSet
    <3> TAKE a \in Bufs, b \in Bufs
    <3>1. a \in {a, b} /\ b \in {a, b}
      OBVIOUS
    <3> QED BY <3>1, CopyType
  <2> QED BY <2>1
<1>2. "comm" \in Streams
  BY StreamNames
<1> QED BY <1>1, <1>2, EnqueueAside DEF Return

\* The same for the copies back.
LEMMA CopyBackKept ==
  ASSUME NEW g \in Hosts, NEW P \in SUBSET (Bufs \X Bufs), NEW R, <<g, {}>> \in R,
         \A s \in SUBSET Differ(P), p \in Differ(P), k \in Hosts :
           p \notin s /\ <<k, s>> \in R => <<Return(k, p), s \cup {p}>> \in R
  PROVE  CopyBack(g, P) \in Hosts /\ <<CopyBack(g, P), Differ(P)>> \in R
<1> DEFINE S == {p \in P : p[1] # p[2]}
           V == Hosts
           c == [s \in SUBSET S |-> CHOOSE x \in s : TRUE]
           o == [p \in S |-> [k \in V |-> Return(k, p)]]
           Does(f) == f = [s \in SUBSET S |-> IF s = {} THEN g
                ELSE LET x == CHOOSE x \in s : TRUE
                     IN Enqueue(f[s \ {x}], "comm", Copy(x[2], x[1]))]
           it == CHOOSE f : Does(f)
<1>1. IsFiniteSet(S)
  BY PairsFinite
<1>3. \A k \in V, p \in S : Return(k, p) \in V
  BY ReturnType
<1>4. \A s \in SUBSET S : s # {} => c[s] \in s /\ c[s] = CHOOSE x \in s : TRUE
  OBVIOUS
<1>5. CopyBack(g, P) = it[S]
  BY DEF CopyBack, FoldSet, MapThenFoldSet
<1>0. S = Differ(P)
  BY DEF Differ
<1> HIDE DEF V, S
<1>6. FoldArgs(S, V, g, c, o)
  BY <1>1, <1>3, <1>4 DEF FoldArgs, V
<1>7. PICK f \in [SUBSET S -> V] : Folds(f, S, g, c, o)
  <2> HIDE DEF c, o
  <2> QED BY <1>6, FoldExists
<1>8. Does(f)
  <2>1. f[{}] = g
    BY <1>7 DEF Folds
  <2>2. ASSUME NEW s \in SUBSET S, s # {}
        PROVE  f[s] = Enqueue(f[s \ {c[s]}], "comm", Copy(c[s][2], c[s][1]))
    BY <1>4, <1>7, <2>2 DEF Folds, Return
  <2>3. \A s \in SUBSET S : f[s] = IF s = {} THEN g
                ELSE LET x == CHOOSE x \in s : TRUE
                     IN Enqueue(f[s \ {x}], "comm", Copy(x[2], x[1]))
    <3> HIDE DEF c
    <3> QED BY <1>4, <2>1, <2>2
  <2> QED BY <1>7, <2>3
<1>9. Does(it)
  <2> HIDE DEF Does
  <2> QED BY <1>8
<1> HIDE DEF it
<1>10. Follows(it, S, V, g, c, o)
  BY <1>4, <1>9 DEF Follows, Return
<1>12. FoldKeeps(R, S, V, o)
  BY <1>0 DEF V, FoldKeeps
<1>11. it[S] \in V /\ <<it[S], S>> \in R
  <2> HIDE DEF c, o
  <2> QED BY <1>6, <1>10, <1>12, FoldKept
<1> QED BY <1>0, <1>5, <1>11 DEF V

\* The copies back of Finish are enqueues on the comm stream.
LEMMA CopyBackGrows ==
  ASSUME NEW g \in Hosts, NEW P \in SUBSET (Bufs \X Bufs), NEW T,
         \A p \in P : p[1] \in T /\ p[2] \in T
  PROVE  CopyBack(g, P) \in Grown(g, T)
<1> DEFINE R == Grown(g, T) \X SUBSET Differ(P)
<1>1. <<g, {}>> \in R
  BY GrownRefl
<1>2. ASSUME NEW s \in SUBSET Differ(P), NEW p \in Differ(P), NEW k \in Hosts,
             p \notin s, <<k, s>> \in R
      PROVE  <<Return(k, p), s \cup {p}>> \in R
  <2>1. p[1] \in Bufs /\ p[2] \in Bufs /\ p[1] \in T /\ p[2] \in T
    BY DEF Differ
  <2>2. Return(k, p) \in Grown(g, T)
    BY <1>2, <2>1, CopyType, EnqueueGrows DEF Return
  <2> QED BY <1>2, <2>2
<1> HIDE DEF R
<1>3. <<CopyBack(g, P), Differ(P)>> \in R
  BY <1>1, <1>2, CopyBackKept
<1> QED BY <1>3 DEF R

\* The same for mojoccl's gather.
LEMMA CopyOutKept ==
  ASSUME NEW g \in Hosts, NEW from \in Bufs, NEW S \in SUBSET Bufs, NEW R, <<g, {}>> \in R,
         \A s \in SUBSET S, b \in S, k \in Hosts :
           b \notin s /\ <<k, s>> \in R => <<Enqueue(k, "comm", Copy(from, b)), s \cup {b}>> \in R
  PROVE  CopyOut(g, from, S) \in Hosts /\ <<CopyOut(g, from, S), S>> \in R
<1> DEFINE V == Hosts
           c == [s \in SUBSET S |-> CHOOSE x \in s : TRUE]
           o == [b \in S |-> [k \in V |-> Enqueue(k, "comm", Copy(from, b))]]
           Does(f) == f = [s \in SUBSET S |-> IF s = {} THEN g
                ELSE LET x == CHOOSE x \in s : TRUE
                     IN Enqueue(f[s \ {x}], "comm", Copy(from, x))]
           it == CHOOSE f : Does(f)
<1>1. IsFiniteSet(S)
  BY BufsFinite
<1>3. \A k \in V, b \in S : Enqueue(k, "comm", Copy(from, b)) \in V
  <2> TAKE k \in V, b \in S
  <2>1. b \in {from, b} /\ from \in {from, b} /\ b \in Bufs
    OBVIOUS
  <2>2. Copy(from, b) \in OpSet
    BY <2>1, CopyType
  <2> QED BY <2>2, StreamNames, EnqueueAside
<1>4. \A s \in SUBSET S : s # {} => c[s] \in s /\ c[s] = CHOOSE x \in s : TRUE
  OBVIOUS
<1>5. CopyOut(g, from, S) = it[S]
  BY DEF CopyOut, FoldSet, MapThenFoldSet
<1> HIDE DEF V
<1>6. FoldArgs(S, V, g, c, o)
  BY <1>1, <1>3, <1>4 DEF FoldArgs, V
<1>7. PICK f \in [SUBSET S -> V] : Folds(f, S, g, c, o)
  <2> HIDE DEF c, o
  <2> QED BY <1>6, FoldExists
<1>8. Does(f)
  BY <1>4, <1>7 DEF Folds
<1>9. Does(it)
  <2> HIDE DEF Does
  <2> QED BY <1>8
<1> HIDE DEF it
<1>10. Follows(it, S, V, g, c, o)
  BY <1>4, <1>9 DEF Follows
<1>12. FoldKeeps(R, S, V, o)
  BY DEF V, FoldKeeps
<1>11. it[S] \in V /\ <<it[S], S>> \in R
  <2> HIDE DEF c, o
  <2> QED BY <1>6, <1>10, <1>12, FoldKept
<1> QED BY <1>5, <1>11 DEF V

\* Those copies are enqueues on the comm stream.
LEMMA CopyOutGrows ==
  ASSUME NEW g \in Hosts, NEW from \in Bufs, NEW S \in SUBSET Bufs, NEW T,
         from \in T, S \subseteq T
  PROVE  CopyOut(g, from, S) \in Grown(g, T)
<1> DEFINE R == Grown(g, T) \X SUBSET S
<1>1. <<g, {}>> \in R
  BY GrownRefl
<1>2. ASSUME NEW s \in SUBSET S, NEW b \in S, NEW k \in Hosts, b \notin s, <<k, s>> \in R
      PROVE  <<Enqueue(k, "comm", Copy(from, b)), s \cup {b}>> \in R
  <2>1. Enqueue(k, "comm", Copy(from, b)) \in Grown(g, T)
    BY <1>2, CopyType, EnqueueGrows
  <2> QED BY <1>2, <2>1
<1> HIDE DEF R
<1>3. <<CopyOut(g, from, S), S>> \in R
  BY <1>1, <1>2, CopyOutKept
<1> QED BY <1>3 DEF R

\* It stays inside what the group's operations touch.
LEMMA SubmitAllGrows ==
  ASSUME NEW g \in Hosts, NEW T, \A op \in GroupOps(g) : Works(op, T)
  PROVE  SubmitAll(g) \in Grown(g, T)
<1> DEFINE S == DOMAIN g.group
           V == Grown(g, T)
           c == [s \in SUBSET S |-> Max(s)]
           o == [i \in S |-> [k \in V |-> Enqueue(k, "comm", g.group[i])]]
           Does(f) == f = [s \in SUBSET S |-> IF s = {} THEN g
                ELSE Enqueue(f[s \ {Max(s)}], "comm", g.group[Max(s)])]
           it == CHOOSE f : Does(f)
<1>1. Len(g.group) \in Nat /\ S = 1..Len(g.group)
  BY HostTypes, LenProperties
<1>2. IsFiniteSet(S)
  BY <1>1, FS_Interval
<1>3. \A i \in S : g.group[i] \in OpSet /\ Works(g.group[i], T)
  BY <1>1, HostTypes DEF GroupOps
<1>4. \A k \in V, i \in S : Enqueue(k, "comm", g.group[i]) \in V
  BY <1>3, EnqueueGrows
<1>5. \A s \in SUBSET S : s # {} => c[s] \in s
  BY <1>1, HasMax
<1>6. SubmitAll(g) = it[S]
  BY DEF SubmitAll, FoldLeft, MapThenFoldSet
<1> HIDE DEF V, S
<1>7. FoldArgs(S, V, g, c, o)
  BY <1>2, <1>4, <1>5, GrownRefl DEF FoldArgs, V
<1>8. PICK f \in [SUBSET S -> V] : Folds(f, S, g, c, o)
  <2> HIDE DEF c, o
  <2> QED BY <1>7, FoldExists
<1>9. Does(f)
  BY <1>5, <1>8 DEF Folds
<1>10. Does(it)
  <2> HIDE DEF Does
  <2> QED BY <1>9
<1> HIDE DEF it
<1>11. Follows(it, S, V, g, c, o)
  BY <1>5, <1>10 DEF Follows
<1>12. it[S] \in V
  <2> HIDE DEF c, o
  <2> QED BY <1>7, <1>11, FoldStays
<1> QED BY <1>6, <1>12 DEF V

-----------------------------------------------------------------------------
(* What part of a collective issues.                                       *)

\* Nothing issued yet.
LEMMA IssuesRefl ==
  ASSUME NEW g \in Hosts, NEW G, NEW T, NEW D
  PROVE  Issues(g, g, G, T, D, {}, {})
BY ExtendsRefl DEF Issues

\* Nothing of what is issued is lost by a later state of the same batch.
LEMMA IssuesLater ==
  ASSUME NEW g \in Hosts, NEW k, NEW G, NEW T, NEW D, NEW R, NEW P,
         Issues(g, k, G, T, D, R, P),
         NEW m \in Hosts, Extends(k, m, "comm", T), Aside(k, m)
  PROVE  Issues(g, m, G, T, D, R, P)
<1>1. Extends(g, m, "comm", T)
  BY ExtendsTrans DEF Issues
<1>2. \A b \in Bufs : k.users[b] \subseteq m.users[b]
  BY DEF Extends
<1>3. GroupOps(m) = GroupOps(k) /\ m.group = k.group /\ m.open = k.open
      /\ m.block = k.block /\ m.records = k.records /\ m.pairs = k.pairs
  BY DEF Aside, GroupOps
<1>4. k \in Hosts /\ m \in Hosts
  BY DEF Issues
<1>5. ASSUME ~g.block, NEW b \in Bufs, b \in R \cup {p[1] : p \in P}
      PROVE  Owner(b) = "comm" \/ "comm" \in m.users[b]
  BY <1>2, <1>5 DEF Issues
<1> QED BY <1>1, <1>3, <1>5 DEF Issues

\* Waiting for the caller's stream issues nothing.
LEMMA IssuesWait ==
  ASSUME NEW g \in Hosts, NEW k, NEW G, NEW T, NEW D, NEW R, NEW P,
         Issues(g, k, G, T, D, R, P)
  PROVE  Issues(g, WaitStream(k, "comm", "cur"), G, T, D, R, P)
<1> DEFINE m == WaitStream(k, "comm", "cur")
<1>1. k \in Hosts /\ {"cur", "comm"} \subseteq Streams
  BY DEF Issues, Streams
<1>2. m \in Hosts /\ m.q = k.q /\ m.users = k.users /\ Aside(k, m)
  BY <1>1, WaitStreamFields
<1> HIDE DEF m
<1>3. Extends(k, m, "comm", T)
  BY <1>1, <1>2, ExtendsRefl
<1>4. Issues(g, m, G, T, D, R, P)
  BY <1>2, <1>3, IssuesLater
<1> QED BY <1>4 DEF m

\* More enqueues on the comm stream.
LEMMA IssuesGrown ==
  ASSUME NEW g \in Hosts, NEW k, NEW G, NEW T, NEW D, NEW R, NEW P,
         Issues(g, k, G, T, D, R, P), NEW m \in Grown(k, T)
  PROVE  Issues(g, m, G, T, D, R, P)
BY IssuesLater DEF Grown

\* One more operation on the comm stream.
LEMMA IssuesEnqueue ==
  ASSUME NEW g \in Hosts, NEW k, NEW G, NEW T, NEW D, NEW R, NEW P,
         Issues(g, k, G, T, D, R, P), NEW op \in OpSet, Works(op, T)
  PROVE  Issues(g, Enqueue(k, "comm", op), G, T, D, R, P)
<1>1. k \in Hosts
  BY DEF Issues
<1>2. Enqueue(k, "comm", op) \in Grown(k, T)
  BY <1>1, GrownRefl, EnqueueGrows
<1> QED BY <1>2, IssuesGrown

\* An operation queued in the library's group.
LEMMA GroupAppend ==
  ASSUME NEW k \in Hosts, NEW op \in OpSet
  PROVE  /\ [k EXCEPT !.group = Append(@, op)] \in Hosts
         /\ GroupOps([k EXCEPT !.group = Append(@, op)]) = GroupOps(k) \cup {op}
<1> DEFINE m == [k EXCEPT !.group = Append(@, op)]
<1>1. k.group \in Seq(OpSet) /\ Append(k.group, op) \in Seq(OpSet)
  BY DEF Hosts
<1>2. m \in Hosts /\ m.group = Append(k.group, op)
  BY <1>1 DEF Hosts
<1> HIDE DEF m
<1>3. /\ Len(m.group) = Len(k.group) + 1 /\ m.group[Len(k.group) + 1] = op
      /\ Len(k.group) \in Nat
      /\ \A i \in 1..Len(k.group) : m.group[i] = k.group[i]
  BY <1>1, <1>2, AppendProperties
<1>4. 1..(Len(k.group) + 1) = (1..Len(k.group)) \cup {Len(k.group) + 1}
  BY <1>3
<1>5. GroupOps(m) = GroupOps(k) \cup {op}
  BY <1>3, <1>4 DEF GroupOps
<1> QED BY <1>2, <1>5 DEF m

\* A library call, queued by NCCL or enqueued at once.
LEMMA IssuesSubmit ==
  ASSUME NEW g \in Hosts, NEW k, NEW G, NEW T, NEW D, NEW R, NEW P,
         Issues(g, k, G, T, D, R, P), NEW op \in OpSet, Works(op, T),
         NEW grouped \in BOOLEAN, grouped => G,
         lib = "nccl" => Works(op, D)
  PROVE  Issues(g, Submit(k, grouped, op), G, T, D, R, P)
<1> DEFINE w == WaitStream(k, "comm", "cur")
<1>1. Issues(g, w, G, T, D, R, P)
  BY IssuesWait
<1> HIDE DEF w
<1>2. CASE grouped /\ lib = "nccl"
  <2> DEFINE m == [w EXCEPT !.group = Append(@, op)]
  <2>1. Submit(k, grouped, op) = m
    BY <1>2 DEF Submit, w
  <2>2. w \in Hosts
    BY <1>1 DEF Issues
  <2>3. m \in Hosts /\ GroupOps(m) = GroupOps(w) \cup {op}
    BY <2>2, GroupAppend
  <2>4. m.q = w.q /\ m.users = w.users /\ m.open = w.open /\ m.block = w.block
        /\ m.records = w.records /\ m.pairs = w.pairs
    BY <2>2 DEF Hosts
  <2> HIDE DEF m
  <2>5. Extends(w, m, "comm", T)
    BY <2>2, <2>3, <2>4, ExtendsRefl
  <2>6. Extends(g, m, "comm", T)
    BY <1>1, <2>3, <2>5, ExtendsTrans DEF Issues
  <2>7. Issues(g, m, G, T, D, R, P)
    BY <1>1, <1>2, <2>3, <2>4, <2>6 DEF Issues
  <2> QED BY <2>1, <2>7
<1>3. CASE ~(grouped /\ lib = "nccl")
  <2>1. Submit(k, grouped, op) = Enqueue(w, "comm", op)
    BY <1>3 DEF Submit, w
  <2> QED BY <1>1, <2>1, IssuesEnqueue
<1> QED BY <1>2, <1>3

\* Record fences bufs, or defers their fences.
LEMMA IssuesRecord ==
  ASSUME NEW g \in Hosts, NEW k, NEW G, NEW T, NEW D, NEW R, NEW P,
         Issues(g, k, G, T, D, R, P), NEW bufs \in SUBSET Bufs
  PROVE  Issues(g, Record(k, bufs), G, T, D, R \cup bufs, P)
<1>1. k \in Hosts /\ k.block = g.block /\ "comm" \in Streams
  BY DEF Issues, Streams
<1>2. CASE g.block
  <2> DEFINE m == [k EXCEPT !.records = @ \cup bufs]
  <2>1. Record(k, bufs) = m
    BY <1>1, <1>2 DEF Record
  <2>2. m \in Hosts /\ m.q = k.q /\ m.users = k.users /\ m.open = k.open
        /\ m.block = k.block /\ m.pairs = k.pairs /\ m.group = k.group
        /\ m.records = k.records \cup bufs
    BY <1>1 DEF Hosts
  <2> HIDE DEF m
  <2>3. Extends(k, m, "comm", T)
    BY <1>1, <2>2, ExtendsRefl
  <2>4. Extends(g, m, "comm", T)
    BY <1>1, <2>2, <2>3, ExtendsTrans DEF Issues
  <2>5. Issues(g, m, G, T, D, R \cup bufs, P)
    BY <1>2, <2>2, <2>4 DEF Issues, GroupOps
  <2> QED BY <2>1, <2>5
<1>3. CASE ~g.block
  <2> DEFINE m == RecordStream(k, bufs, "comm")
  <2>1. Record(k, bufs) = m
    BY <1>1, <1>3 DEF Record
  <2>2. m \in Hosts /\ m.q = k.q /\ Aside(k, m)
        /\ \A b \in Bufs : k.users[b] \subseteq m.users[b]
    BY <1>1, RecordStreamFields
  <2>3. \A b \in bufs : Owner(b) = "comm" \/ "comm" \in m.users[b]
    BY <1>1, RecordStreamFields
  <2> HIDE DEF m
  <2>4. Extends(k, m, "comm", T)
    BY <1>1, <2>2, ExtendsRefl
  <2>5. Issues(g, m, G, T, D, R, P)
    BY <2>2, <2>4, IssuesLater
  <2>6. Issues(g, m, G, T, D, R \cup bufs, P)
    BY <1>3, <2>3, <2>5 DEF Issues
  <2> QED BY <2>1, <2>6
<1>4. g.block \in BOOLEAN
  BY DEF Hosts
<1> QED BY <1>2, <1>3, <1>4

\* Finish copies back and fences the tensors of the pairs, or defers both.
LEMMA IssuesFinish ==
  ASSUME NEW g \in Hosts, NEW k, NEW G, NEW T, NEW D, NEW R, NEW P,
         Issues(g, k, G, T, D, R, P), NEW prs \in SUBSET (Bufs \X Bufs),
         PairBufs(prs) \subseteq T
  PROVE  Issues(g, Finish(k, prs), G, T, D, R, P \cup prs)
<1>1. k \in Hosts /\ k.block = g.block /\ "comm" \in Streams
  BY DEF Issues, Streams
<1>2. CASE g.block
  <2> DEFINE m == [k EXCEPT !.pairs = @ \cup prs]
  <2>1. Finish(k, prs) = m
    BY <1>1, <1>2 DEF Finish
  <2>2. m \in Hosts /\ m.q = k.q /\ m.users = k.users /\ m.open = k.open
        /\ m.block = k.block /\ m.records = k.records /\ m.group = k.group
        /\ m.pairs = k.pairs \cup prs
    BY <1>1 DEF Hosts
  <2> HIDE DEF m
  <2>3. Extends(k, m, "comm", T)
    BY <1>1, <2>2, ExtendsRefl
  <2>4. Extends(g, m, "comm", T)
    BY <1>1, <2>2, <2>3, ExtendsTrans DEF Issues
  <2>5. Issues(g, m, G, T, D, R, P \cup prs)
    BY <1>2, <2>2, <2>4 DEF Issues, GroupOps
  <2> QED BY <2>1, <2>5
<1>3. CASE ~g.block
  <2> DEFINE firsts == {p[1] : p \in prs}
             n == CopyBack(k, prs)
             m == RecordStream(n, firsts, "comm")
  <2>1. Finish(k, prs) = m
    BY <1>1, <1>3 DEF Finish
  <2>2. n \in Grown(k, T)
    BY <1>1, CopyBackGrows DEF PairBufs
  <2>3. Issues(g, n, G, T, D, R, P)
    BY <2>2, IssuesGrown
  <2> HIDE DEF n
  <2>4. n \in Hosts /\ firsts \in SUBSET Bufs
    BY <2>3 DEF Issues
  <2> HIDE DEF firsts
  <2>5. m \in Hosts /\ m.q = n.q /\ Aside(n, m)
        /\ \A b \in Bufs : n.users[b] \subseteq m.users[b]
    BY <1>1, <2>4, RecordStreamFields
  <2>6. \A b \in firsts : Owner(b) = "comm" \/ "comm" \in m.users[b]
    BY <1>1, <2>4, RecordStreamFields
  <2> HIDE DEF m
  <2>7. Extends(n, m, "comm", T)
    BY <2>4, <2>5, ExtendsRefl
  <2>8. Issues(g, m, G, T, D, R, P)
    BY <2>3, <2>5, <2>7, IssuesLater
  <2>9. {p[1] : p \in P \cup prs} = {p[1] : p \in P} \cup firsts
    BY DEF firsts
  <2>10. Issues(g, m, G, T, D, R, P \cup prs)
    BY <1>3, <2>6, <2>8, <2>9 DEF Issues
  <2> QED BY <2>1, <2>10
<1>4. g.block \in BOOLEAN
  BY DEF Hosts
<1> QED BY <1>2, <1>3, <1>4

\* An empty group holds no operation.
LEMMA EmptyGroup == \A g : g.group = <<>> => GroupOps(g) = {}
BY EmptySeq DEF GroupOps

\* Closing the library's group submits all of it.
LEMMA GroupEndFields ==
  ASSUME NEW g \in Hosts, NEW T, \A op \in GroupOps(g) : Works(op, T)
  PROVE  LET m == GroupEnd(g)
         IN /\ m \in Hosts /\ Extends(g, m, "comm", T)
            /\ m.group = <<>> /\ m.open = FALSE /\ m.block = g.block
            /\ m.records = g.records /\ m.pairs = g.pairs /\ m.users = g.users
<1> DEFINE n == SubmitAll(g)
           m == [n EXCEPT !.group = <<>>, !.open = FALSE]
<1>1. GroupEnd(g) = m
  BY DEF GroupEnd, SubmitAll
<1>2. n \in Grown(g, T)
  BY SubmitAllGrows
<1>3. n \in Hosts /\ Aside(g, n) /\ n.users = g.users /\ Extends(g, n, "comm", T)
  BY <1>2 DEF Grown
<1> HIDE DEF n
<1>4. m \in Hosts /\ m.q = n.q /\ m.users = n.users
      /\ m.group = <<>> /\ m.open = FALSE /\ m.block = n.block
      /\ m.records = n.records /\ m.pairs = n.pairs
  <2>1. <<>> \in Seq(OpSet)
    BY EmptySeq
  <2> QED BY <1>3, <2>1 DEF Hosts
<1> HIDE DEF m
<1>5. Extends(n, m, "comm", T)
  BY <1>3, <1>4, ExtendsRefl
<1>6. Extends(g, m, "comm", T)
  BY <1>3, <1>4, <1>5, ExtendsTrans
<1> QED BY <1>1, <1>3, <1>4, <1>6 DEF Aside

\* A collective that opened the group itself closes it (alltoall).
LEMMA IssuesGroupEnd ==
  ASSUME NEW g \in Hosts, NEW k, NEW G, NEW T, NEW D \in SUBSET T, NEW R, NEW P,
         Issues(g, k, TRUE, T, D, R, P), g.group = <<>>, g.open = FALSE
  PROVE  Issues(g, GroupEnd(k), G, T, D, R, P)
<1> DEFINE m == GroupEnd(k)
<1>1. \A op \in GroupOps(k) : Works(op, T)
  BY EmptyGroup DEF Issues, Works
<1>2. k \in Hosts
  BY DEF Issues
<1>3. /\ m \in Hosts /\ Extends(k, m, "comm", T)
      /\ m.group = <<>> /\ m.open = FALSE /\ m.block = k.block
      /\ m.records = k.records /\ m.pairs = k.pairs /\ m.users = k.users
  BY <1>1, <1>2, GroupEndFields
<1> HIDE DEF m
<1>4. Extends(g, m, "comm", T)
  BY <1>2, <1>3, ExtendsTrans DEF Issues
<1>5. GroupOps(m) = {}
  BY <1>3, EmptyGroup
<1>6. Issues(g, m, G, T, D, R, P)
  BY <1>3, <1>4, <1>5 DEF Issues
<1> QED BY <1>6 DEF m

-----------------------------------------------------------------------------
(* The collectives.                                                        *)

\* The constants name collectives and libraries that exist.
LEMMA KindsAre == Kinds \subseteq AllKinds /\ Libs \subseteq {"nccl", "mojoccl"}
BY StreamsAssumption DEF AllKinds

\* Tensors are the caller's, their stages are not.
LEMMA RoleFacts ==
  /\ UserRoles \subseteq Roles /\ {"sin", "sout", "sown", "flat"} = Internal
  /\ {"in", "out", "own"} = UserRoles
  /\ \A r \in UserRoles : StageOf[r] \in Internal
BY DEF Roles, UserRoles, StageOf, Internal

\* A collective's tensors are of the caller's roles.
LEMMA TensorRoles ==
  ASSUME NEW kind \in AllKinds PROVE Tensors(kind) \subseteq UserRoles
BY DEF AllKinds, Tensors, Outputs, UserRoles

\* What the library sees of a tensor: itself, or a stage the comm stream owns.
LEMMA StagedFacts ==
  ASSUME NEW c \in Calls, strided \in BOOLEAN, NEW kind \in AllKinds, NEW r \in Tensors(kind)
  PROVE  /\ <<c, r>> \in Mine(c, kind) /\ <<c, r>> \in Own(c, kind) /\ <<c, r>> \in Bufs
         /\ Staged(c, r) \in Own(c, kind) /\ Staged(c, r) \in Bufs
         /\ Staged(c, r) \in Mine(c, kind) \cup Local(c, kind)
         /\ Staged(c, r) = <<c, r>> \/ Owner(Staged(c, r)) = "comm"
<1>1. r \in UserRoles /\ StageOf[r] \in Internal /\ UserRoles \subseteq Roles
  BY TensorRoles, RoleFacts
<1>2. StageOf[r] \in Roles /\ StageOf[r] \notin UserRoles
  BY <1>1 DEF Internal
<1>3. <<c, r>> \in Mine(c, kind) /\ <<c, r>> \in Bufs
  BY <1>1 DEF Mine, Bufs
<1>4. CASE strided
  <2>1. Staged(c, r) = <<c, StageOf[r]>>
    BY <1>4 DEF Staged
  <2>2. Staged(c, r) \in Local(c, kind)
    BY <1>4, <2>1 DEF Local
  <2>3. Owner(Staged(c, r)) = "comm"
    BY <1>2, <2>1 DEF Owner
  <2> QED BY <1>1, <1>2, <1>3, <2>1, <2>2, <2>3 DEF Own, Bufs
<1>5. CASE ~strided
  <2>1. Staged(c, r) = <<c, r>>
    BY <1>5 DEF Staged
  <2> QED BY <1>3, <2>1 DEF Own
<1> QED BY <1>4, <1>5

\* The adapter's buffers are the comm stream's.
LEMMA InternalFacts ==
  ASSUME NEW c \in Calls, NEW kind, NEW r \in Internal
  PROVE  <<c, r>> \in Own(c, kind) /\ <<c, r>> \in Bufs /\ Owner(<<c, r>>) = "comm"
BY DEF Own, Bufs, Internal, Owner

\* A call's buffers are buffers.
LEMMA OwnBufs ==
  ASSUME NEW c \in Calls, NEW kind \in AllKinds
  PROVE  Own(c, kind) \subseteq Bufs /\ Mine(c, kind) \subseteq Bufs
BY TensorRoles, RoleFacts DEF Own, Mine, Internal, Bufs

\* A library operation touches its reads and writes, staged or not.
LEMMA LibraryWorks ==
  ASSUME NEW reads \in SUBSET Bufs, NEW writes \in SUBSET Bufs, NEW T,
         reads \subseteq T, writes \subseteq T
  PROVE  Op("library", reads, writes) \in OpSet /\ Works(Op("library", reads, writes), T)
<1>1. "library" \in OpKinds /\ "library" # "release"
  BY DEF OpKinds
<1> QED BY <1>1, OpType DEF Works, Touches

\* The library's operation of a call works on what it sees of the tensors.
LEMMA LibWorks ==
  ASSUME NEW c, NEW reads, NEW writes, NEW T,
         \A r \in reads \cup writes : Staged(c, r) \in T /\ Staged(c, r) \in Bufs
  PROVE  Lib(c, reads, writes) \in OpSet /\ Works(Lib(c, reads, writes), T)
<1> DEFINE rd == {Staged(c, r) : r \in reads}
           wr == {Staged(c, r) : r \in writes}
<1>1. rd \in SUBSET Bufs /\ wr \in SUBSET Bufs /\ rd \subseteq T /\ wr \subseteq T
  OBVIOUS
<1>2. Lib(c, reads, writes) = Op("library", rd, wr)
  BY DEF Lib
<1> HIDE DEF rd, wr
<1> QED BY <1>1, <1>2, LibraryWorks

\* StageIn waits for the caller's stream and copies the input on the comm one.
LEMMA IssuesStageIn ==
  ASSUME NEW g \in Hosts, NEW k, NEW G, NEW T, NEW D, NEW R, NEW P,
         Issues(g, k, G, T, D, R, P), NEW c \in Calls, strided \in BOOLEAN,
         <<c, "in">> \in T, <<c, "sin">> \in T
  PROVE  Issues(g, StageIn(k, c), G, T, D, R, P)
<1>1. CASE strided
  <2>1. <<c, "in">> \in Bufs /\ <<c, "sin">> \in Bufs
    BY DEF Bufs, Roles, UserRoles
  <2>2. Copy(<<c, "in">>, <<c, "sin">>) \in OpSet
        /\ Works(Copy(<<c, "in">>, <<c, "sin">>), T)
    BY <2>1, CopyType
  <2>3. Issues(g, WaitStream(k, "comm", "cur"), G, T, D, R, P)
    BY IssuesWait
  <2>4. Issues(g, Enqueue(WaitStream(k, "comm", "cur"), "comm",
                          Copy(<<c, "in">>, <<c, "sin">>)), G, T, D, R, P)
    BY <2>2, <2>3, IssuesEnqueue
  <2> QED BY <1>1, <2>4 DEF StageIn
<1>2. CASE ~strided
  BY <1>2 DEF StageIn
<1> QED BY <1>1, <1>2

\* The copies back of some of a call's tensors.
LEMMA PairFacts ==
  ASSUME NEW c \in Calls, strided \in BOOLEAN, NEW kind \in AllKinds,
         NEW roles \in SUBSET Tensors(kind)
  PROVE  /\ Pairs(c, roles) \in SUBSET (Bufs \X Bufs)
         /\ PairBufs(Pairs(c, roles)) \subseteq Own(c, kind)
         /\ PairBufs(Pairs(c, roles)) \subseteq Mine(c, kind) \cup Local(c, kind)
         /\ \A p \in Pairs(c, roles) : p[2] = p[1] \/ Owner(p[2]) = "comm"
         /\ \A r \in roles : <<c, r>> \in {p[1] : p \in Pairs(c, roles)}
                             /\ <<c, r>> \in PairBufs(Pairs(c, roles))
                             /\ Staged(c, r) \in PairBufs(Pairs(c, roles))
<1>1. \A r \in roles :
         /\ <<c, r>> \in Mine(c, kind) /\ <<c, r>> \in Own(c, kind) /\ <<c, r>> \in Bufs
         /\ Staged(c, r) \in Own(c, kind) /\ Staged(c, r) \in Bufs
         /\ Staged(c, r) \in Mine(c, kind) \cup Local(c, kind)
         /\ Staged(c, r) = <<c, r>> \/ Owner(Staged(c, r)) = "comm"
  BY StagedFacts
<1>2. \A p \in Pairs(c, roles) : \E r \in roles :
         p = <<<<c, r>>, Staged(c, r)>> /\ p[1] = <<c, r>> /\ p[2] = Staged(c, r)
  BY DEF Pairs
<1>3. \A r \in roles : <<<<c, r>>, Staged(c, r)>> \in Pairs(c, roles)
  BY DEF Pairs
<1>4. ASSUME NEW r \in roles
      PROVE  /\ <<c, r>> \in {p[1] : p \in Pairs(c, roles)}
             /\ Staged(c, r) \in {p[2] : p \in Pairs(c, roles)}
  <2> DEFINE p == <<<<c, r>>, Staged(c, r)>>
  <2>1. p \in Pairs(c, roles)
    BY <1>3
  <2>2. p[1] = <<c, r>> /\ p[2] = Staged(c, r)
    OBVIOUS
  <2> HIDE DEF p
  <2> QED BY <2>1, <2>2
<1>5. ASSUME NEW p \in Pairs(c, roles)
      PROVE  /\ p \in Bufs \X Bufs
             /\ p[1] \in Own(c, kind) /\ p[1] \in Mine(c, kind)
             /\ p[2] \in Own(c, kind) /\ p[2] \in Mine(c, kind) \cup Local(c, kind)
             /\ p[2] = p[1] \/ Owner(p[2]) = "comm"
  <2>1. PICK r \in roles : p = <<<<c, r>>, Staged(c, r)>> /\ p[1] = <<c, r>> /\ p[2] = Staged(c, r)
    BY <1>2
  <2> DEFINE a == <<c, r>>
             b == Staged(c, r)
  <2>2. /\ a \in Mine(c, kind) /\ a \in Own(c, kind) /\ a \in Bufs
        /\ b \in Own(c, kind) /\ b \in Bufs /\ b \in Mine(c, kind) \cup Local(c, kind)
        /\ b = a \/ Owner(b) = "comm"
    <3>1. r \in Tensors(kind)
      OBVIOUS
    <3> QED BY <3>1, StagedFacts
  <2>3. p = <<a, b>> /\ p[1] = a /\ p[2] = b
    BY <2>1
  <2> HIDE DEF a, b
  <2>4. p \in Bufs \X Bufs
    BY <2>2, <2>3
  <2> QED BY <2>2, <2>3, <2>4
<1> QED BY <1>4, <1>5 DEF PairBufs

\* The input and its stage, which the methods record.
LEMMA InputFacts ==
  ASSUME NEW c \in Calls, strided \in BOOLEAN, NEW kind \in AllKinds \ {"recv"}
  PROVE  /\ Inputs(c) \in SUBSET Bufs /\ <<c, "in">> \in Inputs(c) /\ Staged(c, "in") \in Inputs(c)
         /\ Inputs(c) \subseteq Mine(c, kind) \cup Local(c, kind)
         /\ "in" \in Tensors(kind)
<1>1. "in" \in Tensors(kind)
  BY DEF Tensors
<1> QED BY <1>1, StagedFacts DEF Inputs

\* How each method's lemma ends.
LEMMA Concluding ==
  ASSUME NEW g, NEW k, NEW G, NEW c, NEW kind,
         NEW R \in SUBSET Bufs, NEW P \in SUBSET (Bufs \X Bufs),
         Issues(g, k, G, Own(c, kind), R \cup PairBufs(P), R, P),
         Mine(c, kind) \subseteq R \cup {p[1] : p \in P},
         R \subseteq Mine(c, kind) \cup Local(c, kind),
         PairBufs(P) \subseteq Mine(c, kind) \cup Local(c, kind),
         \A p \in P : p[2] = p[1] \/ Owner(p[2]) = "comm"
  PROVE  Collects(g, k, G, c, kind)
BY DEF Collects

\* allreduce, broadcast, reduce.
LEMMA InPlaceCollects ==
  ASSUME NEW g \in Hosts, NEW G \in BOOLEAN, NEW c \in Calls, strided \in BOOLEAN
  PROVE  Collects(g, InPlace(g, G, c), G, c, "inplace")
<1> DEFINE kind == "inplace"
           T == Own(c, kind)
           P == Pairs(c, {"in"})
           D == {} \cup PairBufs(P)
           k1 == StageIn(g, c)
           k2 == Submit(k1, G, Lib(c, {"in"}, {"in"}))
           k3 == Finish(k2, P)
<1>1. kind \in AllKinds /\ Tensors(kind) = {"in"} /\ {"in"} \in SUBSET Tensors(kind)
  BY DEF AllKinds, Tensors, Outputs
<1>2. /\ P \in SUBSET (Bufs \X Bufs) /\ PairBufs(P) \subseteq T
      /\ PairBufs(P) \subseteq Mine(c, kind) \cup Local(c, kind)
      /\ \A p \in P : p[2] = p[1] \/ Owner(p[2]) = "comm"
      /\ <<c, "in">> \in {p[1] : p \in P} /\ Staged(c, "in") \in PairBufs(P)
  BY <1>1, PairFacts
<1>3. <<c, "in">> \in T /\ <<c, "sin">> \in T /\ Staged(c, "in") \in T /\ Staged(c, "in") \in Bufs
  BY <1>1, StagedFacts, RoleFacts, InternalFacts
<1>4. Lib(c, {"in"}, {"in"}) \in OpSet /\ Works(Lib(c, {"in"}, {"in"}), T)
      /\ Works(Lib(c, {"in"}, {"in"}), D)
  BY <1>2, <1>3, LibWorks
<1>5. Mine(c, kind) \subseteq {} \cup {p[1] : p \in P}
  BY <1>1, <1>2 DEF Mine
<1>6. InPlace(g, G, c) = k3
  BY DEF InPlace
<1> HIDE DEF T, P, D, k1, k2, k3, kind
<1>7. Issues(g, g, G, T, D, {}, {})
  BY IssuesRefl
<1>8. Issues(g, k1, G, T, D, {}, {})
  BY <1>3, <1>7, IssuesStageIn DEF k1
<1>9. Issues(g, k2, G, T, D, {}, {})
  BY <1>4, <1>8, IssuesSubmit DEF k2
<1>10. Issues(g, k3, G, T, D, {}, {} \cup P)
  BY <1>2, <1>9, IssuesFinish DEF k3
<1>11. Collects(g, k3, G, c, kind)
  <2>1. Issues(g, k3, G, Own(c, kind), {} \cup PairBufs(P), {}, P)
    BY <1>10 DEF T, D
  <2> QED BY <1>2, <1>5, <2>1, Concluding
<1> QED BY <1>6, <1>11 DEF kind

\* _allgather_base, _reduce_scatter_base.
LEMMA FlatCollects ==
  ASSUME NEW g \in Hosts, NEW G \in BOOLEAN, NEW c \in Calls, strided \in BOOLEAN
  PROVE  Collects(g, Flat(g, G, c), G, c, "flat")
<1> DEFINE kind == "flat"
           T == Own(c, kind)
           P == Pairs(c, {"out"})
           I == Inputs(c)
           D == I \cup PairBufs(P)
           k1 == StageIn(g, c)
           k2 == Submit(k1, G, Lib(c, {"in"}, {"out"}))
           k3 == Record(k2, I)
           k4 == Finish(k3, P)
<1>1. kind \in AllKinds \ {"recv"} /\ Tensors(kind) = {"in", "out"}
      /\ {"out"} \in SUBSET Tensors(kind)
  BY DEF AllKinds, Tensors, Outputs
<1>2. /\ P \in SUBSET (Bufs \X Bufs) /\ PairBufs(P) \subseteq T
      /\ PairBufs(P) \subseteq Mine(c, kind) \cup Local(c, kind)
      /\ \A p \in P : p[2] = p[1] \/ Owner(p[2]) = "comm"
      /\ <<c, "out">> \in {p[1] : p \in P} /\ Staged(c, "out") \in PairBufs(P)
  BY <1>1, PairFacts
<1>3. I \in SUBSET Bufs /\ <<c, "in">> \in I /\ Staged(c, "in") \in I
      /\ I \subseteq Mine(c, kind) \cup Local(c, kind)
  BY <1>1, InputFacts
<1>4. /\ <<c, "in">> \in T /\ <<c, "sin">> \in T
      /\ \A r \in {"in"} \cup {"out"} : Staged(c, r) \in T /\ Staged(c, r) \in Bufs /\ Staged(c, r) \in D
  BY <1>1, <1>2, <1>3, StagedFacts, RoleFacts, InternalFacts
<1>5. Lib(c, {"in"}, {"out"}) \in OpSet /\ Works(Lib(c, {"in"}, {"out"}), T)
      /\ Works(Lib(c, {"in"}, {"out"}), D)
  BY <1>4, LibWorks
<1>6. Mine(c, kind) \subseteq I \cup {p[1] : p \in P}
  BY <1>1, <1>2, <1>3 DEF Mine
<1>7. Flat(g, G, c) = k4
  BY DEF Flat
<1> HIDE DEF T, P, I, D, k1, k2, k3, k4, kind
<1>8. Issues(g, g, G, T, D, {}, {})
  BY IssuesRefl
<1>9. Issues(g, k1, G, T, D, {}, {})
  BY <1>4, <1>8, IssuesStageIn DEF k1
<1>10. Issues(g, k2, G, T, D, {}, {})
  BY <1>5, <1>9, IssuesSubmit DEF k2
<1>11. Issues(g, k3, G, T, D, {} \cup I, {})
  BY <1>3, <1>10, IssuesRecord DEF k3
<1>12. Issues(g, k4, G, T, D, {} \cup I, {} \cup P)
  BY <1>2, <1>11, IssuesFinish DEF k4
<1>13. Collects(g, k4, G, c, kind)
  <2>1. Issues(g, k4, G, Own(c, kind), I \cup PairBufs(P), I, P)
    BY <1>12 DEF T, D
  <2> QED BY <1>2, <1>3, <1>6, <2>1, Concluding
<1> QED BY <1>7, <1>13 DEF kind

\* The calls that allocate a flat buffer.
LEMMA FlatFacts ==
  ASSUME NEW c \in Calls, NEW kind,
         \/ kind \in {"allgather", "reduce_scatter"}
         \/ lib = "mojoccl" /\ kind \in {"gather", "scatter"}
  PROVE  <<c, "flat">> \in Local(c, kind)
BY DEF Local

\* alltoall, which opens the group itself outside a block.
LEMMA AllToAllCollects ==
  ASSUME NEW g \in Hosts, NEW G \in BOOLEAN, NEW c \in Calls, strided \in BOOLEAN,
         G \/ (g.group = <<>> /\ g.open = FALSE)
  PROVE  Collects(g, AllToAll(g, G, c), G, c, "alltoall")
<1> DEFINE kind == "alltoall"
           T == Own(c, kind)
           P == Pairs(c, {"out"})
           I == Inputs(c)
           D == I \cup PairBufs(P)
           k1 == StageIn(g, c)
           k2 == Submit(k1, TRUE, Lib(c, {"in"}, {}))
           k3 == Submit(k2, TRUE, Lib(c, {}, {"out"}))
           k4 == IF G THEN k3 ELSE GroupEnd(k3)
           k5 == Record(k4, I)
           k6 == Finish(k5, P)
<1>1. kind \in AllKinds \ {"recv"} /\ Tensors(kind) = {"in", "out"}
      /\ {"out"} \in SUBSET Tensors(kind)
  BY DEF AllKinds, Tensors, Outputs
<1>2. /\ P \in SUBSET (Bufs \X Bufs) /\ PairBufs(P) \subseteq T
      /\ PairBufs(P) \subseteq Mine(c, kind) \cup Local(c, kind)
      /\ \A p \in P : p[2] = p[1] \/ Owner(p[2]) = "comm"
      /\ <<c, "out">> \in {p[1] : p \in P} /\ Staged(c, "out") \in PairBufs(P)
  BY <1>1, PairFacts
<1>3. I \in SUBSET Bufs /\ <<c, "in">> \in I /\ Staged(c, "in") \in I
      /\ I \subseteq Mine(c, kind) \cup Local(c, kind)
  BY <1>1, InputFacts
<1>4. /\ <<c, "in">> \in T /\ <<c, "sin">> \in T
      /\ \A r \in {"in", "out"} : Staged(c, r) \in T /\ Staged(c, r) \in Bufs /\ Staged(c, r) \in D
  BY <1>1, <1>2, <1>3, StagedFacts, RoleFacts, InternalFacts
<1>5. /\ Lib(c, {"in"}, {}) \in OpSet /\ Works(Lib(c, {"in"}, {}), T)
      /\ Works(Lib(c, {"in"}, {}), D)
  BY <1>4, LibWorks
<1>6. /\ Lib(c, {}, {"out"}) \in OpSet /\ Works(Lib(c, {}, {"out"}), T)
      /\ Works(Lib(c, {}, {"out"}), D)
  BY <1>4, LibWorks
<1>7. Mine(c, kind) \subseteq I \cup {p[1] : p \in P}
  BY <1>1, <1>2, <1>3 DEF Mine
<1>8. I = {<<c, "in">>, Staged(c, "in")}
  BY DEF Inputs
<1>9. D \subseteq T
  BY <1>2, <1>4, <1>8
<1>10. AllToAll(g, G, c) = k6
  BY DEF AllToAll
<1> HIDE DEF T, P, I, D, k1, k2, k3, k4, k5, k6, kind
<1>11. Issues(g, g, TRUE, T, D, {}, {})
  BY IssuesRefl
<1>12. Issues(g, k1, TRUE, T, D, {}, {})
  BY <1>4, <1>11, IssuesStageIn DEF k1
<1>13. Issues(g, k2, TRUE, T, D, {}, {})
  BY <1>5, <1>12, IssuesSubmit DEF k2
<1>14. Issues(g, k3, TRUE, T, D, {}, {})
  BY <1>6, <1>13, IssuesSubmit DEF k3
<1>15. Issues(g, k4, G, T, D, {}, {})
  <2>1. CASE G
    <3>1. G = TRUE /\ k4 = k3
      BY <2>1 DEF k4
    <3> QED BY <1>14, <3>1
  <2>2. CASE ~G
    <3>1. Issues(g, GroupEnd(k3), G, T, D, {}, {})
      BY <1>9, <1>14, <2>2, IssuesGroupEnd
    <3> QED BY <2>2, <3>1 DEF k4
  <2> QED BY <2>1, <2>2
<1>16. Issues(g, k5, G, T, D, {} \cup I, {})
  BY <1>3, <1>15, IssuesRecord DEF k5
<1>17. Issues(g, k6, G, T, D, {} \cup I, {} \cup P)
  BY <1>2, <1>16, IssuesFinish DEF k6
<1>18. Collects(g, k6, G, c, kind)
  <2>1. Issues(g, k6, G, Own(c, kind), I \cup PairBufs(P), I, P)
    BY <1>17 DEF T, D
  <2> QED BY <1>2, <1>3, <1>7, <2>1, Concluding
<1> QED BY <1>10, <1>18 DEF kind

\* allgather, through one flat buffer.
LEMMA AllGatherCollects ==
  ASSUME NEW g \in Hosts, NEW G \in BOOLEAN, NEW c \in Calls, strided \in BOOLEAN
  PROVE  Collects(g, AllGather(g, G, c), G, c, "allgather")
<1> DEFINE kind == "allgather"
           T == Own(c, kind)
           out == <<c, "out">>
           flat == <<c, "flat">>
           P == {<<out, flat>>}
           I == Inputs(c)
           D == I \cup PairBufs(P)
           lb == Op("library", {Staged(c, "in")}, {flat})
           k1 == StageIn(g, c)
           k2 == Submit(k1, G, lb)
           k3 == Record(k2, I)
           k4 == Finish(k3, P)
<1>1. kind \in AllKinds \ {"recv"} /\ Tensors(kind) = {"in", "out"}
  BY DEF AllKinds, Tensors, Outputs
<1>2. flat \in T /\ flat \in Bufs /\ Owner(flat) = "comm" /\ flat \in Local(c, kind)
  BY RoleFacts, InternalFacts, FlatFacts
<1>3. out \in T /\ out \in Bufs /\ out \in Mine(c, kind)
  BY <1>1, StagedFacts
<1>4. I \in SUBSET Bufs /\ <<c, "in">> \in I /\ Staged(c, "in") \in I
      /\ I \subseteq Mine(c, kind) \cup Local(c, kind)
  BY <1>1, InputFacts
<1>5. <<c, "in">> \in T /\ <<c, "sin">> \in T /\ Staged(c, "in") \in T /\ Staged(c, "in") \in Bufs
  BY <1>1, StagedFacts, RoleFacts, InternalFacts
<1>6. AllGather(g, G, c) = k4
  BY DEF AllGather
<1>7. Mine(c, kind) \subseteq {<<c, "in">>, out}
  BY <1>1 DEF Mine
<1> HIDE DEF out, flat
<1>8. /\ P \in SUBSET (Bufs \X Bufs) /\ PairBufs(P) = {out, flat}
      /\ {p[1] : p \in P} = {out}
      /\ \A p \in P : p[2] = p[1] \/ Owner(p[2]) = "comm"
  BY <1>2, <1>3 DEF PairBufs
<1> HIDE DEF P
<1>9. lb \in OpSet /\ Works(lb, T) /\ Works(lb, D)
  BY <1>2, <1>4, <1>5, <1>8, LibraryWorks
<1> HIDE DEF T, I, D, lb, k1, k2, k3, k4, kind
<1>10. Issues(g, g, G, T, D, {}, {})
  BY IssuesRefl
<1>11. Issues(g, k1, G, T, D, {}, {})
  BY <1>5, <1>10, IssuesStageIn DEF k1
<1>12. Issues(g, k2, G, T, D, {}, {})
  BY <1>9, <1>11, IssuesSubmit DEF k2
<1>13. Issues(g, k3, G, T, D, {} \cup I, {})
  BY <1>4, <1>12, IssuesRecord DEF k3
<1>14. Issues(g, k4, G, T, D, {} \cup I, {} \cup P)
  BY <1>2, <1>3, <1>8, <1>13, IssuesFinish DEF k4
<1>15. Collects(g, k4, G, c, kind)
  <2>1. Issues(g, k4, G, Own(c, kind), I \cup PairBufs(P), I, P)
    BY <1>14 DEF T, D
  <2>2. Mine(c, kind) \subseteq I \cup {p[1] : p \in P}
    BY <1>4, <1>7, <1>8
  <2>3. PairBufs(P) \subseteq Mine(c, kind) \cup Local(c, kind)
    BY <1>2, <1>3, <1>8
  <2> QED BY <1>4, <1>8, <2>1, <2>2, <2>3, Concluding
<1> QED BY <1>6, <1>15 DEF kind

\* reduce_scatter, whose inputs are concatenated on the comm stream.
LEMMA ReduceScatterCollects ==
  ASSUME NEW g \in Hosts, NEW G \in BOOLEAN, NEW c \in Calls, strided \in BOOLEAN
  PROVE  Collects(g, ReduceScatter(g, G, c), G, c, "reduce_scatter")
<1> DEFINE kind == "reduce_scatter"
           T == Own(c, kind)
           P == Pairs(c, {"out"})
           in == <<c, "in">>
           flat == <<c, "flat">>
           I == {flat, in}
           D == I \cup PairBufs(P)
           cp == Copy(in, flat)
           lb == Op("library", {flat}, {Staged(c, "out")})
           k1 == WaitStream(g, "comm", "cur")
           k2 == Enqueue(k1, "comm", cp)
           k3 == Submit(k2, G, lb)
           k4 == Record(k3, I)
           k5 == Finish(k4, P)
<1>1. kind \in AllKinds \ {"recv"} /\ Tensors(kind) = {"in", "out"}
      /\ {"out"} \in SUBSET Tensors(kind)
  BY DEF AllKinds, Tensors, Outputs
<1>2. /\ P \in SUBSET (Bufs \X Bufs) /\ PairBufs(P) \subseteq T
      /\ PairBufs(P) \subseteq Mine(c, kind) \cup Local(c, kind)
      /\ \A p \in P : p[2] = p[1] \/ Owner(p[2]) = "comm"
      /\ <<c, "out">> \in {p[1] : p \in P} /\ Staged(c, "out") \in PairBufs(P)
  BY <1>1, PairFacts
<1>3. flat \in T /\ flat \in Bufs /\ flat \in Local(c, kind)
  BY RoleFacts, InternalFacts, FlatFacts
<1>4. in \in T /\ in \in Bufs /\ in \in Mine(c, kind)
      /\ Staged(c, "out") \in T /\ Staged(c, "out") \in Bufs
  BY <1>1, StagedFacts
<1>5. Mine(c, kind) \subseteq I \cup {p[1] : p \in P}
  BY <1>1, <1>2 DEF Mine
<1>6. ReduceScatter(g, G, c) = k5
  BY DEF ReduceScatter
<1> HIDE DEF in, flat, P
<1>7. lb \in OpSet /\ Works(lb, T) /\ Works(lb, D)
  BY <1>2, <1>3, <1>4, LibraryWorks
<1>8. cp \in OpSet /\ Works(cp, T)
  BY <1>3, <1>4, CopyType
<1>9. I \in SUBSET Bufs /\ I \subseteq Mine(c, kind) \cup Local(c, kind)
  BY <1>3, <1>4
<1> HIDE DEF T, I, D, lb, cp, k1, k2, k3, k4, k5, kind
<1>10. Issues(g, g, G, T, D, {}, {})
  BY IssuesRefl
<1>11. Issues(g, k1, G, T, D, {}, {})
  BY <1>10, IssuesWait DEF k1
<1>12. Issues(g, k2, G, T, D, {}, {})
  BY <1>8, <1>11, IssuesEnqueue DEF k2
<1>13. Issues(g, k3, G, T, D, {}, {})
  BY <1>7, <1>12, IssuesSubmit DEF k3
<1>14. Issues(g, k4, G, T, D, {} \cup I, {})
  BY <1>9, <1>13, IssuesRecord DEF k4
<1>15. Issues(g, k5, G, T, D, {} \cup I, {} \cup P)
  BY <1>2, <1>14, IssuesFinish DEF k5
<1>16. Collects(g, k5, G, c, kind)
  <2>1. Issues(g, k5, G, Own(c, kind), I \cup PairBufs(P), I, P)
    BY <1>15 DEF T, D
  <2> QED BY <1>2, <1>5, <1>9, <2>1, Concluding
<1> QED BY <1>6, <1>16 DEF kind

\* send.
LEMMA SendCollects ==
  ASSUME NEW g \in Hosts, NEW G \in BOOLEAN, NEW c \in Calls, strided \in BOOLEAN
  PROVE  Collects(g, Send(g, G, c), G, c, "send")
<1> DEFINE kind == "send"
           T == Own(c, kind)
           I == Inputs(c)
           D == I \cup PairBufs({})
           k1 == StageIn(g, c)
           k2 == Submit(k1, G, Lib(c, {"in"}, {}))
           k3 == Record(k2, I)
<1>1. kind \in AllKinds \ {"recv"} /\ Tensors(kind) = {"in"}
  BY DEF AllKinds, Tensors, Outputs
<1>2. I \in SUBSET Bufs /\ <<c, "in">> \in I /\ Staged(c, "in") \in I
      /\ I \subseteq Mine(c, kind) \cup Local(c, kind)
  BY <1>1, InputFacts
<1>3. <<c, "in">> \in T /\ <<c, "sin">> \in T /\ Staged(c, "in") \in T /\ Staged(c, "in") \in Bufs
  BY <1>1, StagedFacts, RoleFacts, InternalFacts
<1>4. Lib(c, {"in"}, {}) \in OpSet /\ Works(Lib(c, {"in"}, {}), T) /\ Works(Lib(c, {"in"}, {}), D)
  BY <1>2, <1>3, LibWorks
<1>5. Mine(c, kind) \subseteq I
  BY <1>1, <1>2 DEF Mine
<1>6. Send(g, G, c) = k3
  BY DEF Send
<1>7. PairBufs({}) = {}
  BY DEF PairBufs
<1> HIDE DEF T, I, D, k1, k2, k3, kind
<1>8. Issues(g, g, G, T, D, {}, {})
  BY IssuesRefl
<1>9. Issues(g, k1, G, T, D, {}, {})
  BY <1>3, <1>8, IssuesStageIn DEF k1
<1>10. Issues(g, k2, G, T, D, {}, {})
  BY <1>4, <1>9, IssuesSubmit DEF k2
<1>11. Issues(g, k3, G, T, D, {} \cup I, {})
  BY <1>2, <1>10, IssuesRecord DEF k3
<1>12. Collects(g, k3, G, c, kind)
  <2>1. Issues(g, k3, G, Own(c, kind), I \cup PairBufs({}), I, {})
    BY <1>11 DEF T, D
  <2> QED BY <1>2, <1>5, <1>7, <2>1, Concluding
<1> QED BY <1>6, <1>12 DEF kind

\* recv.
LEMMA RecvCollects ==
  ASSUME NEW g \in Hosts, NEW G \in BOOLEAN, NEW c \in Calls, strided \in BOOLEAN
  PROVE  Collects(g, Recv(g, G, c), G, c, "recv")
<1> DEFINE kind == "recv"
           T == Own(c, kind)
           P == Pairs(c, {"out"})
           D == {} \cup PairBufs(P)
           k1 == Submit(g, G, Lib(c, {}, {"out"}))
           k2 == Finish(k1, P)
<1>1. kind \in AllKinds /\ Tensors(kind) = {"out"} /\ {"out"} \in SUBSET Tensors(kind)
  BY DEF AllKinds, Tensors, Outputs
<1>2. /\ P \in SUBSET (Bufs \X Bufs) /\ PairBufs(P) \subseteq T
      /\ PairBufs(P) \subseteq Mine(c, kind) \cup Local(c, kind)
      /\ \A p \in P : p[2] = p[1] \/ Owner(p[2]) = "comm"
      /\ <<c, "out">> \in {p[1] : p \in P} /\ Staged(c, "out") \in PairBufs(P)
  BY <1>1, PairFacts
<1>3. Staged(c, "out") \in T /\ Staged(c, "out") \in Bufs
  BY <1>1, StagedFacts
<1>4. Lib(c, {}, {"out"}) \in OpSet /\ Works(Lib(c, {}, {"out"}), T) /\ Works(Lib(c, {}, {"out"}), D)
  BY <1>2, <1>3, LibWorks
<1>5. Mine(c, kind) \subseteq {} \cup {p[1] : p \in P}
  BY <1>1, <1>2 DEF Mine
<1>6. Recv(g, G, c) = k2
  BY DEF Recv
<1> HIDE DEF T, P, D, k1, k2, kind
<1>7. Issues(g, g, G, T, D, {}, {})
  BY IssuesRefl
<1>8. Issues(g, k1, G, T, D, {}, {})
  BY <1>4, <1>7, IssuesSubmit DEF k1
<1>9. Issues(g, k2, G, T, D, {}, {} \cup P)
  BY <1>2, <1>8, IssuesFinish DEF k2
<1>10. Collects(g, k2, G, c, kind)
  <2>1. Issues(g, k2, G, Own(c, kind), {} \cup PairBufs(P), {}, P)
    BY <1>9 DEF T, D
  <2> QED BY <1>2, <1>5, <2>1, Concluding
<1> QED BY <1>6, <1>10 DEF kind

\* gather on the root, with either library.
LEMMA GatherCollects ==
  ASSUME NEW g \in Hosts, NEW G \in BOOLEAN, NEW c \in Calls, strided \in BOOLEAN
  PROVE  Collects(g, Gather(g, G, c), G, c, "gather")
<1> DEFINE kind == "gather"
           T == Own(c, kind)
           P == Pairs(c, {"out", "own"})
           I == Inputs(c)
           D == I \cup PairBufs(P)
           flat == <<c, "flat">>
           out == {Staged(c, r) : r \in {"out", "own"}}
           lb == Op("library", {Staged(c, "in")}, {flat})
           cp == Copy(Staged(c, "in"), Staged(c, "own"))
           k1 == StageIn(g, c)
           k2 == WaitStream(k1, "comm", "cur")
           received == Submit(k2, G, Lib(c, {}, {"out"}))
           all == Submit(k2, G, lb)
           k3 == IF lib = "nccl" THEN Enqueue(received, "comm", cp)
                 ELSE CopyOut(all, flat, out)
           k4 == Finish(k3, P)
           k5 == Record(k4, I)
<1>1. kind \in AllKinds \ {"recv"} /\ Tensors(kind) = {"in", "out", "own"}
      /\ {"out", "own"} \in SUBSET Tensors(kind)
  BY DEF AllKinds, Tensors, Outputs
<1>2. /\ P \in SUBSET (Bufs \X Bufs) /\ PairBufs(P) \subseteq T
      /\ PairBufs(P) \subseteq Mine(c, kind) \cup Local(c, kind)
      /\ \A p \in P : p[2] = p[1] \/ Owner(p[2]) = "comm"
      /\ <<c, "out">> \in {p[1] : p \in P} /\ <<c, "own">> \in {p[1] : p \in P}
      /\ Staged(c, "out") \in PairBufs(P)
  BY <1>1, PairFacts
<1>3. I \in SUBSET Bufs /\ <<c, "in">> \in I /\ Staged(c, "in") \in I
      /\ I \subseteq Mine(c, kind) \cup Local(c, kind)
  BY <1>1, InputFacts
<1>4. /\ <<c, "in">> \in T /\ <<c, "sin">> \in T /\ flat \in T /\ flat \in Bufs
      /\ \A r \in {"in", "out", "own"} : Staged(c, r) \in T /\ Staged(c, r) \in Bufs
  BY <1>1, StagedFacts, RoleFacts, InternalFacts
<1>5. /\ Lib(c, {}, {"out"}) \in OpSet /\ Works(Lib(c, {}, {"out"}), T)
      /\ Works(Lib(c, {}, {"out"}), D)
  BY <1>2, <1>4, LibWorks
<1>6. Mine(c, kind) \subseteq I \cup {p[1] : p \in P}
  BY <1>1, <1>2, <1>3 DEF Mine
<1>7. Gather(g, G, c) = k5
  BY DEF Gather, CopyOut
<1>8. out \in SUBSET Bufs /\ out \subseteq T
  BY <1>4
<1> HIDE DEF flat
<1>9. lb \in OpSet /\ Works(lb, T)
  BY <1>4, LibraryWorks
<1>10. cp \in OpSet /\ Works(cp, T)
  BY <1>4, CopyType
<1> HIDE DEF T, P, I, D, out, lb, cp, k1, k2, received, all, k3, k4, k5, kind
<1>11. Issues(g, g, G, T, D, {}, {})
  BY IssuesRefl
<1>12. Issues(g, k1, G, T, D, {}, {})
  BY <1>4, <1>11, IssuesStageIn DEF k1
<1>13. Issues(g, k2, G, T, D, {}, {})
  BY <1>12, IssuesWait DEF k2
<1>14. Issues(g, k3, G, T, D, {}, {})
  <2>1. CASE lib = "nccl"
    <3>1. Issues(g, received, G, T, D, {}, {})
      BY <1>5, <1>13, IssuesSubmit DEF received
    <3>2. Issues(g, Enqueue(received, "comm", cp), G, T, D, {}, {})
      BY <1>10, <3>1, IssuesEnqueue
    <3> QED BY <2>1, <3>2 DEF k3
  <2>2. CASE lib # "nccl"
    <3>1. Issues(g, all, G, T, D, {}, {})
      BY <1>9, <1>13, <2>2, IssuesSubmit DEF all
    <3>2. CopyOut(all, flat, out) \in Grown(all, T)
      BY <1>4, <1>8, <3>1, CopyOutGrows DEF Issues
    <3>3. Issues(g, CopyOut(all, flat, out), G, T, D, {}, {})
      BY <3>1, <3>2, IssuesGrown
    <3> QED BY <2>2, <3>3 DEF k3
  <2> QED BY <2>1, <2>2
<1>15. Issues(g, k4, G, T, D, {}, {} \cup P)
  BY <1>2, <1>14, IssuesFinish DEF k4
<1>16. Issues(g, k5, G, T, D, {} \cup I, {} \cup P)
  BY <1>3, <1>15, IssuesRecord DEF k5
<1>17. Collects(g, k5, G, c, kind)
  <2>1. Issues(g, k5, G, Own(c, kind), I \cup PairBufs(P), I, P)
    BY <1>16 DEF T, D
  <2> QED BY <1>2, <1>3, <1>6, <2>1, Concluding
<1> QED BY <1>7, <1>17 DEF kind

\* scatter on the root, with either library.
LEMMA ScatterCollects ==
  ASSUME NEW g \in Hosts, NEW G \in BOOLEAN, NEW c \in Calls, strided \in BOOLEAN
  PROVE  Collects(g, Scatter(g, G, c), G, c, "scatter")
<1> DEFINE kind == "scatter"
           T == Own(c, kind)
           P == Pairs(c, {"out"})
           I == Inputs(c)
           D == I \cup PairBufs(P)
           flat == <<c, "flat">>
           lb == Op("library", {flat}, {flat})
           cp == Copy(Staged(c, "in"), flat)
           from == IF lib = "nccl" THEN Staged(c, "in") ELSE flat
           cq == Copy(from, Staged(c, "out"))
           k1 == StageIn(g, c)
           k2 == WaitStream(k1, "comm", "cur")
           full == Enqueue(k2, "comm", cp)
           k3 == IF lib = "nccl" THEN Submit(k2, G, Lib(c, {"in"}, {}))
                 ELSE Submit(full, G, lb)
           k4 == Enqueue(k3, "comm", cq)
           k5 == Record(k4, I)
           k6 == Finish(k5, P)
<1>1. kind \in AllKinds \ {"recv"} /\ Tensors(kind) = {"in", "out"}
      /\ {"out"} \in SUBSET Tensors(kind)
  BY DEF AllKinds, Tensors, Outputs
<1>2. /\ P \in SUBSET (Bufs \X Bufs) /\ PairBufs(P) \subseteq T
      /\ PairBufs(P) \subseteq Mine(c, kind) \cup Local(c, kind)
      /\ \A p \in P : p[2] = p[1] \/ Owner(p[2]) = "comm"
      /\ <<c, "out">> \in {p[1] : p \in P}
  BY <1>1, PairFacts
<1>3. I \in SUBSET Bufs /\ <<c, "in">> \in I /\ Staged(c, "in") \in I
      /\ I \subseteq Mine(c, kind) \cup Local(c, kind)
  BY <1>1, InputFacts
<1>4. /\ <<c, "in">> \in T /\ <<c, "sin">> \in T /\ flat \in T /\ flat \in Bufs
      /\ \A r \in {"in", "out"} : Staged(c, r) \in T /\ Staged(c, r) \in Bufs
  BY <1>1, StagedFacts, RoleFacts, InternalFacts
<1>5. /\ Lib(c, {"in"}, {}) \in OpSet /\ Works(Lib(c, {"in"}, {}), T)
      /\ Works(Lib(c, {"in"}, {}), D)
  BY <1>3, <1>4, LibWorks
<1>6. Mine(c, kind) \subseteq I \cup {p[1] : p \in P}
  BY <1>1, <1>2, <1>3 DEF Mine
<1>7. Scatter(g, G, c) = k6
  BY DEF Scatter
<1> HIDE DEF flat
<1>8. lb \in OpSet /\ Works(lb, T)
  BY <1>4, LibraryWorks
<1>9. cp \in OpSet /\ Works(cp, T)
  BY <1>4, CopyType
<1>10. cq \in OpSet /\ Works(cq, T)
  <2>1. from \in T /\ from \in Bufs /\ Staged(c, "out") \in T /\ Staged(c, "out") \in Bufs
    BY <1>4
  <2> HIDE DEF from
  <2> QED BY <2>1, CopyType
<1> HIDE DEF T, P, I, D, lb, cp, cq, from, k1, k2, full, k3, k4, k5, k6, kind
<1>11. Issues(g, g, G, T, D, {}, {})
  BY IssuesRefl
<1>12. Issues(g, k1, G, T, D, {}, {})
  BY <1>4, <1>11, IssuesStageIn DEF k1
<1>13. Issues(g, k2, G, T, D, {}, {})
  BY <1>12, IssuesWait DEF k2
<1>14. Issues(g, k3, G, T, D, {}, {})
  <2>1. CASE lib = "nccl"
    <3>1. Issues(g, Submit(k2, G, Lib(c, {"in"}, {})), G, T, D, {}, {})
      BY <1>5, <1>13, IssuesSubmit
    <3> QED BY <2>1, <3>1 DEF k3
  <2>2. CASE lib # "nccl"
    <3>1. Issues(g, full, G, T, D, {}, {})
      BY <1>9, <1>13, IssuesEnqueue DEF full
    <3>2. Issues(g, Submit(full, G, lb), G, T, D, {}, {})
      BY <1>8, <2>2, <3>1, IssuesSubmit
    <3> QED BY <2>2, <3>2 DEF k3
  <2> QED BY <2>1, <2>2
<1>15. Issues(g, k4, G, T, D, {}, {})
  BY <1>10, <1>14, IssuesEnqueue DEF k4
<1>16. Issues(g, k5, G, T, D, {} \cup I, {})
  BY <1>3, <1>15, IssuesRecord DEF k5
<1>17. Issues(g, k6, G, T, D, {} \cup I, {} \cup P)
  BY <1>2, <1>16, IssuesFinish DEF k6
<1>18. Collects(g, k6, G, c, kind)
  <2>1. Issues(g, k6, G, Own(c, kind), I \cup PairBufs(P), I, P)
    BY <1>17 DEF T, D
  <2> QED BY <1>2, <1>3, <1>6, <2>1, Concluding
<1> QED BY <1>7, <1>18 DEF kind

\* Every collective leaves operations on its own buffers, and a fence made
\* or deferred for each tensor of its caller.
LEMMA MethodCollects ==
  ASSUME NEW g \in Hosts, NEW G \in BOOLEAN, NEW c \in Calls, strided \in BOOLEAN,
         NEW kind \in Kinds, G \/ (g.group = <<>> /\ g.open = FALSE)
  PROVE  Collects(g, Method(kind, g, G, c), G, c, kind)
<1>1. kind \in AllKinds
  BY KindsAre
<1>2. CASE kind = "inplace"
  BY <1>2, InPlaceCollects DEF Method
<1>3. CASE kind = "flat"
  BY <1>3, FlatCollects DEF Method
<1>4. CASE kind = "alltoall"
  BY <1>4, AllToAllCollects DEF Method
<1>5. CASE kind = "allgather"
  BY <1>5, AllGatherCollects DEF Method
<1>6. CASE kind = "reduce_scatter"
  BY <1>6, ReduceScatterCollects DEF Method
<1>7. CASE kind = "gather"
  BY <1>7, GatherCollects DEF Method
<1>8. CASE kind = "scatter"
  BY <1>8, ScatterCollects DEF Method
<1>9. CASE kind = "send"
  BY <1>9, SendCollects DEF Method
<1>10. CASE kind = "recv"
  BY <1>10, RecvCollects DEF Method
<1> QED BY <1>1, <1>2, <1>3, <1>4, <1>5, <1>6, <1>7, <1>8, <1>9, <1>10 DEF AllKinds

-----------------------------------------------------------------------------
(* Appending a batch, and freeing.                                         *)

\* A live buffer has no release enqueued, nor has one not yet allocated.
LEMMA LiveUnreleased ==
  ASSUME NEW g, NEW al, NEW cs, NEW gn, QueueInv(g, al, cs, gn),
         NEW b \in Bufs, b \in al \/ IsNew(cs, b)
  PROVE  b \notin gn /\ Unreleased(g, b)
<1>1. b \notin gn
  BY DEF QueueInv, GoneDead
<1>2. ASSUME NEW s \in Streams, NEW i \in Queued(g, s), g.q[s][i].kind = "release"
      PROVE  b \notin g.q[s][i].writes
  BY <1>2 DEF QueueInv, Releases
<1> QED BY <1>1, <1>2 DEF Unreleased

\* A batch enqueues no release.
LEMMA ExtendsUnreleased ==
  ASSUME NEW g, NEW k, NEW s, NEW T, Extends(g, k, s, T), NEW b, Unreleased(g, b)
  PROVE  Unreleased(k, b)
<1> SUFFICES ASSUME NEW t \in Streams, NEW i \in Queued(k, t), k.q[t][i].kind = "release"
    PROVE b \notin k.q[t][i].writes
  BY DEF Unreleased
<1>1. i \in Queued(g, t) /\ k.q[t][i] = g.q[t][i]
  BY DEF Extends, Works
<1> QED BY <1>1 DEF Unreleased

\* The queues stay safe when a batch on unreleased buffers is appended whose
\* buffers are guarded afterwards, whatever was held before.
LEMMA QueueStep ==
  ASSUME NEW g \in Hosts, NEW k \in Hosts, NEW s \in Streams, NEW T \in SUBSET Bufs,
         Extends(g, k, s, T),
         NEW al \in SUBSET Bufs, NEW al2 \in SUBSET Bufs, NEW cs, NEW cs2,
         NEW gn \in SUBSET Bufs,
         QueueInv(g, al, cs, gn), Continues(al, cs, al2, cs2),
         \A b \in T : ~IsNew(cs2, b) /\ b \notin gn /\ Unreleased(g, b),
         \A b \in T : b \in al2 /\ FencedIn(cs2, b)
                      => s = Owner(b) \/ s \in k.users[b] \/ (s = "comm" /\ b \in Held(k)),
         \A b \in Held(g) : b \in al2 /\ FencedIn(cs2, b)
                      => Owner(b) = "comm" \/ "comm" \in k.users[b] \/ b \in Held(k)
  PROVE  QueueInv(k, al2, cs2, gn)
<1>1. ASSUME NEW t \in Streams, NEW i \in Queued(k, t)
      PROVE  \/ i \in Queued(g, t) /\ k.q[t][i] = g.q[t][i]
             \/ i \notin Queued(g, t) /\ t = s /\ k.q[t][i].kind # "release" /\ Touches(k.q[t][i]) \subseteq T
  BY <1>1 DEF Extends, Works
<1>2. \A b \in Bufs : g.users[b] \subseteq k.users[b]
  BY DEF Extends
<1>3. \A b \in Bufs : b \in al2 => b \in al \/ (IsNew(cs, b) /\ ~IsNew(cs2, b))
  BY DEF Continues
<1>4. Releases(k, al2, cs2)
  <2> SUFFICES ASSUME NEW t \in Streams, NEW i \in Queued(k, t), k.q[t][i].kind = "release"
      PROVE /\ k.q[t][i].reads = {}
            /\ \E b \in Bufs : /\ k.q[t][i].writes = {b} /\ t = Owner(b)
                               /\ b \notin al2 /\ ~IsNew(cs2, b)
    BY DEF Releases
  <2>1. i \in Queued(g, t) /\ k.q[t][i] = g.q[t][i]
    BY <1>1
  <2>2. k.q[t][i].reads = {} /\ \E b \in Bufs : /\ k.q[t][i].writes = {b} /\ t = Owner(b)
                       /\ b \notin al /\ ~IsNew(cs, b)
    BY <2>1 DEF QueueInv, Releases
  <2> QED BY <1>3, <2>2 DEF Continues
<1>5. NewUntouched(k, al2, cs2)
  <2> SUFFICES ASSUME NEW b \in Bufs, IsNew(cs2, b)
      PROVE /\ b \notin al2
            /\ \A t \in Streams : \A i \in Queued(k, t) : b \notin Touches(k.q[t][i])
    BY DEF NewUntouched
  <2>1. IsNew(cs, b) /\ b \notin al
    BY DEF Continues, QueueInv, NewUntouched
  <2>2. \A t \in Streams : \A i \in Queued(g, t) : b \notin Touches(g.q[t][i])
    BY <2>1 DEF QueueInv, NewUntouched
  <2>3. b \notin al2
    BY <1>3, <2>1
  <2>4. b \notin T
    OBVIOUS
  <2> QED BY <1>1, <2>2, <2>3, <2>4
<1>6. Ordered(k, cs2)
  <2> SUFFICES ASSUME NEW u \in Streams, NEW t \in Streams, NEW i \in Queued(k, u),
                      NEW j \in Queued(k, t), NEW b \in Bufs,
                      k.q[u][i].kind = "release", k.q[t][j].kind # "release",
                      b \in k.q[u][i].writes, b \in Touches(k.q[t][j]), FencedIn(cs2, b)
      PROVE IF u = t THEN j < i ELSE j <= k.q[u][i].waits[t]
    BY DEF Ordered
  <2>1. i \in Queued(g, u) /\ k.q[u][i] = g.q[u][i]
    BY <1>1
  <2>2. ~Unreleased(g, b)
    BY <2>1 DEF Unreleased
  <2>3. j \in Queued(g, t) /\ k.q[t][j] = g.q[t][j]
    BY <1>1, <2>2
  <2>4. FencedIn(cs, b)
    BY DEF Continues
  <2> QED BY <2>1, <2>3, <2>4 DEF QueueInv, Ordered
<1>7. Guarded(k, al2, cs2)
  <2> SUFFICES ASSUME NEW t \in Streams, NEW i \in Queued(k, t), NEW b \in Bufs,
                      k.q[t][i].kind # "release", b \in Touches(k.q[t][i]),
                      b \in al2, FencedIn(cs2, b)
      PROVE t = Owner(b) \/ t \in k.users[b] \/ (t = "comm" /\ b \in Held(k))
    BY DEF Guarded
  <2>1. FencedIn(cs, b)
    BY DEF Continues
  <2>2. CASE i \in Queued(g, t) /\ k.q[t][i] = g.q[t][i]
    <3>1. ~IsNew(cs, b)
      BY <2>2 DEF QueueInv, NewUntouched
    <3>2. b \in al
      BY <1>3, <3>1
    <3>3. t = Owner(b) \/ t \in g.users[b] \/ (t = "comm" /\ b \in Held(g))
      BY <2>1, <2>2, <3>2 DEF QueueInv, Guarded
    <3> QED BY <1>2, <3>3
  <2>3. CASE t = s /\ b \in T
    BY <2>3
  <2> QED BY <1>1, <2>2, <2>3
<1>8. GoneDead(al2, cs2, gn)
  BY <1>3 DEF Continues, QueueInv, GoneDead
<1>9. GoneUnused(k, cs2, gn)
  <2> SUFFICES ASSUME NEW t \in Streams, NEW i \in Queued(k, t), NEW b \in Bufs,
                      k.q[t][i].kind # "release", b \in Touches(k.q[t][i]), b \in gn
      PROVE ~FencedIn(cs2, b)
    BY DEF GoneUnused
  <2>1. i \in Queued(g, t) /\ k.q[t][i] = g.q[t][i]
    BY <1>1
  <2>2. ~FencedIn(cs, b)
    BY <2>1 DEF QueueInv, GoneUnused
  <2> QED BY <2>2 DEF Continues
<1> QED BY <1>4, <1>5, <1>6, <1>7, <1>8, <1>9 DEF QueueInv

\* A stream operation leaves what the block holds alone.
LEMMA HeldAside ==
  ASSUME NEW g, NEW k, Aside(g, k)
  PROVE  Held(k) = Held(g) /\ GroupOps(k) = GroupOps(g)
BY DEF Aside, Held, GroupOps

\* A freed buffer is released behind everything that was enqueued on it.
LEMMA FreeFields ==
  ASSUME NEW g \in Hosts, NEW b \in Bufs
  PROVE  LET k == Free(g, b)
             n == Len(g.q[Owner(b)]) + 1
             rel == k.q[Owner(b)][n]
         IN /\ k \in Hosts /\ Aside(g, k) /\ k.users = g.users
            /\ \A t \in Streams \ {Owner(b)} : k.q[t] = g.q[t]
            /\ Len(k.q[Owner(b)]) = n
            /\ \A i \in Queued(g, Owner(b)) : k.q[Owner(b)][i] = g.q[Owner(b)][i]
            /\ rel.kind = "release" /\ rel.reads = {} /\ rel.writes = {b}
            /\ \A t \in g.users[b] : t # Owner(b) => Len(g.q[t]) <= rel.waits[t]
<1> DEFINE k0 == UsersFold(g, b, g.users[b])
           op == Op("release", {}, {b})
           k == Enqueue(k0, Owner(b), op)
<1>1. Free(g, b) = k
  BY DEF Free, UsersFold
<1>2. Owner(b) \in Streams
  BY OwnerType
<1>3. g.users[b] \in SUBSET Streams
  BY HostTypes
<1>4. /\ k0 \in Hosts /\ k0.q = g.q /\ k0.users = g.users /\ Aside(g, k0)
      /\ \A t \in g.users[b] : t # Owner(b) => Len(g.q[t]) <= k0.waits[Owner(b)][t]
  BY <1>3, UsersFoldFields
<1>5. op \in OpSet /\ op.kind = "release" /\ op.reads = {} /\ op.writes = {b}
  <2>1. "release" \in OpKinds /\ {} \in SUBSET Bufs /\ {b} \in SUBSET Bufs
    BY DEF OpKinds
  <2> QED BY <2>1, OpType
<1> HIDE DEF k0, op
<1>6. k \in Hosts /\ Aside(k0, k) /\ k.users = k0.users
  BY <1>4, <1>5, <1>2, EnqueueAside
<1>7. /\ \A t \in Streams \ {Owner(b)} : k.q[t] = k0.q[t]
      /\ Len(k.q[Owner(b)]) = Len(k0.q[Owner(b)]) + 1
      /\ \A i \in Queued(k0, Owner(b)) : k.q[Owner(b)][i] = k0.q[Owner(b)][i]
      /\ k.q[Owner(b)][Len(k0.q[Owner(b)]) + 1] = Stamped(k0, Owner(b), op)
  BY <1>4, <1>5, <1>2, EnqueuePositions
<1>8. /\ Stamped(k0, Owner(b), op).kind = op.kind
      /\ Stamped(k0, Owner(b), op).reads = op.reads
      /\ Stamped(k0, Owner(b), op).writes = op.writes
      /\ Stamped(k0, Owner(b), op).waits = k0.waits[Owner(b)]
  BY <1>4, <1>5, <1>2, StampedFields
<1> HIDE DEF k
<1>9. Aside(g, k)
  BY <1>4, <1>6 DEF Aside
<1>10. Queued(k0, Owner(b)) = Queued(g, Owner(b))
  BY <1>4 DEF Queued
<1> QED BY <1>1, <1>4, <1>5, <1>6, <1>7, <1>8, <1>9, <1>10

\* Freeing a live buffer that no block holds keeps the queues safe: by Guarded
\* the owner waits for every stream with an operation on it.
LEMMA FreeStep ==
  ASSUME NEW g \in Hosts, NEW al \in SUBSET Bufs, NEW cs, NEW gn \in SUBSET Bufs,
         HeldInv(g, al, cs), QueueInv(g, al, cs, gn),
         NEW b \in al, b \notin Held(g)
  PROVE  LET k == Free(g, b)
         IN /\ k \in Hosts /\ Held(k) = Held(g)
            /\ HeldInv(k, al \ {b}, cs) /\ QueueInv(k, al \ {b}, cs, gn)
<1> DEFINE k == Free(g, b)
           o == Owner(b)
           n == Len(g.q[o]) + 1
<1>1. b \in Bufs /\ o \in Streams
  BY OwnerType
<1>2. /\ k \in Hosts /\ Aside(g, k) /\ k.users = g.users
      /\ \A t \in Streams \ {o} : k.q[t] = g.q[t]
      /\ Len(k.q[o]) = n
      /\ \A i \in Queued(g, o) : k.q[o][i] = g.q[o][i]
      /\ k.q[o][n].kind = "release" /\ k.q[o][n].reads = {} /\ k.q[o][n].writes = {b}
      /\ \A t \in g.users[b] : t # o => Len(g.q[t]) <= k.q[o][n].waits[t]
  BY <1>1, FreeFields
<1>3. \A t \in Streams : Len(g.q[t]) \in Nat
  BY HostTypes
<1> HIDE DEF k, o
<1>4. ASSUME NEW t \in Streams, NEW i \in Queued(k, t)
      PROVE  \/ i \in Queued(g, t) /\ k.q[t][i] = g.q[t][i]
             \/ t = o /\ i = n
  <2>1. CASE t # o
    <3>1. k.q[t] = g.q[t]
      BY <1>2, <2>1
    <3> QED BY <1>4, <3>1 DEF Queued
  <2>2. CASE t = o
    <3>1. i \in 1..(Len(g.q[o]) + 1) /\ Len(g.q[o]) \in Nat
      BY <1>2, <1>3, <1>1, <1>4, <2>2 DEF Queued
    <3>2. i \in Queued(g, o) \/ i = n
      BY <3>1 DEF Queued
    <3> QED BY <1>2, <2>2, <3>2
  <2> QED BY <2>1, <2>2
<1> DEFINE rel == k.q[o][n]
<1>5. rel.kind = "release" /\ rel.reads = {} /\ rel.writes = {b} /\ Touches(rel) = {b}
      /\ \A t \in g.users[b] : t # o => Len(g.q[t]) <= rel.waits[t]
  BY <1>2 DEF Touches
<1> HIDE DEF rel
<1>6. Held(k) = Held(g) /\ GroupOps(k) = GroupOps(g)
  BY <1>2, HeldAside
<1>7. ~IsNew(cs, b)
  BY <1>1 DEF QueueInv, NewUntouched
<1>8. HeldInv(k, al \ {b}, cs)
  <2>1. Blocks(k)
    BY <1>2 DEF HeldInv, Blocks, Aside
  <2>2. Deferred(k)
    BY <1>2, <1>6 DEF HeldInv, Deferred, Aside
  <2>3. HeldAlive(k, al \ {b}, cs)
    BY <1>6 DEF HeldInv, HeldAlive
  <2> QED BY <2>1, <2>2, <2>3 DEF HeldInv
<1>9. Releases(k, al \ {b}, cs)
  <2> SUFFICES ASSUME NEW t \in Streams, NEW i \in Queued(k, t), k.q[t][i].kind = "release"
      PROVE /\ k.q[t][i].reads = {}
            /\ \E x \in Bufs : /\ k.q[t][i].writes = {x} /\ t = Owner(x)
                               /\ x \notin al \ {b} /\ ~IsNew(cs, x)
    BY DEF Releases
  <2>1. CASE i \in Queued(g, t) /\ k.q[t][i] = g.q[t][i]
    BY <2>1 DEF QueueInv, Releases
  <2>2. CASE t = o /\ i = n
    BY <1>1, <1>5, <1>7, <2>2 DEF o, rel
  <2> QED BY <1>4, <2>1, <2>2
<1>10. NewUntouched(k, al \ {b}, cs)
  <2> SUFFICES ASSUME NEW x \in Bufs, IsNew(cs, x)
      PROVE /\ x \notin al \ {b}
            /\ \A t \in Streams : \A i \in Queued(k, t) : x \notin Touches(k.q[t][i])
    BY DEF NewUntouched
  <2>1. x \notin al /\ \A t \in Streams : \A i \in Queued(g, t) : x \notin Touches(g.q[t][i])
    BY DEF QueueInv, NewUntouched
  <2>2. x \notin Touches(rel)
    BY <1>5, <1>7
  <2> QED BY <1>4, <2>1, <2>2 DEF rel
<1>11. Ordered(k, cs)
  <2> SUFFICES ASSUME NEW u \in Streams, NEW t \in Streams, NEW i \in Queued(k, u),
                      NEW j \in Queued(k, t), NEW x \in Bufs,
                      k.q[u][i].kind = "release", k.q[t][j].kind # "release",
                      x \in k.q[u][i].writes, x \in Touches(k.q[t][j]), FencedIn(cs, x)
      PROVE IF u = t THEN j < i ELSE j <= k.q[u][i].waits[t]
    BY DEF Ordered
  <2>1. j \in Queued(g, t) /\ k.q[t][j] = g.q[t][j]
    BY <1>4, <1>5 DEF rel
  <2>2. CASE i \in Queued(g, u) /\ k.q[u][i] = g.q[u][i]
    BY <2>1, <2>2 DEF QueueInv, Ordered
  <2>3. CASE u = o /\ i = n
    <3>1. x = b /\ k.q[u][i] = rel
      BY <1>5, <2>3 DEF rel
    <3>2. t = o \/ t \in g.users[b]
      BY <1>1, <2>1, <3>1 DEF QueueInv, Guarded, o
    <3>3. j \in Nat /\ j <= Len(g.q[t])
      BY <1>3, <2>1 DEF Queued
    <3>4. CASE t = o
      BY <1>1, <1>3, <2>3, <3>3, <3>4
    <3>5. CASE t # o
      <4>1. Len(g.q[t]) <= rel.waits[t]
        BY <1>5, <3>2, <3>5
      <4>2. rel.waits[t] \in Nat
        <5>1. k.q[u][i] \in OpSet
          BY <1>2, HostTypes
        <5> QED BY <3>1, <5>1 DEF OpSet
      <4> QED BY <1>3, <2>3, <3>1, <3>3, <3>5, <4>1, <4>2
    <3> QED BY <3>4, <3>5
  <2> QED BY <1>4, <2>2, <2>3
<1>12. Guarded(k, al \ {b}, cs)
  <2> SUFFICES ASSUME NEW t \in Streams, NEW i \in Queued(k, t), NEW x \in Bufs,
                      k.q[t][i].kind # "release", x \in Touches(k.q[t][i]),
                      x \in al \ {b}, FencedIn(cs, x)
      PROVE t = Owner(x) \/ t \in k.users[x] \/ (t = "comm" /\ x \in Held(k))
    BY DEF Guarded
  <2>1. i \in Queued(g, t) /\ k.q[t][i] = g.q[t][i]
    BY <1>4, <1>5 DEF rel
  <2>2. k.users = g.users
    BY <1>2
  <2> QED BY <1>6, <2>1, <2>2 DEF QueueInv, Guarded
<1>13. GoneDead(al \ {b}, cs, gn)
  BY DEF QueueInv, GoneDead
<1>14. GoneUnused(k, cs, gn)
  <2> SUFFICES ASSUME NEW t \in Streams, NEW i \in Queued(k, t), NEW x \in Bufs,
                      k.q[t][i].kind # "release", x \in Touches(k.q[t][i]), x \in gn
      PROVE ~FencedIn(cs, x)
    BY DEF GoneUnused
  <2>1. i \in Queued(g, t) /\ k.q[t][i] = g.q[t][i]
    BY <1>4, <1>5 DEF rel
  <2> QED BY <2>1 DEF QueueInv, GoneUnused
<1>15. QueueInv(k, al \ {b}, cs, gn)
  BY <1>9, <1>10, <1>11, <1>12, <1>13, <1>14 DEF QueueInv
<1> QED BY <1>2, <1>6, <1>8, <1>15 DEF k

\* What each free keeps holds after all of them.
LEMMA FreeAllKept ==
  ASSUME NEW g \in Hosts, NEW S \in SUBSET Bufs, NEW R, <<g, {}>> \in R,
         \A s \in SUBSET S, b \in S, k \in Hosts :
           b \notin s /\ <<k, s>> \in R => <<Free(k, b), s \cup {b}>> \in R
  PROVE  FreeAll(g, S) \in Hosts /\ <<FreeAll(g, S), S>> \in R
<1> DEFINE V == Hosts
           c == [s \in SUBSET S |-> CHOOSE x \in s : TRUE]
           o == [b \in S |-> [k \in V |-> Free(k, b)]]
           Does(f) == f = [s \in SUBSET S |-> IF s = {} THEN g
                ELSE LET x == CHOOSE x \in s : TRUE IN Free(f[s \ {x}], x)]
           it == CHOOSE f : Does(f)
<1>1. IsFiniteSet(S)
  BY BufsFinite
<1>3. \A k \in V, b \in S : Free(k, b) \in V
  BY FreeFields
<1>4. \A s \in SUBSET S : s # {} => c[s] \in s /\ c[s] = CHOOSE x \in s : TRUE
  OBVIOUS
<1>5. FreeAll(g, S) = it[S]
  BY DEF FreeAll, FoldSet, MapThenFoldSet
<1> HIDE DEF V
<1>6. FoldArgs(S, V, g, c, o)
  BY <1>1, <1>3, <1>4 DEF FoldArgs, V
<1>7. PICK f \in [SUBSET S -> V] : Folds(f, S, g, c, o)
  <2> HIDE DEF c, o
  <2> QED BY <1>6, FoldExists
<1>8. Does(f)
  BY <1>4, <1>7 DEF Folds
<1>9. Does(it)
  <2> HIDE DEF Does
  <2> QED BY <1>8
<1> HIDE DEF it
<1>10. Follows(it, S, V, g, c, o)
  BY <1>4, <1>9 DEF Follows
<1>12. FoldKeeps(R, S, V, o)
  BY DEF V, FoldKeeps
<1>11. it[S] \in V /\ <<it[S], S>> \in R
  <2> HIDE DEF c, o
  <2> QED BY <1>6, <1>10, <1>12, FoldKept
<1> QED BY <1>5, <1>11 DEF V

\* In whatever order they happen.
LEMMA FreeAllKeeps ==
  ASSUME NEW g \in Hosts, NEW al \in SUBSET Bufs, NEW cs, NEW gn \in SUBSET Bufs,
         HeldInv(g, al, cs), QueueInv(g, al, cs, gn),
         NEW S \in SUBSET al, S \cap Held(g) = {}
  PROVE  LET k == FreeAll(g, S)
         IN /\ k \in Hosts
            /\ HeldInv(k, al \ S, cs) /\ QueueInv(k, al \ S, cs, gn)
<1> DEFINE Good(k, s) == /\ Held(k) = Held(g)
                         /\ HeldInv(k, al \ s, cs) /\ QueueInv(k, al \ s, cs, gn)
           R == {x \in Hosts \X SUBSET S : Good(x[1], x[2])}
<1>1. <<g, {}>> \in R
  <2>1. al \ {} = al
    OBVIOUS
  <2> QED BY <2>1
<1>2. ASSUME NEW s \in SUBSET S, NEW b \in S, NEW k \in Hosts, b \notin s, <<k, s>> \in R
      PROVE  <<Free(k, b), s \cup {b}>> \in R
  <2> DEFINE al1 == al \ s
  <2>1. Held(k) = Held(g) /\ HeldInv(k, al1, cs) /\ QueueInv(k, al1, cs, gn)
    BY <1>2
  <2>2. b \in al1 /\ b \notin Held(k) /\ al1 \ {b} = al \ (s \cup {b}) /\ al1 \in SUBSET Bufs
    BY <1>2, <2>1
  <2> HIDE DEF al1
  <2>3. /\ Free(k, b) \in Hosts /\ Held(Free(k, b)) = Held(k)
        /\ HeldInv(Free(k, b), al1 \ {b}, cs) /\ QueueInv(Free(k, b), al1 \ {b}, cs, gn)
    BY <2>1, <2>2, FreeStep
  <2>4. Good(Free(k, b), s \cup {b})
    BY <2>1, <2>2, <2>3
  <2> HIDE DEF Good
  <2> QED BY <2>3, <2>4
<1> HIDE DEF R
<1>3. FreeAll(g, S) \in Hosts /\ <<FreeAll(g, S), S>> \in R
  BY <1>1, <1>2, FreeAllKept
<1> QED BY <1>3 DEF R

-----------------------------------------------------------------------------
(* The steps.                                                              *)

\* A host step ends by freeing what nobody refers to and no block holds.
LEMMA HostKeeps ==
  ASSUME NEW g \in Hosts, NEW alive \in SUBSET Bufs, NEW kept, kept \subseteq alive,
         NEW cs, NEW gn \in SUBSET Bufs,
         HeldInv(g, alive, cs), QueueInv(g, alive, cs, gn),
         Host(g, alive, kept)
  PROVE  /\ h' \in Hosts /\ live' \in SUBSET Bufs /\ refs' \subseteq live'
         /\ HeldInv(h', live', cs) /\ QueueInv(h', live', cs, gn)
<1> DEFINE dead == alive \ (kept \cup Held(g))
<1>1. h' = FreeAll(g, dead) /\ live' = alive \ dead /\ refs' = kept
  BY DEF Host, FreeAll
<1>2. dead \in SUBSET alive /\ dead \cap Held(g) = {} /\ kept \subseteq alive \ dead
  OBVIOUS
<1> HIDE DEF dead
<1>3. /\ FreeAll(g, dead) \in Hosts
      /\ HeldInv(FreeAll(g, dead), alive \ dead, cs)
      /\ QueueInv(FreeAll(g, dead), alive \ dead, cs, gn)
  BY <1>2, FreeAllKeeps
<1> QED BY <1>1, <1>2, <1>3

\* A buffer is of a call and a role, which decide its owner.
LEMMA BufFacts ==
  /\ \A b \in Bufs : b[1] \in Calls /\ b[2] \in Roles /\ b = <<b[1], b[2]>>
  /\ \A b \in Bufs : Owner(b) = "comm" \/ b[2] \in UserRoles
  /\ \A b : b[2] \in UserRoles => Owner(b) = "cur"
BY DEF Bufs, Owner

\* The buffers of a call are of that call.
LEMMA OwnCall ==
  ASSUME NEW c \in Calls, NEW kind
  PROVE  \A b \in Own(c, kind) \cup Mine(c, kind) \cup Local(c, kind) : b[1] = c
BY DEF Own, Mine, Local

\* What the adapter allocates for a call are buffers.
LEMMA LocalBufs ==
  ASSUME NEW c \in Calls, NEW kind \in AllKinds
  PROVE  Local(c, kind) \in SUBSET Bufs
<1>1. \A r \in Tensors(kind) : StageOf[r] \in Internal
  BY TensorRoles, RoleFacts
<1>2. Internal \subseteq Roles /\ "flat" \in Roles
  BY DEF Internal, Roles
<1> QED BY <1>1, <1>2 DEF Local, Bufs

\* Outside a block nothing is held.
LEMMA EmptyHeldInv ==
  ASSUME NEW g, NEW al, NEW cs, g.open = FALSE, g.block = FALSE, g.group = <<>>,
         g.records = {}, g.pairs = {}
  PROVE  HeldInv(g, al, cs) /\ Held(g) = {}
<1>1. GroupOps(g) = {} /\ Held(g) = {}
  BY EmptyGroup DEF Held
<1> QED BY <1>1 DEF HeldInv, Blocks, Deferred, HeldAlive

\* What a block holds.
LEMMA HeldIs == \A g : Held(g) = g.records \cup PairBufs(g.pairs)
BY DEF Held, PairBufs

\* What a block holds are buffers.
LEMMA HeldType == ASSUME NEW g \in Hosts PROVE Held(g) \in SUBSET Bufs
<1>1. g.records \in SUBSET Bufs /\ g.pairs \in SUBSET (Bufs \X Bufs)
  BY DEF Hosts
<1>2. \A p \in Bufs \X Bufs : p[1] \in Bufs /\ p[2] \in Bufs
  OBVIOUS
<1> QED BY <1>1, <1>2, HeldIs DEF PairBufs

\* The block's fields are taken, the group stays.
LEMMA ClearedFields ==
  ASSUME NEW g \in Hosts
  PROVE  /\ Cleared(g) \in Hosts /\ Cleared(g).q = g.q /\ Cleared(g).users = g.users
         /\ Cleared(g).group = g.group /\ Cleared(g).open = g.open
         /\ Cleared(g).block = FALSE /\ Cleared(g).records = {} /\ Cleared(g).pairs = {}
BY DEF Cleared, Hosts

\* The block's fields and the group are dropped.
LEMMA DroppedFields ==
  ASSUME NEW g \in Hosts
  PROVE  LET k == Dropped(Cleared(g))
         IN /\ k \in Hosts /\ k.q = g.q /\ k.users = g.users
            /\ k.group = <<>> /\ k.open = FALSE
            /\ k.block = FALSE /\ k.records = {} /\ k.pairs = {}
<1>1. <<>> \in Seq(OpSet)
  BY EmptySeq
<1> DEFINE m == Cleared(g)
<1>2. /\ m \in Hosts /\ m.q = g.q /\ m.users = g.users
      /\ m.block = FALSE /\ m.records = {} /\ m.pairs = {}
  BY ClearedFields
<1> HIDE DEF m
<1> SUFFICES /\ Dropped(m) \in Hosts /\ Dropped(m).q = g.q /\ Dropped(m).users = g.users
             /\ Dropped(m).group = <<>> /\ Dropped(m).open = FALSE
             /\ Dropped(m).block = FALSE /\ Dropped(m).records = {} /\ Dropped(m).pairs = {}
  BY DEF m
<1> QED BY <1>1, <1>2 DEF Dropped, Hosts

\* Afterwards every fence that was deferred is made.
LEMMA BlockEndFields ==
  ASSUME NEW g \in Hosts, NEW T, Held(g) \subseteq T, \A op \in GroupOps(g) : Works(op, T)
  PROVE  LET k == BlockEnd(g)
         IN /\ k \in Hosts /\ Extends(g, k, "comm", T)
            /\ k.group = <<>> /\ k.open = FALSE
            /\ k.block = FALSE /\ k.records = {} /\ k.pairs = {}
            /\ \A b \in g.records \cup {p[1] : p \in g.pairs} :
                 Owner(b) = "comm" \/ "comm" \in k.users[b]
<1> DEFINE m == Cleared(g)
           n == GroupEnd(m)
           r == Record(n, g.records)
           k == Finish(r, g.pairs)
<1>1. g.records \in SUBSET Bufs /\ g.pairs \in SUBSET (Bufs \X Bufs)
      /\ PairBufs(g.pairs) \subseteq T
      /\ {p[1] : p \in g.pairs} \subseteq Held(g) /\ g.records \subseteq Held(g)
  BY HeldIs DEF Hosts, PairBufs
<1>2. /\ m \in Hosts /\ m.q = g.q /\ m.users = g.users /\ m.group = g.group
      /\ m.block = FALSE /\ m.records = {} /\ m.pairs = {}
  BY ClearedFields
<1>3. BlockEnd(g) = k
  BY DEF BlockEnd
<1> HIDE DEF m
<1>4. GroupOps(m) = GroupOps(g)
  BY <1>2 DEF GroupOps
<1>5. /\ n \in Hosts /\ Extends(m, n, "comm", T)
      /\ n.group = <<>> /\ n.open = FALSE /\ n.block = m.block
      /\ n.records = m.records /\ n.pairs = m.pairs
  BY <1>2, <1>4, GroupEndFields
<1>6. Extends(g, m, "comm", T)
  BY <1>2, ExtendsRefl
<1> HIDE DEF n
<1>7. Extends(g, n, "comm", T)
  BY <1>2, <1>5, <1>6, ExtendsTrans
<1>8. Issues(n, n, FALSE, T, {}, {}, {})
  BY <1>5, IssuesRefl
<1>9. Issues(n, r, FALSE, T, {}, {} \cup g.records, {})
  BY <1>1, <1>5, <1>8, IssuesRecord
<1> HIDE DEF r
<1>10. Issues(n, k, FALSE, T, {}, {} \cup g.records, {} \cup g.pairs)
  BY <1>1, <1>5, <1>9, IssuesFinish
<1> HIDE DEF k
<1>11. /\ k \in Hosts /\ Extends(n, k, "comm", T) /\ k.group = n.group
       /\ k.open = n.open /\ k.block = n.block
       /\ k.records = n.records /\ k.pairs = n.pairs
       /\ \A b \in Bufs : b \in g.records \cup {p[1] : p \in g.pairs}
                          => Owner(b) = "comm" \/ "comm" \in k.users[b]
  <2>1. ({} \cup g.records) \cup {p[1] : p \in {} \cup g.pairs} = g.records \cup {p[1] : p \in g.pairs}
    OBVIOUS
  <2> QED BY <1>2, <1>5, <1>10, <2>1 DEF Issues
<1>12. Extends(g, k, "comm", T)
  BY <1>5, <1>7, <1>11, ExtendsTrans
<1>13. Held(g) \in SUBSET Bufs
  BY HeldType
<1> QED BY <1>1, <1>2, <1>3, <1>5, <1>11, <1>12, <1>13

\* Nothing changed.
LEMMA ContinuesRefl ==
  ASSUME NEW al, NEW cs PROVE Continues(al, cs, al, cs)
BY DEF Continues

\* The caller's producer, on a buffer nobody touched before.
LEMMA ProducedKeeps ==
  ASSUME StreamsInv, NEW c \in Calls, NEW kind \in AllKinds, call[c].pc = "new",
         NEW cs2, BeginsAs(c, kind, cs2)
  PROVE  LET p == Produced(c, kind)
             al == live \cup Mine(c, kind) \cup Local(c, kind)
         IN /\ p \in Hosts /\ Aside(h, p) /\ al \in SUBSET Bufs
            /\ QueueInv(p, al, cs2, gone)
            /\ \A b \in Own(c, kind) : b \notin gone /\ Unreleased(p, b)
<1> DEFINE p == Produced(c, kind)
           al == live \cup Mine(c, kind) \cup Local(c, kind)
           in == <<c, "in">>
           T == {in}
           op == Op("produce", {}, {in})
<1>1. h \in Hosts /\ "cur" \in Streams /\ gone \in SUBSET Bufs /\ live \in SUBSET Bufs
  BY DEF StreamsInv, Streams
<1>2. in \in Bufs /\ in[1] = c /\ Owner(in) = "cur"
  BY DEF Bufs, Roles, UserRoles, Owner
<1>3. op \in OpSet /\ Works(op, T)
  <2>1. "produce" \in OpKinds /\ {} \in SUBSET Bufs /\ T \in SUBSET Bufs
    BY <1>2 DEF OpKinds
  <2> QED BY <2>1, OpType DEF Works, Touches
<1>4. p \in Hosts /\ Aside(h, p) /\ p.users = h.users /\ Extends(h, p, "cur", T)
  <2>1. CASE kind = "recv"
    <3>1. p = h
      BY <2>1 DEF Produced
    <3> QED BY <1>1, <3>1, ExtendsRefl DEF Aside
  <2>2. CASE kind # "recv"
    <3>1. p = Enqueue(h, "cur", op)
      BY <2>2 DEF Produced
    <3> HIDE DEF p, op, T
    <3> QED BY <1>1, <1>3, <3>1, EnqueueFields, EnqueueExtends
  <2> QED BY <2>1, <2>2
<1>5. al \in SUBSET Bufs
  BY <1>1, OwnBufs, LocalBufs
<1>6. \A b \in Bufs : b[1] = c => IsNew(call, b) /\ ~IsNew(cs2, b)
  BY DEF IsNew, BeginsAs
<1>7. \A b \in Bufs : b[1] = c => b \notin gone /\ Unreleased(h, b)
  <2> SUFFICES ASSUME NEW b \in Bufs, b[1] = c PROVE b \notin gone /\ Unreleased(h, b)
    OBVIOUS
  <2>1. IsNew(call, b) /\ QueueInv(h, live, call, gone)
    BY <1>6 DEF StreamsInv
  <2> QED BY <2>1, LiveUnreleased
<1>8. \A b \in Own(c, kind) \cup Mine(c, kind) \cup Local(c, kind) : b \in Bufs /\ b[1] = c
  BY OwnCall, OwnBufs, LocalBufs
<1>9. Continues(live, call, al, cs2)
  BY <1>6, <1>8 DEF Continues, BeginsAs
<1>10. Held(p) = Held(h)
  BY <1>4, HeldAside
<1> HIDE DEF p, al, in, op
<1>11. T \in SUBSET Bufs
  BY <1>2
<1>12. \A b \in T : ~IsNew(cs2, b) /\ b \notin gone /\ Unreleased(h, b)
  BY <1>2, <1>6, <1>7
<1>13. \A b \in T : Owner(b) = "cur"
  BY <1>2
<1> HIDE DEF T
<1>14. QueueInv(h, live, call, gone)
  BY DEF StreamsInv
<1>15. QueueInv(p, al, cs2, gone)
  BY <1>1, <1>4, <1>5, <1>9, <1>10, <1>11, <1>12, <1>13, <1>14, QueueStep
<1>16. \A b \in Own(c, kind) : b \notin gone /\ Unreleased(p, b)
  BY <1>4, <1>7, <1>8, ExtendsUnreleased
<1> QED BY <1>4, <1>5, <1>15, <1>16 DEF p, al

\* A collective that returns, in a block or outside one.
LEMMA CallKeeps ==
  ASSUME StreamsInv, NEW c \in Calls, NEW kind \in Kinds, NEW kept \in Kept(c, kind),
         Call(c, kind, kept)
  PROVE  StreamsInv'
<1> DEFINE p == Produced(c, kind)
           al == live \cup Mine(c, kind) \cup Local(c, kind)
           k == Method(kind, p, h.open, c)
           T == Own(c, kind)
<1>1. kind \in AllKinds /\ kind \in Kinds \cup {""} /\ strided \in BOOLEAN
  BY KindsAre DEF StreamsInv
<1>2. /\ call[c].pc = "new" /\ Host(k, al, refs \cup kept)
      /\ call' = [call EXCEPT ![c] =
                   [pc |-> IF h.open THEN "member" ELSE "work", kind |-> kind,
                    event |-> Issued(k, "comm")]]
      /\ UNCHANGED <<lib, strided, gone>>
  BY DEF Call, Begins, deviceVars
<1>3. /\ h \in Hosts /\ call \in [Calls -> CallSet] /\ live \in SUBSET Bufs
      /\ refs \subseteq live /\ gone \in SUBSET Bufs /\ HeldInv(h, live, call)
  BY DEF StreamsInv
<1>4. /\ call'[c].pc = IF h.open THEN "member" ELSE "work"
      /\ \A d \in Calls \ {c} : call'[d] = call[d]
  BY <1>2, <1>3
<1>5. BeginsAs(c, kind, call')
  BY <1>2, <1>4, BufFacts DEF BeginsAs, IsNew, FencedIn
<1>6. /\ p \in Hosts /\ Aside(h, p) /\ al \in SUBSET Bufs
      /\ QueueInv(p, al, call', gone)
      /\ \A b \in T : b \notin gone /\ Unreleased(p, b)
  BY <1>1, <1>2, <1>5, ProducedKeeps
<1> HIDE DEF p, al
<1>7. h.open \in BOOLEAN /\ h.block = h.open /\ p.open = h.open /\ p.block = h.open
      /\ p.group = h.group /\ p.records = h.records /\ p.pairs = h.pairs
      /\ (~h.open => h.group = <<>> /\ h.records = {} /\ h.pairs = {})
  BY <1>3, <1>6 DEF Hosts, HeldInv, Blocks, Aside
<1>8. Collects(p, k, h.open, c, kind)
  BY <1>1, <1>6, <1>7, MethodCollects
<1> HIDE DEF k
<1>9. PICK R \in SUBSET Bufs, P \in SUBSET (Bufs \X Bufs) :
        /\ Issues(p, k, h.open, T, R \cup PairBufs(P), R, P)
        /\ Mine(c, kind) \subseteq R \cup {x[1] : x \in P}
        /\ R \cup PairBufs(P) \subseteq Mine(c, kind) \cup Local(c, kind)
        /\ \A x \in P : x[2] = x[1] \/ Owner(x[2]) = "comm"
  BY <1>8 DEF Collects
<1>10. /\ k \in Hosts /\ Extends(p, k, "comm", T)
       /\ \A op \in GroupOps(k) : op \in GroupOps(p) \/ Works(op, R \cup PairBufs(P))
       /\ h.open \/ k.group = p.group
       /\ k.open = p.open /\ k.block = p.block
  BY <1>9 DEF Issues
<1>11. /\ HeldInv(k, al, call') /\ Held(p) \subseteq Held(k)
       /\ \A b \in Mine(c, kind) :
            Owner(b) = "comm" \/ "comm" \in k.users[b] \/ b \in Held(k)
  <2>1. CASE h.open
    <3>1. k.records = h.records \cup R /\ k.pairs = h.pairs \cup P
      BY <1>7, <1>9, <2>1 DEF Issues
    <3>2. Held(k) = Held(h) \cup R \cup PairBufs(P)
      BY <3>1, HeldIs DEF PairBufs
    <3>3. HeldInv(k, al, call')
      <4>1. Blocks(k)
        BY <1>7, <1>10, <2>1 DEF Blocks
      <4>2. GroupOps(p) = GroupOps(h)
        BY <1>7 DEF GroupOps
      <4>3. \A op \in GroupOps(k) : Works(op, Held(k))
        BY <1>3, <1>10, <3>2, <4>2 DEF HeldInv, Deferred, Works
      <4>4. \A x \in k.pairs : x[2] = x[1] \/ Owner(x[2]) = "comm"
        BY <1>3, <1>9, <3>1 DEF HeldInv, Deferred
      <4>5. ASSUME NEW b \in Held(h) PROVE b \in al /\ call'[b[1]].pc = "member"
        <5>1. b \in live /\ call[b[1]].pc = "member" /\ b[1] \in Calls
          BY <1>3, BufFacts DEF HeldInv, HeldAlive
        <5>2. b[1] # c
          BY <1>2, <5>1
        <5> QED BY <1>4, <5>1, <5>2 DEF al
      <4>6. ASSUME NEW b \in R \cup PairBufs(P) PROVE b \in al /\ call'[b[1]].pc = "member"
        <5>1. b \in Mine(c, kind) \cup Local(c, kind)
          BY <1>9
        <5>2. b[1] = c
          BY <5>1, OwnCall
        <5> QED BY <1>4, <2>1, <5>1, <5>2 DEF al
      <4> QED BY <3>2, <4>1, <4>3, <4>4, <4>5, <4>6 DEF HeldInv, Deferred, HeldAlive
    <3>4. \A b \in Mine(c, kind) : b \in Held(k)
      BY <1>9, <3>2 DEF PairBufs
    <3>5. Held(p) \subseteq Held(k)
      BY <1>6, <3>2, HeldAside
    <3> QED BY <3>3, <3>4, <3>5
  <2>2. CASE ~h.open
    <3>1. k.records = {} /\ k.pairs = {} /\ k.group = <<>> /\ k.open = FALSE /\ k.block = FALSE
      BY <1>7, <1>9, <1>10, <2>2 DEF Issues
    <3>2. HeldInv(k, al, call')
      BY <3>1, EmptyHeldInv
    <3>3. Held(p) = {}
      BY <1>7, <2>2 DEF Held
    <3>4. ASSUME NEW b \in Mine(c, kind) PROVE Owner(b) = "comm" \/ "comm" \in k.users[b]
      <4>1. b \in Bufs /\ b \in R \cup {x[1] : x \in P}
        BY <1>1, <1>9, OwnBufs
      <4> QED BY <1>7, <1>9, <2>2, <4>1 DEF Issues
    <3> QED BY <3>2, <3>3, <3>4
  <2> QED BY <2>1, <2>2
<1>12. QueueInv(k, al, call', gone)
  <2>1. T \in SUBSET Bufs
    BY <1>1, OwnBufs
  <2>2. \A b \in T : ~IsNew(call', b) /\ b \notin gone /\ Unreleased(p, b)
    BY <1>4, <1>6, OwnCall DEF IsNew
  <2>3. \A b \in T : Owner(b) = "comm" \/ "comm" \in k.users[b] \/ b \in Held(k)
    BY <1>11, InternalFacts DEF Own
  <2>4. Continues(al, call', al, call')
    BY ContinuesRefl
  <2>5. "comm" \in Streams
    BY DEF Streams
  <2> HIDE DEF T
  <2> QED BY <1>3, <1>6, <1>10, <1>11, <2>1, <2>2, <2>3, <2>4, <2>5, QueueStep
<1>13. call' \in [Calls -> CallSet]
  <2>1. Issued(k, "comm") \in [Streams -> Nat]
    BY <1>10, IssuedType DEF Streams
  <2> QED BY <1>1, <1>2, <1>3, <2>1 DEF CallSet
<1>14. refs \cup kept \subseteq al
  <2>1. kept \subseteq Mine(c, kind)
    BY DEF Kept, Mine, Tensors
  <2> QED BY <1>3, <2>1 DEF al
<1>15. /\ h' \in Hosts /\ live' \in SUBSET Bufs /\ refs' \subseteq live'
       /\ HeldInv(h', live', call') /\ QueueInv(h', live', call', gone)
  <2>1. Host(k, al, refs \cup kept)
    BY <1>2 DEF al, k, p
  <2> QED BY <1>3, <1>6, <1>10, <1>11, <1>12, <1>14, <2>1, HostKeeps
<1> QED BY <1>2, <1>13, <1>15 DEF StreamsInv

\* Of a call that raised only the adapter's own buffers are fenced.
LEMMA RaisedUnfenced ==
  ASSUME NEW cs, NEW b \in Bufs, cs[b[1]].pc = "raised", FencedIn(cs, b)
  PROVE  Owner(b) = "comm"
BY BufFacts DEF FencedIn

\* A collective that raises halfway, with the block unwound: its operations
\* are enqueued and its fences are not made, so its tensors are no longer fenced.
LEMMA CallRaisesKeeps ==
  ASSUME StreamsInv, NEW c \in Calls, NEW kind \in Kinds, NEW ends \in BOOLEAN,
         CallRaises(c, kind, ends)
  PROVE  StreamsInv'
<1> DEFINE p == Produced(c, kind)
           al == live \cup Mine(c, kind) \cup Local(c, kind)
           p1 == [p EXCEPT !.block = TRUE]
           m == Method(kind, p1, h.open, c)
           k == Partly(p, h.open, c, kind)
           g == AbortCoalescing(k, ends)
           T == Own(c, kind)
           T2 == T \cup Held(h)
<1>1. kind \in AllKinds /\ kind \in Kinds \cup {""} /\ strided \in BOOLEAN
  BY KindsAre DEF StreamsInv
<1>2. /\ call[c].pc = "new" /\ Host(g, al, refs)
      /\ call' = [d \in Calls |-> IF h.block /\ call[d].pc = "member"
                                  THEN [call[d] EXCEPT !.pc = "raised"]
                                  ELSE Raised(c, kind)[d]]
      /\ UNCHANGED <<lib, strided, gone>>
  BY DEF CallRaises, Begins, deviceVars
<1>3. /\ h \in Hosts /\ call \in [Calls -> CallSet] /\ live \in SUBSET Bufs
      /\ refs \subseteq live /\ gone \in SUBSET Bufs /\ HeldInv(h, live, call)
  BY DEF StreamsInv
<1>4. /\ call' \in [Calls -> CallSet] /\ call'[c].pc = "raised"
      /\ \A d \in Calls : call'[d].pc = "raised" \/ call'[d] = call[d]
      /\ h.block => \A d \in Calls : call[d].pc = "member" => call'[d].pc = "raised"
  <2>1. Raised(c, kind) \in [Calls -> CallSet] /\ Raised(c, kind)[c].pc = "raised"
        /\ \A d \in Calls \ {c} : Raised(c, kind)[d] = call[d]
    BY <1>1, <1>3, NoWaitType DEF Raised, CallSet
  <2>2. \A d \in Calls : [call[d] EXCEPT !.pc = "raised"] \in CallSet
                         /\ [call[d] EXCEPT !.pc = "raised"].pc = "raised"
    BY <1>3 DEF CallSet
  <2> HIDE DEF CallSet
  <2> QED BY <1>2, <2>1, <2>2
<1>5. BeginsAs(c, kind, call')
  BY <1>2, <1>4, BufFacts DEF BeginsAs, IsNew, FencedIn
<1>6. /\ p \in Hosts /\ Aside(h, p) /\ al \in SUBSET Bufs
      /\ QueueInv(p, al, call', gone)
      /\ \A b \in T : b \notin gone /\ Unreleased(p, b)
  BY <1>1, <1>2, <1>5, ProducedKeeps
<1>7. Host(g, al, refs)
  BY <1>2
<1>8. k = [m EXCEPT !.block = p.block, !.records = p.records, !.pairs = p.pairs]
  BY DEF Partly
<1>9. refs \subseteq al
  BY <1>3
<1>10. live \subseteq al
  OBVIOUS
<1> HIDE DEF p, al
<1>11. h.open \in BOOLEAN /\ h.block = h.open /\ p.open = h.open /\ p.block = h.open
      /\ p.group = h.group /\ p.records = h.records /\ p.pairs = h.pairs
      /\ (~h.open => h.group = <<>> /\ h.records = {} /\ h.pairs = {})
  BY <1>3, <1>6 DEF Hosts, HeldInv, Blocks, Aside
<1>12. /\ p1 \in Hosts /\ p1.q = p.q /\ p1.users = p.users /\ p1.group = p.group
       /\ p1.open = p.open
  BY <1>6 DEF Hosts
<1> HIDE DEF p1
<1>13. Collects(p1, m, h.open, c, kind)
  BY <1>1, <1>11, <1>12, MethodCollects
<1> HIDE DEF m
<1>14. PICK R \in SUBSET Bufs, P \in SUBSET (Bufs \X Bufs) :
        /\ Issues(p1, m, h.open, T, R \cup PairBufs(P), R, P)
        /\ R \cup PairBufs(P) \subseteq Mine(c, kind) \cup Local(c, kind)
  BY <1>13 DEF Collects
<1>15. /\ m \in Hosts /\ Extends(p1, m, "comm", T)
       /\ \A op \in GroupOps(m) : op \in GroupOps(p1) \/ Works(op, R \cup PairBufs(P))
       /\ h.open \/ m.group = p1.group
       /\ m.open = p1.open
  BY <1>14 DEF Issues
<1>16. /\ k \in Hosts /\ k.q = m.q /\ k.users = m.users /\ k.group = m.group
       /\ k.open = h.open /\ k.block = h.open /\ k.records = h.records /\ k.pairs = h.pairs
  <2>1. k = [m EXCEPT !.block = p.block, !.records = p.records, !.pairs = p.pairs]
    BY <1>8
  <2>2. p.block \in BOOLEAN /\ p.records \in SUBSET Bufs /\ p.pairs \in SUBSET (Bufs \X Bufs)
    BY <1>6 DEF Hosts
  <2> HIDE DEF k
  <2> QED BY <1>11, <1>12, <1>15, <2>1, <2>2 DEF Hosts
<1> HIDE DEF k
<1>17. Extends(p, k, "comm", T)
  <2>1. Extends(p, p1, "comm", T)
    BY <1>6, <1>12, ExtendsRefl
  <2>2. Extends(p, m, "comm", T)
    BY <1>6, <1>12, <1>15, <2>1, ExtendsTrans
  <2>3. Extends(m, k, "comm", T)
    BY <1>15, <1>16, ExtendsRefl
  <2> QED BY <1>6, <1>15, <1>16, <2>2, <2>3, ExtendsTrans
<1>18. Held(k) = Held(h) /\ Held(p) = Held(h)
  BY <1>11, <1>16 DEF Held
<1>19. \A b \in T : b \in Bufs /\ b[1] = c
  BY <1>1, OwnCall, OwnBufs
<1>20. \A b \in T : ~IsNew(call', b) /\ (FencedIn(call', b) => Owner(b) = "comm")
  BY <1>4, <1>19, RaisedUnfenced DEF IsNew
<1>21. T \in SUBSET Bufs
  BY <1>19
<1> HIDE DEF T
<1>22. QueueInv(k, al, call', gone)
  <2>1. Continues(al, call', al, call')
    BY ContinuesRefl
  <2> QED BY <1>3, <1>6, <1>16, <1>17, <1>18, <1>20, <1>21, <2>1, StreamNames, QueueStep
<1>23. g \in Hosts /\ HeldInv(g, al, call') /\ QueueInv(g, al, call', gone)
  <2>1. CASE ~h.open
    <3>1. g = k
      BY <1>16, <2>1 DEF AbortCoalescing
    <3>2. k.group = <<>> /\ k.records = {} /\ k.pairs = {} /\ k.open = FALSE /\ k.block = FALSE
      BY <1>11, <1>12, <1>15, <1>16, <2>1
    <3> QED BY <1>16, <1>22, <3>1, <3>2, EmptyHeldInv
  <2>2. CASE h.open
    <3>1. ASSUME NEW b \in Held(h)
          PROVE  b \in Bufs /\ b \in al /\ ~IsNew(call', b) /\ (FencedIn(call', b) => Owner(b) = "comm")
                 /\ b \notin gone /\ Unreleased(k, b)
      <4>1. b \in Bufs /\ b \in live /\ call[b[1]].pc = "member" /\ b[1] \in Calls
        BY <1>3, BufFacts DEF HeldInv, HeldAlive
      <4>2. call'[b[1]].pc = "raised"
        BY <1>4, <1>11, <2>2, <4>1
      <4>3. b \notin gone /\ Unreleased(k, b)
        BY <1>10, <1>22, <4>1, LiveUnreleased
      <4> QED BY <1>10, <4>1, <4>2, <4>3, RaisedUnfenced DEF IsNew
    <3>2. /\ T2 \in SUBSET Bufs
          /\ \A b \in T2 : ~IsNew(call', b) /\ b \notin gone /\ Unreleased(k, b)
                           /\ (FencedIn(call', b) => Owner(b) = "comm")
      BY <1>6, <1>17, <1>20, <1>21, <3>1, ExtendsUnreleased
    <3>3. \A op \in GroupOps(k) : Works(op, T2)
      <4>1. GroupOps(k) = GroupOps(m) /\ GroupOps(p1) = GroupOps(h)
        BY <1>11, <1>12, <1>16 DEF GroupOps
      <4>2. \A op \in GroupOps(h) : Works(op, Held(h))
        BY <1>3 DEF HeldInv, Deferred
      <4>3. ASSUME NEW b \in R \cup PairBufs(P) PROVE b \in T
        <5>1. b \in Mine(c, kind) \/ b \in Local(c, kind)
          BY <1>14
        <5>2. Local(c, kind) \subseteq Own(c, kind)
          <6>1. \A r \in Tensors(kind) : StageOf[r] \in Internal
            BY <1>1, TensorRoles, RoleFacts
          <6> QED BY <6>1, RoleFacts DEF Local, Own
        <5> QED BY <5>1, <5>2 DEF T, Own
      <4> QED BY <1>15, <4>1, <4>2, <4>3 DEF Works
    <3> HIDE DEF T2
    <3>4. Continues(al, call', al, call')
      BY ContinuesRefl
    <3>5. CASE ends
      <4>1. g = BlockEnd(k)
        BY <1>16, <2>2, <3>5 DEF AbortCoalescing, BlockEnd
      <4>2. Held(k) \subseteq T2
        BY <1>18 DEF T2
      <4>3. /\ g \in Hosts /\ Extends(k, g, "comm", T2)
            /\ g.group = <<>> /\ g.open = FALSE
            /\ g.block = FALSE /\ g.records = {} /\ g.pairs = {}
        BY <1>16, <3>3, <4>1, <4>2, BlockEndFields
      <4> HIDE DEF g
      <4>4. HeldInv(g, al, call')
        BY <4>3, EmptyHeldInv
      <4>5. \A b \in Held(k) : FencedIn(call', b) => Owner(b) = "comm"
        BY <1>18, <3>1
      <4>6. QueueInv(g, al, call', gone)
        BY <1>3, <1>6, <1>16, <1>22, <3>2, <3>4, <4>3, <4>5, StreamNames, QueueStep
      <4> QED BY <4>3, <4>4, <4>6
    <3>6. CASE ~ends
      <4>1. g = Dropped(Cleared(k))
        BY <1>16, <2>2, <3>6 DEF AbortCoalescing
      <4>2. /\ g \in Hosts /\ g.q = k.q /\ g.users = k.users
            /\ g.group = <<>> /\ g.open = FALSE
            /\ g.block = FALSE /\ g.records = {} /\ g.pairs = {}
        BY <1>16, <4>1, DroppedFields
      <4> HIDE DEF g
      <4>3. HeldInv(g, al, call')
        BY <4>2, EmptyHeldInv
      <4>4. Extends(k, g, "comm", {})
        BY <1>16, <4>2, ExtendsRefl
      <4>5. \A b \in Held(k) : FencedIn(call', b) => Owner(b) = "comm"
        BY <1>18, <3>1
      <4>6. QueueInv(g, al, call', gone)
        BY <1>3, <1>6, <1>16, <1>22, <3>4, <4>2, <4>4, <4>5, StreamNames, QueueStep
      <4> QED BY <4>2, <4>3, <4>6
    <3> QED BY <3>5, <3>6
  <2> QED BY <2>1, <2>2
<1> HIDE DEF g
<1>24. /\ h' \in Hosts /\ live' \in SUBSET Bufs /\ refs' \subseteq live'
       /\ HeldInv(h', live', call') /\ QueueInv(h', live', call', gone)
  BY <1>3, <1>6, <1>7, <1>9, <1>23, HostKeeps
<1> QED BY <1>2, <1>4, <1>24 DEF StreamsInv

\* The calls of a block, when it ended.
LEMMA MembersAre ==
  ASSUME call \in [Calls -> CallSet], NEW pc \in {"work", "raised"},
         NEW event \in [Streams -> Nat]
  PROVE  /\ Members(pc, event) \in [Calls -> CallSet]
         /\ \A d \in Calls : IF call[d].pc = "member" THEN Members(pc, event)[d].pc = pc
                             ELSE Members(pc, event)[d] = call[d]
BY DEF Members, CallSet

\* _end_coalescing: everything deferred is submitted, fenced and copied back
\* before the temporaries are let go.
LEMMA EndBlockKeeps ==
  ASSUME StreamsInv, EndBlock
  PROVE  StreamsInv'
<1> DEFINE g == BlockEnd(h)
           T == Held(h)
<1>1. /\ Host(g, live, refs) /\ call' = Members("work", Issued(g, "comm"))
      /\ UNCHANGED <<lib, strided, gone>>
  BY DEF EndBlock, BlockEnd, deviceVars
<1>2. /\ h \in Hosts /\ call \in [Calls -> CallSet] /\ live \in SUBSET Bufs
      /\ refs \subseteq live /\ gone \in SUBSET Bufs /\ HeldInv(h, live, call)
      /\ QueueInv(h, live, call, gone)
  BY DEF StreamsInv
<1>3. /\ g \in Hosts /\ Extends(h, g, "comm", T)
      /\ g.group = <<>> /\ g.open = FALSE
      /\ g.block = FALSE /\ g.records = {} /\ g.pairs = {}
      /\ \A b \in h.records \cup {x[1] : x \in h.pairs} :
            Owner(b) = "comm" \/ "comm" \in g.users[b]
  <2>1. \A op \in GroupOps(h) : Works(op, T)
    BY <1>2 DEF HeldInv, Deferred
  <2> QED BY <1>2, <2>1, BlockEndFields
<1> HIDE DEF g
<1>4. /\ call' \in [Calls -> CallSet]
      /\ \A d \in Calls : IF call[d].pc = "member" THEN call'[d].pc = "work"
                          ELSE call'[d] = call[d]
  <2>1. Issued(g, "comm") \in [Streams -> Nat]
    BY <1>3, IssuedType, StreamNames
  <2> QED BY <1>1, <1>2, <2>1, MembersAre
<1>5. T \in SUBSET Bufs
  BY <1>2, HeldType
<1>6. Continues(live, call, live, call')
  BY <1>4, BufFacts DEF Continues, IsNew, FencedIn
<1>7. ASSUME NEW b \in T
      PROVE  ~IsNew(call', b) /\ b \notin gone /\ Unreleased(h, b)
  <2>1. b \in Bufs /\ b \in live /\ call[b[1]].pc = "member" /\ b[1] \in Calls
    BY <1>2, <1>5, BufFacts DEF HeldInv, HeldAlive
  <2> QED BY <1>2, <1>4, <2>1, LiveUnreleased DEF IsNew
<1>8. ASSUME NEW b \in T PROVE Owner(b) = "comm" \/ "comm" \in g.users[b]
  <2>1. b \in h.records \cup {x[1] : x \in h.pairs} \/ \E x \in h.pairs : b = x[2]
    BY HeldIs DEF PairBufs
  <2>2. CASE b \in h.records \cup {x[1] : x \in h.pairs}
    BY <1>3, <2>2
  <2>3. CASE \E x \in h.pairs : b = x[2]
    <3>1. PICK x \in h.pairs : b = x[2]
      BY <2>3
    <3>2. b = x[1] \/ Owner(b) = "comm"
      BY <1>2, <3>1 DEF HeldInv, Deferred
    <3> QED BY <1>3, <3>2
  <2> QED BY <2>1, <2>2, <2>3
<1>9. HeldInv(g, live, call')
  BY <1>3, EmptyHeldInv
<1>10. \A b \in Held(h) : Owner(b) = "comm" \/ "comm" \in g.users[b]
  BY <1>8
<1> HIDE DEF T
<1>11. QueueInv(g, live, call', gone)
  BY <1>2, <1>3, <1>5, <1>6, <1>7, <1>8, <1>10, StreamNames, QueueStep
<1>12. /\ h' \in Hosts /\ live' \in SUBSET Bufs /\ refs' \subseteq live'
       /\ HeldInv(h', live', call') /\ QueueInv(h', live', call', gone)
  BY <1>1, <1>2, <1>3, <1>9, <1>11, HostKeeps
<1> QED BY <1>1, <1>4, <1>12 DEF StreamsInv

\* ncclGroupEnd fails: what the group held was never submitted.
LEMMA EndBlockFailsKeeps ==
  ASSUME StreamsInv, EndBlockFails
  PROVE  StreamsInv'
<1> DEFINE g == Dropped(Cleared(h))
<1>1. /\ h.open /\ Host(g, live, refs) /\ call' = Members("raised", NoWait)
      /\ UNCHANGED <<lib, strided, gone>>
  BY DEF EndBlockFails, deviceVars
<1>2. /\ h \in Hosts /\ call \in [Calls -> CallSet] /\ live \in SUBSET Bufs
      /\ refs \subseteq live /\ gone \in SUBSET Bufs /\ HeldInv(h, live, call)
      /\ QueueInv(h, live, call, gone)
  BY DEF StreamsInv
<1>3. /\ g \in Hosts /\ g.q = h.q /\ g.users = h.users
      /\ g.group = <<>> /\ g.open = FALSE
      /\ g.block = FALSE /\ g.records = {} /\ g.pairs = {}
  BY <1>2, DroppedFields
<1> HIDE DEF g
<1>4. /\ call' \in [Calls -> CallSet]
      /\ \A d \in Calls : IF call[d].pc = "member" THEN call'[d].pc = "raised"
                          ELSE call'[d] = call[d]
  BY <1>1, <1>2, NoWaitType, MembersAre
<1>5. Continues(live, call, live, call')
  BY <1>4, BufFacts DEF Continues, IsNew, FencedIn
<1>6. ASSUME NEW b \in Held(h), FencedIn(call', b) PROVE Owner(b) = "comm"
  <2>1. b \in Bufs /\ call[b[1]].pc = "member" /\ b[1] \in Calls
    BY <1>2, BufFacts DEF HeldInv, HeldAlive
  <2> QED BY <1>4, <1>6, <2>1, RaisedUnfenced
<1>7. HeldInv(g, live, call')
  BY <1>3, EmptyHeldInv
<1>8. Extends(h, g, "comm", {})
  BY <1>2, <1>3, ExtendsRefl
<1>9. QueueInv(g, live, call', gone)
  BY <1>2, <1>3, <1>5, <1>6, <1>8, StreamNames, QueueStep
<1>10. /\ h' \in Hosts /\ live' \in SUBSET Bufs /\ refs' \subseteq live'
       /\ HeldInv(h', live', call') /\ QueueInv(h', live', call', gone)
  BY <1>1, <1>2, <1>3, <1>7, <1>9, HostKeeps
<1> QED BY <1>1, <1>4, <1>10 DEF StreamsInv

\* _start_coalescing.
LEMMA StartBlockKeeps ==
  ASSUME StreamsInv, StartBlock
  PROVE  StreamsInv'
<1>1. /\ ~h.block /\ h' = [h EXCEPT !.block = TRUE, !.open = TRUE]
      /\ UNCHANGED <<lib, strided, call, live, refs, gone>>
  BY DEF StartBlock, deviceVars
<1>2. /\ h \in Hosts /\ HeldInv(h, live, call) /\ QueueInv(h, live, call, gone)
      /\ live \in SUBSET Bufs /\ gone \in SUBSET Bufs
  BY DEF StreamsInv
<1>3. /\ h' \in Hosts /\ h'.q = h.q /\ h'.users = h.users /\ h'.group = h.group
      /\ h'.records = h.records /\ h'.pairs = h.pairs /\ h'.block = TRUE /\ h'.open = TRUE
  BY <1>1, <1>2 DEF Hosts
<1>4. Held(h') = Held(h) /\ GroupOps(h') = GroupOps(h)
  BY <1>3 DEF Held, GroupOps
<1>5. HeldInv(h', live, call)
  BY <1>2, <1>3, <1>4 DEF HeldInv, Blocks, Deferred, HeldAlive
<1>6. Extends(h, h', "comm", {})
  BY <1>2, <1>3, ExtendsRefl
<1>7. QueueInv(h', live, call, gone)
  BY <1>2, <1>3, <1>4, <1>6, StreamNames, ContinuesRefl, QueueStep
<1> QED BY <1>1, <1>3, <1>5, <1>7 DEF StreamsInv

\* Work.wait, the waiter's computation and the last reference to the tensors:
\* the waiter's stream is recorded before they may be freed.
LEMMA WaitWorkKeeps ==
  ASSUME StreamsInv, NEW c \in Calls, NEW s \in {"cur", "side"}, WaitWork(c, s)
  PROVE  StreamsInv'
<1> DEFINE outs == {<<c, r>> : r \in Outputs(call[c].kind)}
           w == Waits(c, s)
           r == RecordStream(w, outs, s)
           op == Op("use", outs, {})
           g == Enqueue(r, s, op)
           kept == refs \ Mine(c, call[c].kind)
<1>1. /\ call[c].pc = "work" /\ outs \subseteq refs /\ Host(g, live, kept)
      /\ call' = [call EXCEPT ![c].pc = "used", ![c].event = NoWait]
      /\ UNCHANGED <<lib, strided, gone>>
  BY DEF WaitWork, deviceVars
<1>2. /\ h \in Hosts /\ call \in [Calls -> CallSet] /\ live \in SUBSET Bufs
      /\ refs \subseteq live /\ gone \in SUBSET Bufs /\ HeldInv(h, live, call)
      /\ QueueInv(h, live, call, gone) /\ s \in Streams
  BY StreamNames DEF StreamsInv
<1>3. call' \in [Calls -> CallSet] /\ call'[c].pc = "used"
      /\ \A d \in Calls \ {c} : call'[d] = call[d]
  BY <1>1, <1>2, NoWaitType DEF CallSet
<1>4. outs \in SUBSET Bufs /\ outs \subseteq live
  BY <1>1, <1>2
<1>5. \A b \in outs : b[1] = c
  OBVIOUS
<1>6. kept \subseteq live
  BY <1>2
<1> HIDE DEF outs, kept
<1>7. w \in Hosts /\ w.q = h.q /\ w.users = h.users /\ Aside(h, w)
  <2>1. call[c].event \in [Streams -> Nat]
    BY <1>2 DEF CallSet
  <2> QED BY <1>2, <2>1, WaitForFields DEF Waits
<1> HIDE DEF w
<1>8. /\ r \in Hosts /\ r.q = w.q /\ Aside(w, r)
      /\ \A b \in Bufs : w.users[b] \subseteq r.users[b]
      /\ \A b \in outs : Owner(b) = s \/ s \in r.users[b]
  BY <1>2, <1>4, <1>7, RecordStreamFields
<1>9. op \in OpSet /\ Works(op, outs)
  <2>1. "use" \in OpKinds /\ {} \in SUBSET Bufs
    BY DEF OpKinds
  <2> QED BY <1>4, <2>1, OpType DEF Works, Touches
<1> HIDE DEF r, op
<1>10. g \in Hosts /\ Aside(r, g) /\ g.users = r.users /\ Extends(r, g, s, outs)
  BY <1>2, <1>8, <1>9, EnqueueFields, EnqueueExtends
<1> HIDE DEF g
<1>11. Extends(h, g, s, outs)
  <2>1. Extends(h, w, s, outs)
    BY <1>2, <1>7, ExtendsRefl
  <2>2. Extends(w, r, s, outs)
    BY <1>7, <1>8, ExtendsRefl
  <2>3. Extends(h, r, s, outs)
    BY <1>2, <1>7, <1>8, <2>1, <2>2, ExtendsTrans
  <2> QED BY <1>2, <1>8, <1>10, <2>3, ExtendsTrans
<1>12. Aside(h, g)
  BY <1>7, <1>8, <1>10 DEF Aside
<1>13. Held(g) = Held(h) /\ GroupOps(g) = GroupOps(h)
  BY <1>12, HeldAside
<1>14. HeldInv(g, live, call')
  <2>1. Blocks(g) /\ Deferred(g)
    BY <1>2, <1>12, <1>13 DEF HeldInv, Blocks, Deferred, Aside
  <2>2. ASSUME NEW b \in Held(g) PROVE b \in live /\ call'[b[1]].pc = "member"
    <3>1. b \in live /\ call[b[1]].pc = "member" /\ b[1] \in Calls
      BY <1>2, <1>13, BufFacts DEF HeldInv, HeldAlive
    <3> QED BY <1>1, <1>3, <3>1
  <2> QED BY <2>1, <2>2 DEF HeldInv, HeldAlive
<1>15. Continues(live, call, live, call')
  BY <1>1, <1>3, BufFacts DEF Continues, IsNew, FencedIn
<1>16. ASSUME NEW b \in outs
       PROVE  ~IsNew(call', b) /\ b \notin gone /\ Unreleased(h, b)
              /\ (s = Owner(b) \/ s \in g.users[b])
  <2>1. b \in Bufs /\ b \in live /\ b[1] = c
    BY <1>4, <1>5
  <2>2. b \notin gone /\ Unreleased(h, b)
    BY <1>2, <2>1, LiveUnreleased
  <2> QED BY <1>3, <1>8, <1>10, <2>1, <2>2 DEF IsNew
<1>17. QueueInv(g, live, call', gone)
  BY <1>2, <1>4, <1>10, <1>11, <1>13, <1>15, <1>16, QueueStep
<1>18. /\ h' \in Hosts /\ live' \in SUBSET Bufs /\ refs' \subseteq live'
       /\ HeldInv(h', live', call') /\ QueueInv(h', live', call', gone)
  <2>1. Host(g, live, kept)
    BY <1>1 DEF g, op, r, w, outs, kept
  <2> QED BY <1>2, <1>6, <1>10, <1>14, <1>17, <2>1, HostKeeps
<1> QED BY <1>1, <1>3, <1>18 DEF StreamsInv

\* Executing the head of s moves every point of s one down.
LEMMA PassedType ==
  ASSUME NEW s \in Streams, NEW point \in [Streams -> Nat]
  PROVE  /\ Passed(s, point) \in [Streams -> Nat]
         /\ \A t \in Streams \ {s} : Passed(s, point)[t] = point[t]
         /\ Passed(s, point)[s] = IF point[s] = 0 THEN 0 ELSE point[s] - 1
BY DEF Passed

\* The other operations keep their places, and those behind the head of s
\* move up; nobody waits for it any more.
LEMMA ExecuteFields ==
  ASSUME StreamsInv, NEW s \in Streams, Execute(s)
  PROVE  /\ h' \in Hosts /\ Aside(h, h') /\ h'.users = h.users
         /\ 1 \in Queued(h, s) /\ Head(h.q[s]) = h.q[s][1] /\ h.q[s][1].waits = NoWait
         /\ \A t \in Streams : \A i \in Queued(h', t) :
              /\ Was(s, t, i) \in Queued(h, t) /\ i \in Nat
              /\ h'.q[t][i].kind = h.q[t][Was(s, t, i)].kind
              /\ h'.q[t][i].reads = h.q[t][Was(s, t, i)].reads
              /\ h'.q[t][i].writes = h.q[t][Was(s, t, i)].writes
              /\ h'.q[t][i].waits = Passed(s, h.q[t][Was(s, t, i)].waits)
         /\ \A t \in Streams : /\ Len(h.q[t]) = Was(s, t, Len(h'.q[t]))
                               /\ h'.waits[t] = Passed(s, h.waits[t])
<1> DEFINE rest == [h.q EXCEPT ![s] = Tail(@)]
           Q == [t \in Streams |-> [k \in DOMAIN rest[t] |->
                            [rest[t][k] EXCEPT !.waits = Passed(s, @)]]]
           W == [t \in Streams |-> Passed(s, h.waits[t])]
<1>1. /\ h.q[s] # <<>> /\ Head(h.q[s]).waits = NoWait
      /\ h' = [h EXCEPT !.q = Q, !.waits = W]
  BY DEF Execute
<1>2. /\ h \in Hosts /\ h.q \in [Streams -> Seq(OpSet)]
      /\ h.waits \in [Streams -> [Streams -> Nat]]
  BY DEF StreamsInv, Hosts
<1>3. /\ Len(h.q[s]) \in Nat /\ Len(h.q[s]) >= 1 /\ Head(h.q[s]) = h.q[s][1]
      /\ Tail(h.q[s]) \in Seq(OpSet) /\ Len(Tail(h.q[s])) = Len(h.q[s]) - 1
      /\ \A i \in 1..Len(Tail(h.q[s])) : Tail(h.q[s])[i] = h.q[s][i + 1]
  <2>1. h.q[s] \in Seq(OpSet)
    BY <1>2
  <2> QED BY <1>1, <2>1, HeadTailProperties, EmptySeq
<1>4. rest \in [Streams -> Seq(OpSet)] /\ rest[s] = Tail(h.q[s])
      /\ \A t \in Streams \ {s} : rest[t] = h.q[t]
  BY <1>2, <1>3
<1>5. \A t \in Streams : rest[t] \in Seq(OpSet) /\ Len(rest[t]) \in Nat /\ DOMAIN rest[t] = 1..Len(rest[t])
                         /\ \A i \in 1..Len(rest[t]) : rest[t][i] \in OpSet
  BY <1>4, LenProperties, ElementOfSeq
<1> HIDE DEF rest
<1>6. \A o \in OpSet : /\ [o EXCEPT !.waits = Passed(s, @)] \in OpSet
                       /\ [o EXCEPT !.waits = Passed(s, @)].kind = o.kind
                       /\ [o EXCEPT !.waits = Passed(s, @)].reads = o.reads
                       /\ [o EXCEPT !.waits = Passed(s, @)].writes = o.writes
                       /\ [o EXCEPT !.waits = Passed(s, @)].waits = Passed(s, o.waits)
  <2>1. \A o \in OpSet : Passed(s, o.waits) \in [Streams -> Nat]
    BY PassedType DEF OpSet
  <2> QED BY <2>1 DEF OpSet
<1>7. ASSUME NEW t \in Streams
      PROVE  /\ Q[t] \in Seq(OpSet) /\ Len(Q[t]) = Len(rest[t])
             /\ \A i \in 1..Len(rest[t]) : Q[t][i] = [rest[t][i] EXCEPT !.waits = Passed(s, @)]
  <2>1. Q[t] = [k \in 1..Len(rest[t]) |-> [rest[t][k] EXCEPT !.waits = Passed(s, @)]]
    BY <1>5
  <2>2. \A k \in 1..Len(rest[t]) : [rest[t][k] EXCEPT !.waits = Passed(s, @)] \in OpSet
    BY <1>5, <1>6
  <2>3. Q[t] \in [1..Len(rest[t]) -> OpSet]
    BY <2>1, <2>2
  <2>4. Q[t] \in Seq(OpSet)
    <3>1. \A n \in Nat : [1..n -> OpSet] \subseteq Seq(OpSet)
      BY SeqDef
    <3> QED BY <1>5, <2>3, <3>1
  <2>5. DOMAIN Q[t] = 1..Len(rest[t])
    BY <2>1
  <2>6. Len(Q[t]) = Len(rest[t])
    <3>1. Len(Q[t]) \in Nat /\ DOMAIN Q[t] = 1..Len(Q[t])
      BY <2>4, LenProperties
    <3> QED BY <1>5, <2>5, <3>1
  <2> QED BY <2>1, <2>4, <2>6
<1>13. \A t \in Streams : W[t] = Passed(s, h.waits[t])
  OBVIOUS
<1>8. W \in [Streams -> [Streams -> Nat]]
  BY <1>2, PassedType
<1>9. Q \in [Streams -> Seq(OpSet)]
  <2>1. \A t \in Streams : Q[t] \in Seq(OpSet)
    BY <1>7
  <2> QED BY <2>1
<1> HIDE DEF Q, W
<1>10. h' \in Hosts /\ h'.q = Q /\ h'.waits = W /\ Aside(h, h') /\ h'.users = h.users
  BY <1>1, <1>2, <1>8, <1>9 DEF Hosts, Aside
<1>11. 1 \in Queued(h, s) /\ h.q[s][1].waits = NoWait
  BY <1>1, <1>3 DEF Queued
<1>12. ASSUME NEW t \in Streams, NEW i \in Queued(h', t)
       PROVE /\ Was(s, t, i) \in Queued(h, t) /\ i \in Nat
             /\ h'.q[t][i].kind = h.q[t][Was(s, t, i)].kind
             /\ h'.q[t][i].reads = h.q[t][Was(s, t, i)].reads
             /\ h'.q[t][i].writes = h.q[t][Was(s, t, i)].writes
             /\ h'.q[t][i].waits = Passed(s, h.q[t][Was(s, t, i)].waits)
  <2>1. i \in 1..Len(rest[t])
    BY <1>7, <1>10 DEF Queued
  <2>2. h'.q[t][i] = [rest[t][i] EXCEPT !.waits = Passed(s, @)] /\ rest[t][i] \in OpSet
    BY <1>5, <1>7, <1>10, <2>1
  <2>3. Was(s, t, i) \in Queued(h, t) /\ rest[t][i] = h.q[t][Was(s, t, i)]
    <3>1. CASE t = s
      BY <1>3, <1>4, <2>1, <3>1 DEF Was, Queued
    <3>2. CASE t # s
      BY <1>4, <2>1, <3>2 DEF Was, Queued
    <3> QED BY <3>1, <3>2
  <2> QED BY <1>6, <2>1, <2>2, <2>3
<1>14. \A t \in Streams : Len(h.q[t]) = Was(s, t, Len(h'.q[t]))
  BY <1>3, <1>4, <1>7, <1>10 DEF Was
<1> QED BY <1>3, <1>10, <1>11, <1>12, <1>13, <1>14

\* The device executes the head of a stream.  A release goes back to the
\* allocator: by Ordered nothing that touches the buffer is left.
LEMMA ExecuteKeeps ==
  ASSUME StreamsInv, NEW s \in Streams, Execute(s)
  PROVE  StreamsInv'
<1> DEFINE op == h.q[s][1]
<1>1. /\ h' \in Hosts /\ Aside(h, h') /\ h'.users = h.users
      /\ 1 \in Queued(h, s) /\ Head(h.q[s]) = op /\ op.waits = NoWait
  BY ExecuteFields
<1>2. ASSUME NEW t \in Streams, NEW i \in Queued(h', t)
      PROVE /\ Was(s, t, i) \in Queued(h, t) /\ i \in Nat
            /\ h'.q[t][i].kind = h.q[t][Was(s, t, i)].kind
            /\ h'.q[t][i].reads = h.q[t][Was(s, t, i)].reads
            /\ h'.q[t][i].writes = h.q[t][Was(s, t, i)].writes
            /\ h'.q[t][i].waits = Passed(s, h.q[t][Was(s, t, i)].waits)
            /\ Touches(h'.q[t][i]) = Touches(h.q[t][Was(s, t, i)])
  BY <1>2, ExecuteFields DEF Touches
<1>3. /\ call' = [c \in Calls |-> [call[c] EXCEPT !.event = Passed(s, @)]]
      /\ gone' = IF op.kind = "release" THEN gone \cup op.writes ELSE gone
      /\ UNCHANGED <<lib, strided, live, refs>>
  BY <1>1 DEF Execute
<1>4. /\ h \in Hosts /\ call \in [Calls -> CallSet] /\ live \in SUBSET Bufs
      /\ refs \subseteq live /\ gone \in SUBSET Bufs /\ HeldInv(h, live, call)
      /\ QueueInv(h, live, call, gone)
  BY DEF StreamsInv
<1>5. call' \in [Calls -> CallSet] /\ \A c \in Calls : call'[c].pc = call[c].pc
  <2>1. \A x \in CallSet : [x EXCEPT !.event = Passed(s, @)] \in CallSet
                           /\ [x EXCEPT !.event = Passed(s, @)].pc = x.pc
    <3>1. \A x \in CallSet : Passed(s, x.event) \in [Streams -> Nat]
      BY PassedType DEF CallSet
    <3> QED BY <3>1 DEF CallSet
  <2> HIDE DEF CallSet
  <2> QED BY <1>3, <1>4, <2>1
<1>6. \A b \in Bufs : /\ IsNew(call', b) <=> IsNew(call, b)
                      /\ FencedIn(call', b) <=> FencedIn(call, b)
  BY <1>5, BufFacts DEF IsNew, FencedIn
<1>7. Held(h') = Held(h) /\ GroupOps(h') = GroupOps(h)
  BY <1>1, HeldAside
<1>8. HeldInv(h', live, call')
  <2>1. Blocks(h') /\ Deferred(h')
    BY <1>1, <1>4, <1>7 DEF HeldInv, Blocks, Deferred, Aside
  <2>2. Held(h) \in SUBSET Bufs
    BY <1>4, HeldType
  <2>3. HeldAlive(h', live, call')
    BY <1>4, <1>5, <1>7, <2>2, BufFacts DEF HeldInv, HeldAlive
  <2> QED BY <2>1, <2>3 DEF HeldInv
<1>9. op \in OpSet
  BY <1>1, <1>4, HostTypes
<1> HIDE DEF op
<1>10. op.kind = "release" =>
         \E b \in Bufs : op.writes = {b} /\ s = Owner(b) /\ b \notin live /\ ~IsNew(call, b)
  BY <1>1, <1>4 DEF QueueInv, Releases, op
<1>11. gone' \in SUBSET Bufs
  BY <1>3, <1>4, <1>10
<1>12. Releases(h', live, call')
  <2> SUFFICES ASSUME NEW t \in Streams, NEW i \in Queued(h', t), h'.q[t][i].kind = "release"
      PROVE /\ h'.q[t][i].reads = {}
            /\ \E b \in Bufs : /\ h'.q[t][i].writes = {b} /\ t = Owner(b)
                               /\ b \notin live /\ ~IsNew(call', b)
    BY DEF Releases
  <2> DEFINE j == Was(s, t, i)
  <2>1. j \in Queued(h, t) /\ h.q[t][j].kind = "release"
        /\ h'.q[t][i].reads = h.q[t][j].reads /\ h'.q[t][i].writes = h.q[t][j].writes
    BY <1>2
  <2> HIDE DEF j
  <2> QED BY <1>4, <1>6, <2>1 DEF QueueInv, Releases
<1>13. NewUntouched(h', live, call')
  <2> SUFFICES ASSUME NEW b \in Bufs, IsNew(call', b)
      PROVE /\ b \notin live
            /\ \A t \in Streams : \A i \in Queued(h', t) : b \notin Touches(h'.q[t][i])
    BY DEF NewUntouched
  <2>1. b \notin live /\ \A t \in Streams : \A i \in Queued(h, t) : b \notin Touches(h.q[t][i])
    BY <1>4, <1>6 DEF QueueInv, NewUntouched
  <2> QED BY <1>2, <2>1
<1>14. Ordered(h', call')
  <2> SUFFICES ASSUME NEW u \in Streams, NEW t \in Streams, NEW i \in Queued(h', u),
                      NEW j \in Queued(h', t), NEW b \in Bufs,
                      h'.q[u][i].kind = "release", h'.q[t][j].kind # "release",
                      b \in h'.q[u][i].writes, b \in Touches(h'.q[t][j]), FencedIn(call', b)
      PROVE IF u = t THEN j < i ELSE j <= h'.q[u][i].waits[t]
    BY DEF Ordered
  <2> DEFINE x == Was(s, u, i)
             y == Was(s, t, j)
             w == h.q[u][x].waits
  <2>1. /\ x \in Queued(h, u) /\ h.q[u][x].kind = "release" /\ b \in h.q[u][x].writes
        /\ h'.q[u][i].waits = Passed(s, w) /\ i \in Nat
    BY <1>2
  <2>2. y \in Queued(h, t) /\ h.q[t][y].kind # "release" /\ b \in Touches(h.q[t][y]) /\ j \in Nat
    BY <1>2
  <2>3. FencedIn(call, b)
    BY <1>6
  <2>4. w \in [Streams -> Nat]
    <3>1. h.q[u][x] \in OpSet
      BY <1>4, <2>1, HostTypes
    <3> QED BY <3>1 DEF OpSet
  <2>5. x = (IF u = s THEN i + 1 ELSE i) /\ y = (IF t = s THEN j + 1 ELSE j)
    BY DEF Was
  <2> HIDE DEF x, y, w
  <2>6. IF u = t THEN y < x ELSE y <= w[t]
    BY <1>4, <2>1, <2>2, <2>3 DEF QueueInv, Ordered, w
  <2>7. CASE u = t
    BY <2>1, <2>2, <2>5, <2>6, <2>7
  <2>8. CASE u # t
    <3>1. \A v \in Streams \ {s} : Passed(s, w)[v] = w[v]
      BY <2>4, PassedType
    <3>2. Passed(s, w)[s] = IF w[s] = 0 THEN 0 ELSE w[s] - 1
      BY <2>4, PassedType
    <3>3. w[t] \in Nat
      BY <2>4
    <3>4. CASE t = s
      <4>1. j + 1 <= w[s] /\ w[s] \in Nat
        BY <2>5, <2>6, <2>8, <3>3, <3>4
      <4>2. j <= Passed(s, w)[s]
        BY <2>2, <3>2, <4>1
      <4> QED BY <2>1, <2>8, <3>4, <4>2
    <3>5. CASE t # s
      BY <2>1, <2>5, <2>6, <2>8, <3>1, <3>5
    <3> QED BY <3>4, <3>5
  <2> QED BY <2>7, <2>8
<1>15. Guarded(h', live, call')
  <2> SUFFICES ASSUME NEW t \in Streams, NEW i \in Queued(h', t), NEW b \in Bufs,
                      h'.q[t][i].kind # "release", b \in Touches(h'.q[t][i]),
                      b \in live, FencedIn(call', b)
      PROVE t = Owner(b) \/ t \in h'.users[b] \/ (t = "comm" /\ b \in Held(h'))
    BY DEF Guarded
  <2> DEFINE j == Was(s, t, i)
  <2>1. j \in Queued(h, t) /\ h.q[t][j].kind # "release" /\ b \in Touches(h.q[t][j])
    BY <1>2
  <2> HIDE DEF j
  <2>2. h'.users = h.users
    BY <1>1
  <2> QED BY <1>4, <1>6, <1>7, <2>1, <2>2 DEF QueueInv, Guarded
<1>16. GoneDead(live, call', gone')
  <2>1. GoneDead(live, call, gone)
    BY <1>4 DEF QueueInv
  <2> QED BY <1>3, <1>6, <1>10, <1>11, <2>1 DEF GoneDead
<1>17. GoneUnused(h', call', gone')
  <2> SUFFICES ASSUME NEW t \in Streams, NEW i \in Queued(h', t), NEW b \in Bufs,
                      h'.q[t][i].kind # "release", b \in Touches(h'.q[t][i]), b \in gone',
                      FencedIn(call', b)
      PROVE FALSE
    BY DEF GoneUnused
  <2> DEFINE j == Was(s, t, i)
  <2>1. j \in Queued(h, t) /\ h.q[t][j].kind # "release" /\ b \in Touches(h.q[t][j]) /\ i \in Nat
    BY <1>2
  <2>2. j = (IF t = s THEN i + 1 ELSE i)
    BY DEF Was
  <2> HIDE DEF j
  <2>3. FencedIn(call, b)
    BY <1>6
  <2>4. b \notin gone
    BY <1>4, <2>1, <2>3 DEF QueueInv, GoneUnused
  <2>5. op.kind = "release" /\ b \in op.writes
    BY <1>3, <2>4
  <2>6. IF s = t THEN j < 1 ELSE j <= op.waits[t]
    BY <1>1, <1>4, <2>1, <2>3, <2>5 DEF QueueInv, Ordered, op
  <2>7. op.waits[t] = 0
    BY <1>1 DEF NoWait
  <2>8. i >= 1
    BY <2>1 DEF Queued
  <2> QED BY <2>1, <2>2, <2>6, <2>7, <2>8
<1>18. QueueInv(h', live, call', gone')
  BY <1>12, <1>13, <1>14, <1>15, <1>16, <1>17 DEF QueueInv
<1> QED BY <1>1, <1>3, <1>4, <1>5, <1>8, <1>11, <1>18 DEF StreamsInv

\* Nothing is enqueued, allocated or deferred at first.
LEMMA Initially == Init => StreamsInv
<1> SUFFICES ASSUME Init PROVE StreamsInv
  OBVIOUS
<1>1. <<>> \in Seq(OpSet) /\ Len(<<>>) = 0
  BY EmptySeq
<1>2. h \in Hosts
  BY <1>1, NoWaitType DEF Init, Hosts
<1>3. call \in [Calls -> CallSet]
  BY NoWaitType DEF Init, CallSet
<1>4. HeldInv(h, live, call)
  BY EmptyHeldInv DEF Init
<1>5. \A s \in Streams : Queued(h, s) = {}
  <2>1. \A s \in Streams : h.q[s] = <<>>
    BY DEF Init
  <2> QED BY <1>1, <2>1 DEF Queued
<1>6. QueueInv(h, live, call, gone)
  BY <1>5 DEF Init, QueueInv, Releases, NewUntouched, Ordered, Guarded, GoneDead, GoneUnused
<1> QED BY <1>2, <1>3, <1>4, <1>6 DEF Init, StreamsInv

(* The state of the streams stays consistent: StreamsInv is preserved by   *)
(* every call, block, wait and device step of process_group.py's           *)
(* collectives and h_free under them.                                      *)
THEOREM Invariance == Spec => []StreamsInv
<1>1. StreamsInv /\ [Next]_vars => StreamsInv'
  <2> SUFFICES ASSUME StreamsInv, [Next]_vars PROVE StreamsInv'
    OBVIOUS
  <2>1. ASSUME NEW c \in Calls, NEW kind \in Kinds, NEW kept \in Kept(c, kind), Call(c, kind, kept)
        PROVE  StreamsInv'
    BY <2>1, CallKeeps
  <2>2. ASSUME NEW c \in Calls, NEW kind \in Kinds, NEW ends \in BOOLEAN, CallRaises(c, kind, ends)
        PROVE  StreamsInv'
    BY <2>2, CallRaisesKeeps
  <2>3. CASE StartBlock
    BY <2>3, StartBlockKeeps
  <2>4. CASE EndBlock
    BY <2>4, EndBlockKeeps
  <2>5. CASE EndBlockFails
    BY <2>5, EndBlockFailsKeeps
  <2>6. ASSUME NEW c \in Calls, NEW s \in {"cur", "side"}, WaitWork(c, s) PROVE StreamsInv'
    BY <2>6, WaitWorkKeeps
  <2>7. ASSUME NEW s \in Streams, Execute(s) PROVE StreamsInv'
    BY <2>7, ExecuteKeeps
  <2>8. CASE UNCHANGED vars
    BY <2>8 DEF vars, hostVars, deviceVars, StreamsInv
  <2> QED BY <2>1, <2>2, <2>3, <2>4, <2>5, <2>6, <2>7, <2>8 DEF Next
<1> QED BY Initially, <1>1, PTL DEF Spec

(* Nothing enqueued or queued in the library's group touches memory that   *)
(* h_free gave back, unless it belongs to the caller of a collective that  *)
(* raised halfway: the fences of _record_streams and _finish, made at once *)
(* or by _end_coalescing, reach every stream before the release does.      *)
THEOREM ReleaseIsLast == Spec => []NoUseAfterRelease
<1>1. StreamsInv => NoUseAfterRelease
  <2> SUFFICES ASSUME StreamsInv,
                      NEW op \in UNION ({ToSet(h.q[s]) : s \in Streams} \cup {ToSet(h.group)}),
                      op.kind # "release", NEW b \in op.reads \cup op.writes, b \in gone
      PROVE ~Fenced(b)
    BY DEF NoUseAfterRelease
  <2>1. /\ h \in Hosts /\ gone \in SUBSET Bufs /\ HeldInv(h, live, call)
        /\ QueueInv(h, live, call, gone)
    BY DEF StreamsInv
  <2>2. \A sq \in Seq(OpSet) : \A x \in ToSet(sq) : \E i \in 1..Len(sq) : x = sq[i]
    BY LenProperties DEF ToSet
  <2>3. CASE op \in ToSet(h.group)
    <3>1. op \in GroupOps(h)
      BY <2>1, <2>2, <2>3, HostTypes DEF GroupOps
    <3>2. b \in Held(h)
      BY <2>1, <3>1 DEF HeldInv, Deferred, Works, Touches
    <3> QED BY <2>1, <3>2 DEF HeldInv, HeldAlive, QueueInv, GoneDead
  <2>4. CASE \E s \in Streams : op \in ToSet(h.q[s])
    <3>1. PICK s \in Streams : op \in ToSet(h.q[s])
      BY <2>4
    <3>2. PICK i \in Queued(h, s) : op = h.q[s][i]
      BY <2>1, <2>2, <3>1, HostTypes DEF Queued
    <3>3. ~FencedIn(call, b)
      BY <2>1, <3>2 DEF QueueInv, GoneUnused, Touches
    <3> QED BY <3>3 DEF Fenced, FencedIn
  <2> QED BY <2>3, <2>4
<1> QED BY <1>1, Invariance, PTL

(* However _end_coalescing or _abort_coalescing left a block, no group is  *)
(* open, nothing is queued in it and no fence or copy back is deferred to  *)
(* the next one.                                                           *)
THEOREM BlocksEndEmpty == Spec => []BlockLeavesNothing
<1>1. StreamsInv => BlockLeavesNothing
  BY DEF StreamsInv, HeldInv, Blocks, BlockLeavesNothing, Held
<1> QED BY <1>1, Invariance, PTL

-----------------------------------------------------------------------------
(* Lines of operations.                                                    *)

\* What is written and what has to be read do not depend on the waits.
LEMMA AlikeOut ==
  ASSUME NEW o, NEW p, Alike(o, p), NEW m
  PROVE  Out(o, m) = Out(p, m) /\ In(o, m) = In(p, m)
BY DEF Alike, Out, In

\* Nor does whose operation it is.
LEMMA AlikeShape ==
  ASSUME NEW o, NEW p, Alike(o, p), NEW c
  PROVE  Of(o, c) = Of(p, c) /\ Shape(o, c) = Shape(p, c) /\ Touches(o) = Touches(p)
BY DEF Alike, Of, Shape, Touches

\* Lines that agree before i leave the same there.
LEMMA HoldsAlike ==
  ASSUME NEW l, NEW n, NEW i \in Nat, \A k \in 1..(i - 1) : Alike(l[k], n[k]),
         NEW b, NEW v, NEW m, NEW N, Holds(l, i, b, v, m, N)
  PROVE  Holds(n, i, b, v, m, N)
<1>1. \A k \in 1..(i - 1) : l[k].writes = n[k].writes
  BY DEF Alike
<1>2. \A k \in 1..(i - 1) : Out(l[k], m) = Out(n[k], m)
  BY AlikeOut
<1>3. CASE Wrote(l, i, b, v, m)
  <2>1. PICK j \in 1..(i - 1) : /\ b \in l[j].writes /\ Out(l[j], m) = v
                                /\ \A k \in (j + 1)..(i - 1) : b \notin l[k].writes
    BY <1>3 DEF Wrote
  <2>2. \A k \in (j + 1)..(i - 1) : k \in 1..(i - 1)
    OBVIOUS
  <2>3. b \in n[j].writes /\ Out(n[j], m) = v
    BY <1>1, <1>2, <2>1
  <2>4. \A k \in (j + 1)..(i - 1) : b \notin n[k].writes
    BY <1>1, <2>1, <2>2
  <2> QED BY <2>1, <2>3, <2>4 DEF Holds, Wrote
<1>4. CASE Clear(l, i, b) /\ <<b, v>> \in N
  BY <1>1, <1>4 DEF Holds, Clear
<1> QED BY <1>3, <1>4 DEF Holds

\* What is left stays until something writes it.
LEMMA HoldsPast ==
  ASSUME NEW l, NEW i \in Nat, NEW j \in Nat, i <= j,
         NEW b, \A k \in i..(j - 1) : b \notin l[k].writes,
         NEW v, NEW m, NEW N, Holds(l, i, b, v, m, N)
  PROVE  Holds(l, j, b, v, m, N)
<1>1. \A k \in 1..(j - 1) : k \in 1..(i - 1) \/ k \in i..(j - 1)
  OBVIOUS
<1>2. CASE Wrote(l, i, b, v, m)
  <2>1. PICK x \in 1..(i - 1) : /\ b \in l[x].writes /\ Out(l[x], m) = v
                                /\ \A k \in (x + 1)..(i - 1) : b \notin l[k].writes
    BY <1>2 DEF Wrote
  <2>2. x \in 1..(j - 1)
    OBVIOUS
  <2>3. \A k \in (x + 1)..(j - 1) : k \in (x + 1)..(i - 1) \/ k \in i..(j - 1)
    OBVIOUS
  <2>4. \A k \in (x + 1)..(j - 1) : b \notin l[k].writes
    BY <2>1, <2>3
  <2> QED BY <2>1, <2>2, <2>4 DEF Holds, Wrote
<1>3. CASE Clear(l, i, b) /\ <<b, v>> \in N
  BY <1>1, <1>3 DEF Holds, Clear
<1> QED BY <1>2, <1>3 DEF Holds

\* And was left before those that do not write it.
LEMMA HoldsBefore ==
  ASSUME NEW l, NEW i \in Nat, NEW j \in Nat, i <= j,
         NEW b, \A k \in i..(j - 1) : b \notin l[k].writes,
         NEW v, NEW m, NEW N, Holds(l, j, b, v, m, N)
  PROVE  Holds(l, i, b, v, m, N)
<1>1. \A k \in 1..(i - 1) : k \in 1..(j - 1)
  OBVIOUS
<1>2. CASE Wrote(l, j, b, v, m)
  <2>1. PICK x \in 1..(j - 1) : /\ b \in l[x].writes /\ Out(l[x], m) = v
                                /\ \A k \in (x + 1)..(j - 1) : b \notin l[k].writes
    BY <1>2 DEF Wrote
  <2>2. x \in 1..(i - 1)
    <3>1. ~(x \in i..(j - 1))
      BY <2>1
    <3> QED BY <3>1
  <2>3. \A k \in (x + 1)..(i - 1) : k \in (x + 1)..(j - 1)
    OBVIOUS
  <2> QED BY <2>1, <2>2, <2>3 DEF Holds, Wrote
<1>3. CASE Clear(l, j, b) /\ <<b, v>> \in N
  BY <1>1, <1>3 DEF Holds, Clear
<1> QED BY <1>2, <1>3 DEF Holds

\* The last operation to write it leaves what it writes.
LEMMA HoldsWritten ==
  ASSUME NEW l, NEW i \in Nat, i > 0, NEW b, b \in l[i].writes, NEW m, NEW N
  PROVE  Holds(l, i + 1, b, Out(l[i], m), m, N)
<1>1. i \in 1..((i + 1) - 1) /\ (i + 1)..((i + 1) - 1) = {}
  OBVIOUS
<1> QED BY <1>1 DEF Holds, Wrote

\* Only what the buffers hold may have changed.
LEMMA HoldsNow ==
  ASSUME NEW l, NEW i, NEW b, NEW v, NEW m, NEW N, NEW M,
         <<b, v>> \in N => <<b, v>> \in M, Holds(l, i, b, v, m, N)
  PROVE  Holds(l, i, b, v, m, M)
BY DEF Holds

\* A line without its first operation.
LEMMA HoldsShift ==
  ASSUME NEW l, NEW n, NEW i \in Nat, i > 0, \A k \in 1..(i - 1) : Alike(n[k], l[k + 1]),
         NEW b, NEW v, NEW m, NEW N, NEW M,
         Holds(l, i + 1, b, v, m, N),
         b \in l[1].writes => (Out(l[1], m) = v => <<b, v>> \in M),
         b \notin l[1].writes => (<<b, v>> \in N => <<b, v>> \in M)
  PROVE  Holds(n, i, b, v, m, M)
<1>1. \A k \in 1..(i - 1) : n[k].writes = l[k + 1].writes /\ Out(n[k], m) = Out(l[k + 1], m)
  BY AlikeOut DEF Alike
<1>2. CASE Wrote(l, i + 1, b, v, m)
  <2>1. PICK j \in 1..((i + 1) - 1) : /\ b \in l[j].writes /\ Out(l[j], m) = v
                                /\ \A k \in (j + 1)..((i + 1) - 1) : b \notin l[k].writes
    BY <1>2 DEF Wrote
  <2>2. CASE j = 1
    <3>1. Clear(n, i, b)
      <4>1. \A k \in 1..(i - 1) : k + 1 \in (j + 1)..((i + 1) - 1)
        BY <2>2
      <4> QED BY <1>1, <2>1, <4>1 DEF Clear
    <3> QED BY <2>1, <2>2, <3>1 DEF Holds
  <2>3. CASE j # 1
    <3>1. j - 1 \in 1..(i - 1) /\ (j - 1) + 1 = j
      BY <2>3
    <3>2. b \in n[j - 1].writes /\ Out(n[j - 1], m) = v
      BY <1>1, <2>1, <3>1
    <3>3. ASSUME NEW k \in ((j - 1) + 1)..(i - 1) PROVE b \notin n[k].writes
      <4>1. k + 1 \in (j + 1)..((i + 1) - 1) /\ k \in 1..(i - 1)
        OBVIOUS
      <4> QED BY <1>1, <2>1, <4>1
    <3> QED BY <3>1, <3>2, <3>3 DEF Holds, Wrote
  <2> QED BY <2>2, <2>3
<1>3. CASE Clear(l, i + 1, b) /\ <<b, v>> \in N
  <2>1. b \notin l[1].writes
    <3>1. 1 \in 1..((i + 1) - 1)
      OBVIOUS
    <3> QED BY <1>3, <3>1 DEF Clear
  <2>2. Clear(n, i, b)
    <3>1. \A k \in 1..(i - 1) : k + 1 \in 1..((i + 1) - 1)
      OBVIOUS
    <3> QED BY <1>1, <1>3, <3>1 DEF Clear
  <2> QED BY <1>3, <2>1, <2>2 DEF Holds
<1> QED BY <1>2, <1>3 DEF Holds
\* n is l with op put in before its x-th operation.
Inserted(l, n, x, op) ==
  /\ Len(l) \in Nat /\ x \in 1..(Len(l) + 1) /\ Len(n) = Len(l) + 1
  /\ \A k \in 1..(x - 1) : Alike(n[k], l[k])
  /\ Alike(n[x], op)
  /\ \A k \in x..Len(l) : Alike(n[k + 1], l[k])

\* What it does not write stays.
LEMMA InsertedHolds ==
  ASSUME NEW l, NEW n, NEW x, NEW op, Inserted(l, n, x, op), NEW i \in 1..(Len(l) + 1),
         NEW b, NEW v, NEW m, NEW N, Holds(l, i, b, v, m, N)
  PROVE  /\ i <= x => Holds(n, i, b, v, m, N)
         /\ i >= x /\ b \notin op.writes => Holds(n, i + 1, b, v, m, N)
<1> USE DEF Inserted
<1>1. ASSUME i <= x PROVE Holds(n, i, b, v, m, N)
  <2>1. \A k \in 1..(i - 1) : Alike(l[k], n[k])
    BY <1>1 DEF Alike
  <2>2. i \in Nat
    OBVIOUS
  <2> QED BY <2>1, <2>2, <1>1, HoldsAlike
<1>2. ASSUME i >= x, b \notin op.writes PROVE Holds(n, i + 1, b, v, m, N)
  <2>1. \A k \in 1..(x - 1) : n[k].writes = l[k].writes /\ Out(n[k], m) = Out(l[k], m)
    BY AlikeOut DEF Alike
  <2>2. ASSUME NEW k \in x..Len(l)
        PROVE n[k + 1].writes = l[k].writes /\ Out(n[k + 1], m) = Out(l[k], m)
    <3>1. Alike(n[k + 1], l[k])
      OBVIOUS
    <3> QED BY <3>1, AlikeOut DEF Alike
  <2>3. b \notin n[x].writes
    BY <1>2 DEF Alike
  <2>4. \A k \in 1..i : k < x \/ k = x \/ (k - 1 \in x..Len(l) /\ (k - 1) + 1 = k)
    OBVIOUS
  <2>5. CASE Wrote(l, i, b, v, m)
    <3>1. PICK j \in 1..(i - 1) : /\ b \in l[j].writes /\ Out(l[j], m) = v
                                  /\ \A k \in (j + 1)..(i - 1) : b \notin l[k].writes
      BY <2>5 DEF Wrote
    <3>2. CASE j < x
      <4>1. j \in 1..((i + 1) - 1) /\ b \in n[j].writes /\ Out(n[j], m) = v
        BY <2>1, <3>1, <3>2
      <4>2. ASSUME NEW k \in (j + 1)..((i + 1) - 1) PROVE b \notin n[k].writes
        <5>1. CASE k < x
          BY <2>1, <3>1, <5>1, <1>2, SMTT(30)
        <5>2. CASE k > x
          <6>1. k - 1 \in x..Len(l) /\ (k - 1) + 1 = k /\ k - 1 \in (j + 1)..(i - 1)
            BY <5>2, <3>2
          <6> QED BY <2>2, <3>1, <6>1
        <5> QED BY <2>3, <5>1, <5>2
      <4> QED BY <4>1, <4>2 DEF Holds, Wrote
    <3>3. CASE j >= x
      <4>1. j + 1 \in 1..((i + 1) - 1) /\ b \in n[j + 1].writes /\ Out(n[j + 1], m) = v
        <5>1. j \in x..Len(l) /\ j + 1 \in 1..((i + 1) - 1)
          BY <3>3
        <5> QED BY <2>2, <3>1, <5>1
      <4>2. ASSUME NEW k \in ((j + 1) + 1)..((i + 1) - 1) PROVE b \notin n[k].writes
        <5>1. k - 1 \in x..Len(l) /\ (k - 1) + 1 = k /\ k - 1 \in (j + 1)..(i - 1)
          BY <3>3
        <5> QED BY <2>2, <3>1, <5>1
      <4> QED BY <4>1, <4>2 DEF Holds, Wrote
    <3> QED BY <3>2, <3>3
  <2>6. CASE Clear(l, i, b) /\ <<b, v>> \in N
    <3>1. ASSUME NEW k \in 1..((i + 1) - 1) PROVE b \notin n[k].writes
      <4>1. CASE k < x
        BY <2>1, <2>6, <4>1, <1>2 DEF Clear
      <4>2. CASE k > x
        <5>1. k - 1 \in x..Len(l) /\ (k - 1) + 1 = k /\ k - 1 \in 1..(i - 1)
          BY <4>2
        <5> QED BY <2>2, <2>6, <5>1 DEF Clear
      <4> QED BY <2>3, <4>1, <4>2
    <3> QED BY <2>6, <3>1 DEF Holds, Clear
  <2> QED BY <1>2, <2>5, <2>6 DEF Holds
<1> QED BY <1>1, <1>2

\* What it writes is left at the end, when nothing behind writes it.
LEMMA InsertedWrites ==
  ASSUME NEW l, NEW n, NEW x, NEW op, Inserted(l, n, x, op),
         NEW b \in op.writes, \A k \in x..Len(l) : b \notin l[k].writes,
         NEW m, NEW N
  PROVE  Ends(n, b, Out(op, m), m, N)
<1> USE DEF Inserted
<1>1. b \in n[x].writes /\ Out(n[x], m) = Out(op, m)
  BY AlikeOut DEF Alike
<1>2. Holds(n, x + 1, b, Out(op, m), m, N)
  <2>1. x \in Nat /\ x > 0
    OBVIOUS
  <2> QED BY <1>1, <2>1, HoldsWritten
<1>3. ASSUME NEW k \in (x + 1)..((Len(n) + 1) - 1) PROVE b \notin n[k].writes
  <2>1. k - 1 \in x..Len(l) /\ (k - 1) + 1 = k
    OBVIOUS
  <2> QED BY <2>1 DEF Alike
<1>4. x + 1 \in Nat /\ Len(n) + 1 \in Nat /\ x + 1 <= Len(n) + 1
  OBVIOUS
<1> QED BY <1>2, <1>3, <1>4, HoldsPast DEF Ends

\* What a line ends with is left where nothing behind writes it.
LEMMA EndsBefore ==
  ASSUME NEW l, Len(l) \in Nat, NEW x \in 1..(Len(l) + 1), NEW b, NEW v, NEW m, NEW N,
         Ends(l, b, v, m, N), \A k \in x..Len(l) : b \notin l[k].writes
  PROVE  Holds(l, x, b, v, m, N)
<1>1. x \in Nat /\ Len(l) + 1 \in Nat /\ x <= Len(l) + 1 /\ (Len(l) + 1) - 1 = Len(l)
  OBVIOUS
<1>2. \A k \in x..((Len(l) + 1) - 1) : b \notin l[k].writes
  BY <1>1
<1> QED BY <1>1, <1>2, HoldsBefore DEF Ends

-----------------------------------------------------------------------------
(* What a host step keeps of the other calls.                              *)

\* The parts of a sequence that two were joined to.
LEMMA JoinFields ==
  ASSUME NEW T, NEW a \in Seq(T), NEW z \in Seq(T)
  PROVE  /\ a \o z \in Seq(T) /\ Len(a \o z) \in Nat
         /\ Len(a) \in Nat /\ Len(z) \in Nat
         /\ Len(a \o z) = Len(a) + Len(z)
         /\ \A i \in 1..Len(a) : i \in 1..Len(a \o z) /\ (a \o z)[i] = a[i]
         /\ \A i \in 1..Len(z) : (a \o z)[Len(a) + i] = z[i]
         /\ \A i \in 1..Len(a \o z) : i > Len(a) =>
              i - Len(a) \in 1..Len(z) /\ (a \o z)[i] = z[i - Len(a)]
<1>1. /\ a \o z \in Seq(T) /\ Len(a \o z) = Len(a) + Len(z)
      /\ Len(a) \in Nat /\ Len(z) \in Nat
      /\ \A i \in 1..Len(a) : (a \o z)[i] = a[i]
      /\ \A i \in 1..Len(z) : (a \o z)[Len(a) + i] = z[i]
  BY ConcatProperties, LenProperties
<1>2. ASSUME NEW i \in 1..Len(a \o z), i > Len(a)
      PROVE  i - Len(a) \in 1..Len(z) /\ (a \o z)[i] = z[i - Len(a)]
  <2>1. i - Len(a) \in 1..Len(z) /\ Len(a) + (i - Len(a)) = i
    BY <1>1, <1>2
  <2> QED BY <1>1, <2>1
<1> QED BY <1>1, <1>2

\* The parts of the line.
LEMMA LineFields ==
  ASSUME NEW g \in Hosts
  PROVE  /\ Line(g) \in Seq(OpSet) /\ Len(Line(g)) \in Nat
         /\ Len(g.q["comm"]) \in Nat /\ Len(g.group) \in Nat
         /\ Len(Line(g)) = Len(g.q["comm"]) + Len(g.group)
         /\ \A i \in Queued(g, "comm") : i \in 1..Len(Line(g)) /\ Line(g)[i] = g.q["comm"][i]
         /\ \A i \in 1..Len(g.group) : Line(g)[Len(g.q["comm"]) + i] = g.group[i]
         /\ \A i \in 1..Len(Line(g)) : i > Len(g.q["comm"]) =>
              /\ i - Len(g.q["comm"]) \in 1..Len(g.group)
              /\ Line(g)[i] = g.group[i - Len(g.q["comm"])]
<1> DEFINE a == g.q["comm"]
           z == g.group
           l == Line(g)
<1>1. a \in Seq(OpSet) /\ z \in Seq(OpSet)
  BY HostTypes DEF Streams
<1>2. l = a \o z /\ Queued(g, "comm") = 1..Len(a)
  BY DEF Line, Queued
<1> HIDE DEF a, z, l
<1>3. l \in Seq(OpSet) /\ Len(l) \in Nat /\ Len(a) \in Nat /\ Len(z) \in Nat
  BY <1>1, <1>2, JoinFields
<1>4. Len(l) = Len(a) + Len(z)
  BY <1>1, <1>2, JoinFields
<1>5. \A i \in Queued(g, "comm") : i \in 1..Len(l) /\ l[i] = a[i]
  BY <1>1, <1>2, JoinFields
<1>6. \A i \in 1..Len(z) : l[Len(a) + i] = z[i]
  BY <1>1, <1>2, JoinFields
<1>7. \A i \in 1..Len(l) : i > Len(a) => i - Len(a) \in 1..Len(z) /\ l[i] = z[i - Len(a)]
  BY <1>1, <1>2, JoinFields
<1> QED BY <1>3, <1>4, <1>5, <1>6, <1>7 DEF a, z, l

\* What reaches a point of the current stream still does.
LEMMA OrdersReaches ==
  ASSUME NEW g \in Hosts, NEW k \in Hosts, Orders(g, k), NEW j, NEW n, Reaches(g, j, n)
  PROVE  Reaches(k, j, n)
<1>1. PICK i \in Queued(g, "comm") : i <= n /\ j <= g.q["comm"][i].waits["cur"]
  BY DEF Reaches
<1>2. i \in Queued(k, "comm") /\ k.q["comm"][i] = g.q["comm"][i]
  BY LineFields DEF Orders, Queued
<1> QED BY <1>1, <1>2 DEF Reaches

\* One growth of the line after another.
LEMMA OrdersTrans ==
  ASSUME NEW g \in Hosts, NEW k \in Hosts, NEW p \in Hosts, Orders(g, k), Orders(k, p)
  PROVE  Orders(g, p)
<1>1. /\ p.q["cur"] = g.q["cur"] /\ p.q["side"] = g.q["side"]
      /\ Len(g.q["comm"]) <= Len(p.q["comm"])
      /\ \A i \in Queued(g, "comm") : p.q["comm"][i] = g.q["comm"][i]
  <2>1. /\ k.q["cur"] = g.q["cur"] /\ k.q["side"] = g.q["side"]
        /\ p.q["cur"] = k.q["cur"] /\ p.q["side"] = k.q["side"]
        /\ Len(g.q["comm"]) <= Len(k.q["comm"]) /\ Len(k.q["comm"]) <= Len(p.q["comm"])
        /\ \A i \in Queued(g, "comm") : k.q["comm"][i] = g.q["comm"][i]
        /\ \A i \in Queued(k, "comm") : p.q["comm"][i] = k.q["comm"][i]
    BY DEF Orders
  <2>2. /\ Len(g.q["comm"]) \in Nat /\ Len(k.q["comm"]) \in Nat /\ Len(p.q["comm"]) \in Nat
    BY LineFields
  <2>3. \A i \in Queued(g, "comm") : i \in Queued(k, "comm")
    BY <2>1, <2>2 DEF Queued
  <2> QED BY <2>1, <2>2, <2>3, SMTT(30)
<1>2. ASSUME NEW j \in Nat, Covered(g, j) PROVE Covered(p, j)
  BY <1>2 DEF Orders
<1>3. ASSUME NEW j \in Nat, Covered(g, j), NEW i \in Queued(p, "comm"), i \notin Queued(g, "comm")
      PROVE  Reaches(p, j, i)
  <2>1. CASE i \in Queued(k, "comm")
    BY <1>3, <2>1, OrdersReaches DEF Orders
  <2>2. CASE i \notin Queued(k, "comm")
    BY <1>3, <2>2 DEF Orders
  <2> QED BY <2>1, <2>2
<1> QED BY <1>1, <1>2, <1>3 DEF Orders

\* A further wait, or bookkeeping.
LEMMA OrdersSame ==
  ASSUME NEW g \in Hosts, NEW k \in Hosts, k.q = g.q,
         g.waits["comm"]["cur"] <= k.waits["comm"]["cur"]
  PROVE  Orders(g, k)
<1>1. \A j, n : Reaches(g, j, n) => Reaches(k, j, n)
  BY DEF Reaches, Queued
<1>2. g.waits["comm"]["cur"] \in Nat /\ k.waits["comm"]["cur"] \in Nat
  BY HostTypes DEF Streams
<1>3. \A j \in Nat : Covered(g, j) => Covered(k, j)
  BY <1>1, <1>2 DEF Covered
<1> QED BY <1>3, LineFields DEF Orders, Queued

\* The operation enqueued on comm takes what comm waits for.
LEMMA OrdersEnqueue ==
  ASSUME NEW g \in Hosts, NEW op \in OpSet
  PROVE  LET k == Enqueue(g, "comm", op) IN k \in Hosts /\ Orders(g, k)
<1> DEFINE k == Enqueue(g, "comm", op)
           n == Len(g.q["comm"])
<1>1. k \in Hosts /\ "comm" \in Streams /\ "cur" \in Streams /\ "side" \in Streams
  BY EnqueueFields, StreamNames
<1>2. /\ \A t \in Streams \ {"comm"} : k.q[t] = g.q[t]
      /\ Len(k.q["comm"]) = n + 1 /\ n \in Nat
      /\ \A i \in Queued(g, "comm") : k.q["comm"][i] = g.q["comm"][i]
      /\ k.q["comm"][n + 1] = Stamped(g, "comm", op)
  BY <1>1, EnqueuePositions, LineFields
<1> HIDE DEF k
<1>3. k.q["comm"][n + 1].waits["cur"] = g.waits["comm"]["cur"]
  BY <1>1, <1>2, StampedFields
<1>4. ASSUME NEW j \in Nat, Covered(g, j) PROVE Reaches(k, j, n + 1)
  <2>1. CASE Reaches(g, j, n)
    <3>1. PICK i \in Queued(g, "comm") : i <= n /\ j <= g.q["comm"][i].waits["cur"]
      BY <2>1 DEF Reaches
    <3> QED BY <1>2, <3>1, SMTT(30) DEF Reaches, Queued
  <2>2. CASE j <= g.waits["comm"]["cur"]
    <3>1. n + 1 \in Queued(k, "comm") /\ n + 1 <= n + 1
      BY <1>2 DEF Queued
    <3> QED BY <1>3, <2>2, <3>1 DEF Reaches
  <2> QED BY <1>4, <2>1, <2>2 DEF Covered
<1>5. \A i \in Queued(k, "comm") : i \notin Queued(g, "comm") => i = n + 1
  BY <1>2 DEF Queued
<1>6. k.q["cur"] = g.q["cur"] /\ k.q["side"] = g.q["side"]
  BY <1>1, <1>2
<1> QED BY <1>1, <1>2, <1>4, <1>5, <1>6 DEF Orders, Covered, k

-----------------------------------------------------------------------------
(* What is carried over from one state of the host to the next.            *)

\* Everything has a value.
LEMMA ValueTypes ==
  /\ \A m, x, y : Carries(m, x, y) \in Vals
  /\ \A op, m : Out(op, m) \in Vals /\ In(op, m) \in Vals
  /\ \A kind, r : Expected(kind, r) \subseteq Vals
<1>1. \A m, x, y : Carries(m, x, y) \in Vals
  BY DEF Carries, Vals
<1>2. \A op, m : Out(op, m) \in Vals /\ In(op, m) \in Vals
  BY <1>1 DEF Out, In, Vals
<1>3. \A kind, r : Expected(kind, r) \subseteq Vals
  BY DEF Expected, Vals
<1> QED BY <1>1, <1>2, <1>3

\* The operations of a call still read what they have to.
LEMMA CarryFlows ==
  ASSUME NEW g, NEW k, NEW c, NEW m, NEW N, NEW B, Carry(g, k, c, m, N, B),
         Flows(Line(g), c, m, N)
  PROVE  Flows(Line(k), c, m, N)
<1> SUFFICES ASSUME NEW i \in 1..Len(Line(k)), Of(Line(k)[i], c)
             PROVE  /\ Shape(Line(k)[i], c)
                    /\ \A b \in Line(k)[i].reads : Holds(Line(k), i, b, In(Line(k)[i], m), m, N)
  BY DEF Flows
<1>1. PICK x \in 1..Len(Line(g)) :
         /\ Alike(Line(k)[i], Line(g)[x])
         /\ \A b \in Line(g)[x].reads, v \in Vals :
              Holds(Line(g), x, b, v, m, N) => Holds(Line(k), i, b, v, m, N)
  BY DEF Carry
<1>2. Of(Line(g)[x], c) /\ Shape(Line(k)[i], c) = Shape(Line(g)[x], c)
      /\ In(Line(k)[i], m) = In(Line(g)[x], m) /\ In(Line(g)[x], m) \in Vals
      /\ Line(k)[i].reads = Line(g)[x].reads
  BY <1>1, AlikeShape, AlikeOut, ValueTypes DEF Alike
<1> QED BY <1>1, <1>2 DEF Flows

\* A tensor still ends with what its caller expects.
LEMMA CarryResult ==
  ASSUME NEW g, NEW k, NEW c, NEW m, NEW N, NEW B, Carry(g, k, c, m, N, B),
         NEW r, <<c, r>> \in B, Result(Line(g), c, r, m, N)
  PROVE  Result(Line(k), c, r, m, N)
BY ValueTypes DEF Carry, Result

\* The operations of a call are as far along as they were.
LEMMA CarrySettled ==
  ASSUME NEW g \in Hosts, NEW k \in Hosts, NEW c, NEW m, NEW N, NEW B, Carry(g, k, c, m, N, B),
         NEW n, Settled(g, c, n)
  PROVE  Settled(k, c, n)
<1> SUFFICES ASSUME NEW i \in 1..Len(Line(k)), Of(Line(k)[i], c)
             PROVE  i <= n /\ i \in Queued(k, "comm")
  BY DEF Settled
<1>1. PICK x \in 1..Len(Line(g)) :
         Alike(Line(k)[i], Line(g)[x]) /\ (x \in Queued(g, "comm") => i = x)
  BY DEF Carry
<1>2. Of(Line(g)[x], c)
  BY <1>1, AlikeShape
<1>3. x <= n /\ i = x /\ x \in Queued(g, "comm")
  BY <1>1, <1>2 DEF Settled
<1> QED BY <1>3, LineFields DEF Carry, Orders, Queued

\* None of a call's operations passes its producer.
LEMMA CarryAhead ==
  ASSUME NEW g \in Hosts, NEW k \in Hosts, NEW c, NEW m, NEW N, NEW B, Carry(g, k, c, m, N, B),
         Ahead(g, c),
         \/ \A j \in Queued(g, "cur") : Makes(g, j, c) => Covered(g, j)
         \/ \E n : Settled(g, c, n)
  PROVE  Ahead(k, c)
<1> SUFFICES ASSUME NEW j \in Queued(k, "cur"), NEW i \in Queued(k, "comm"),
                    Makes(k, j, c), Of(k.q["comm"][i], c)
             PROVE  Reaches(k, j, i)
  BY DEF Ahead
<1>1. Orders(g, k) /\ j \in Queued(g, "cur") /\ Makes(g, j, c) /\ j \in Nat
  BY DEF Carry, Orders, Makes, Queued
<1>2. CASE i \in Queued(g, "comm")
  <2>1. k.q["comm"][i] = g.q["comm"][i]
    BY <1>1, <1>2 DEF Orders
  <2>2. Reaches(g, j, i)
    BY <1>1, <1>2, <2>1 DEF Ahead
  <2> QED BY <1>1, <2>2, OrdersReaches
<1>3. CASE i \notin Queued(g, "comm")
  <2>1. i \in 1..Len(Line(k)) /\ Line(k)[i] = k.q["comm"][i]
    BY LineFields
  <2>2. PICK x \in 1..Len(Line(g)) :
         Alike(Line(k)[i], Line(g)[x]) /\ (x \in Queued(g, "comm") => i = x)
    BY <2>1 DEF Carry
  <2>3. Of(Line(g)[x], c)
    BY <2>1, <2>2, AlikeShape
  <2>4. ~ \E n : Settled(g, c, n)
    BY <1>3, <2>2, <2>3 DEF Settled
  <2> QED BY <1>1, <1>3, <2>4 DEF Orders
<1> QED BY <1>2, <1>3

\* A point behind the producer stays behind it.
LEMMA CarryBehind ==
  ASSUME NEW g \in Hosts, NEW k \in Hosts, NEW c, NEW m, NEW N, NEW B, Carry(g, k, c, m, N, B),
         NEW ev, Behind(g, c, ev)
  PROVE  Behind(k, c, ev)
<1>1. Orders(g, k) /\ k.q["cur"] = g.q["cur"]
  BY DEF Carry, Orders
<1>2. \A j : Makes(k, j, c) => Makes(g, j, c)
  BY <1>1 DEF Makes, Queued
<1> QED BY <1>1, <1>2, OrdersReaches DEF Behind, Queued

\* What a caller reads is its caller's.
LEMMA OutputRoles == \A kind \in AllKinds : Outputs(kind) \subseteq UserRoles
BY DEF AllKinds, Outputs, UserRoles

\* What is sound of a call stays so.
LEMMA CarrySound ==
  ASSUME NEW g \in Hosts, NEW k \in Hosts, NEW c, NEW cl, NEW m, NEW N, NEW rf,
         Carry(g, k, c, m, N, Needed(g, c)), SamePairs(g, k, c), Sound(g, c, cl, m, N, rf)
  PROVE  Sound(k, c, cl, m, N, rf)
<1> DEFINE B == Needed(g, c)
<1> SUFFICES ASSUME cl.pc \in {"member", "work", "used"}
             PROVE  /\ m[1] \in AllKinds /\ Flows(Line(k), c, m, N) /\ Ahead(k, c)
                    /\ cl.pc = "member" => Member(k, c, m, N, rf)
                    /\ cl.pc = "work" => Work(k, c, m, N, rf, cl.event)
                    /\ cl.pc = "used" => Settled(k, c, Len(k.q["comm"])) /\ Used(k, c, m, N)
  BY DEF Sound
<1>0. m[1] \in AllKinds /\ \A r \in Outputs(m[1]) : <<c, r>> \in B
  BY OutputRoles DEF Needed, Sound
<1>1. Flows(Line(k), c, m, N)
  BY CarryFlows DEF Sound
<1>2. Orders(g, k) /\ k.q["cur"] = g.q["cur"] /\ k.q["side"] = g.q["side"]
  BY DEF Carry, Orders
<1>3. \A j : Makes(k, j, c) <=> Makes(g, j, c)
  BY <1>2 DEF Makes, Queued
<1>4. ASSUME cl.pc = "member" PROVE Ahead(k, c) /\ Member(k, c, m, N, rf)
  <2>1. Member(g, c, m, N, rf) /\ Ahead(g, c)
    BY <1>4 DEF Sound
  <2>2. Ahead(k, c)
    BY <2>1, CarryAhead DEF Member
  <2>3. ASSUME NEW p \in k.pairs, p[1][1] = c, Back(k, p)
        PROVE Brings(m, p) \in Expected(m[1], p[1][2]) /\ Ends(Line(k), p[2], Brings(m, p), m, N)
    <3>1. p \in g.pairs /\ Back(g, p) /\ p[2] \in B
      BY <2>3 DEF SamePairs, Back, Needed
    <3>2. Brings(m, p) \in Expected(m[1], p[1][2]) /\ Ends(Line(g), p[2], Brings(m, p), m, N)
      BY <2>1, <2>3, <3>1 DEF Member
    <3> QED BY <3>1, <3>2, ValueTypes DEF Carry
  <2>4. ASSUME NEW r \in Outputs(m[1]), <<c, r>> \in rf
        PROVE (\E p \in k.pairs : Back(k, p) /\ p[1] = <<c, r>>) \/ Result(Line(k), c, r, m, N)
    <3>1. CASE Result(Line(g), c, r, m, N)
      BY <1>0, <3>1, CarryResult
    <3>2. CASE \E p \in g.pairs : Back(g, p) /\ p[1] = <<c, r>>
      BY <3>2 DEF SamePairs, Back
    <3> QED BY <2>1, <2>4, <3>1, <3>2 DEF Member
  <2>5. \A j \in Queued(k, "cur") : Makes(k, j, c) => Covered(k, j)
    BY <1>2, <1>3, <2>1 DEF Member, Orders, Queued, Makes
  <2> QED BY <2>2, <2>3, <2>4, <2>5 DEF Member
<1>5. ASSUME cl.pc = "work" PROVE Ahead(k, c) /\ Work(k, c, m, N, rf, cl.event)
  <2>1. Work(g, c, m, N, rf, cl.event) /\ Ahead(g, c)
    BY <1>5 DEF Sound
  <2>2. Ahead(k, c)
    BY <2>1, CarryAhead DEF Work
  <2>3. Settled(k, c, cl.event["comm"]) /\ Behind(k, c, cl.event)
    BY <2>1, CarrySettled, CarryBehind DEF Work
  <2>4. Results(Line(k), c, m, N, rf)
    BY <1>0, <2>1, CarryResult DEF Work, Results
  <2> QED BY <2>2, <2>3, <2>4 DEF Work
<1>6. ASSUME cl.pc = "used" PROVE Ahead(k, c) /\ Settled(k, c, Len(k.q["comm"])) /\ Used(k, c, m, N)
  <2>1. /\ Used(g, c, m, N) /\ Ahead(g, c)
        /\ Settled(g, c, Len(g.q["comm"]))
    BY <1>6 DEF Sound
  <2>2. Ahead(k, c)
    BY <2>1, CarryAhead
  <2>3. Settled(k, c, Len(k.q["comm"]))
    <3>1. Settled(k, c, Len(g.q["comm"]))
      BY <2>1, CarrySettled
    <3>2. Len(k.q["comm"]) \in Nat
      BY LineFields
    <3> QED BY <3>1, <3>2 DEF Settled, Queued
  <2>4. ASSUME NEW s \in {"cur", "side"}, NEW i \in Queued(k, s), Consumes(k.q[s][i], c)
        PROVE  /\ k.q[s][i].reads = {<<c, r>> : r \in Outputs(m[1])}
               /\ \A r \in Outputs(m[1]) : Result(Line(k), c, r, m, N)
               /\ Settled(k, c, k.q[s][i].waits["comm"])
               /\ \A j \in Queued(k, "cur") : Makes(k, j, c) =>
                    \/ s = "cur" /\ j < i
                    \/ j <= k.q[s][i].waits["cur"] \/ Reaches(k, j, k.q[s][i].waits["comm"])
    <3>1. k.q[s] = g.q[s] /\ Queued(k, s) = Queued(g, s)
      BY <1>2 DEF Queued
    <3> DEFINE op == g.q[s][i]
    <3>2. /\ op.reads = {<<c, r>> : r \in Outputs(m[1])}
          /\ \A r \in Outputs(m[1]) : Result(Line(g), c, r, m, N)
          /\ Settled(g, c, op.waits["comm"])
          /\ \A j \in Queued(g, "cur") : Makes(g, j, c) =>
               \/ s = "cur" /\ j < i
               \/ j <= op.waits["cur"] \/ Reaches(g, j, op.waits["comm"])
      BY <2>1, <2>4, <3>1 DEF Used
    <3>3. k.q[s][i] = op
      BY <3>1
    <3> HIDE DEF op
    <3>4. \A r \in Outputs(m[1]) : Result(Line(k), c, r, m, N)
      BY <1>0, <3>2, CarryResult
    <3>5. Settled(k, c, op.waits["comm"])
      BY <3>2, CarrySettled
    <3>6. \A j \in Queued(k, "cur") : Makes(k, j, c) =>
               \/ s = "cur" /\ j < i
               \/ j <= op.waits["cur"] \/ Reaches(k, j, op.waits["comm"])
      <4>1. Queued(k, "cur") = Queued(g, "cur")
        BY <1>2 DEF Queued
      <4> QED BY <1>2, <1>3, <3>2, <4>1, OrdersReaches
    <3> QED BY <3>2, <3>3, <3>4, <3>5, <3>6
  <2> QED BY <2>2, <2>3, <2>4 DEF Used
<1> QED BY <1>0, <1>1, <1>4, <1>5, <1>6

-----------------------------------------------------------------------------
(* The steps that keep it.                                                 *)

\* The operations are the same ones, but for what they wait for.
LEMMA CarrySame ==
  ASSUME NEW g \in Hosts, NEW k \in Hosts, Orders(g, k), Len(Line(k)) = Len(Line(g)),
         \A i \in 1..Len(Line(g)) : Alike(Line(k)[i], Line(g)[i]),
         NEW c, NEW m, NEW N, NEW B
  PROVE  Carry(g, k, c, m, N, B)
<1>1. Len(Line(g)) \in Nat
  BY LineFields
<1>2. \A i \in 1..(Len(Line(g)) + 1) : \A b, v : Holds(Line(g), i, b, v, m, N)
                                         => Holds(Line(k), i, b, v, m, N)
  <2> SUFFICES ASSUME NEW i \in 1..(Len(Line(g)) + 1), NEW b, NEW v, Holds(Line(g), i, b, v, m, N)
               PROVE  Holds(Line(k), i, b, v, m, N)
    OBVIOUS
  <2>1. i \in Nat /\ \A x \in 1..(i - 1) : Alike(Line(g)[x], Line(k)[x])
    BY <1>1 DEF Alike
  <2> QED BY <2>1, HoldsAlike
<1>3. ASSUME NEW i \in 1..Len(Line(k))
      PROVE  /\ i \in 1..Len(Line(g)) /\ Alike(Line(k)[i], Line(g)[i])
             /\ \A b, v : Holds(Line(g), i, b, v, m, N) => Holds(Line(k), i, b, v, m, N)
  BY <1>1, <1>2
<1>4. \A b, v : Ends(Line(g), b, v, m, N) => Ends(Line(k), b, v, m, N)
  BY <1>1, <1>2 DEF Ends
<1> QED BY <1>3, <1>4 DEF Carry

\* An operation that is not of the call, and spoils nothing that matters to it.
LEMMA CarryInserted ==
  ASSUME NEW g \in Hosts, NEW k \in Hosts, Orders(g, k), NEW op,
         NEW x, x > Len(g.q["comm"]), Inserted(Line(g), Line(k), x, op),
         NEW c, ~Of(op, c),
         \A i \in x..Len(Line(g)) : Of(Line(g)[i], c) => Line(g)[i].reads \cap op.writes = {},
         NEW m, NEW N, NEW B, B \cap op.writes = {}
  PROVE  Carry(g, k, c, m, N, B)
<1> DEFINE l == Line(g)
           n == Line(k)
<1>1. Len(l) \in Nat /\ Len(n) = Len(l) + 1 /\ x \in 1..(Len(l) + 1) /\ Alike(n[x], op)
      /\ Len(g.q["comm"]) \in Nat
  BY LineFields DEF Inserted
<1>2. ASSUME NEW i \in 1..Len(n), Of(n[i], c)
      PROVE  \E y \in 1..Len(l) :
               /\ Alike(n[i], l[y])
               /\ y \in Queued(g, "comm") => i = y
               /\ \A b \in l[y].reads, v \in Vals :
                    Holds(l, y, b, v, m, N) => Holds(n, i, b, v, m, N)
  <2>1. i # x
    BY <1>1, <1>2, AlikeShape
  <2>2. CASE i < x
    <3>1. i \in 1..Len(l) /\ i \in 1..(Len(l) + 1) /\ i <= x /\ Alike(n[i], l[i])
      BY <1>1, <2>2 DEF Inserted
    <3>2. \A b, v : Holds(l, i, b, v, m, N) => Holds(n, i, b, v, m, N)
      BY <3>1, InsertedHolds
    <3> QED BY <3>1, <3>2
  <2>3. CASE i > x
    <3> DEFINE y == i - 1
    <3>1. y \in x..Len(l) /\ y \in 1..Len(l) /\ y \in 1..(Len(l) + 1) /\ y >= x /\ y + 1 = i
      BY <1>1, <2>3
    <3> HIDE DEF y
    <3>2. Alike(n[i], l[y])
      BY <3>1 DEF Inserted
    <3>3. y \notin Queued(g, "comm")
      BY <1>1, <3>1 DEF Queued
    <3>4. Of(l[y], c)
      BY <1>2, <3>2, AlikeShape
    <3>5. \A b \in l[y].reads : \A v : Holds(l, y, b, v, m, N) => Holds(n, i, b, v, m, N)
      <4>1. \A b \in l[y].reads : b \notin op.writes
        BY <3>1, <3>4
      <4> QED BY <3>1, <4>1, InsertedHolds
    <3> QED BY <3>1, <3>2, <3>3, <3>5
  <2> QED BY <1>1, <2>1, <2>2, <2>3
<1>3. ASSUME NEW b \in B, NEW v, Ends(l, b, v, m, N) PROVE Ends(n, b, v, m, N)
  <2>1. b \notin op.writes /\ Len(l) + 1 \in 1..(Len(l) + 1) /\ Len(l) + 1 >= x
    BY <1>1
  <2> QED BY <1>1, <1>3, <2>1, InsertedHolds DEF Ends
<1> QED BY <1>2, <1>3 DEF Carry

\* A join with one more operation in its first part, and in its second.
LEMMA JoinInserted ==
  ASSUME NEW T, NEW a \in Seq(T), NEW z \in Seq(T), NEW e \in Seq(T), NEW op,
         Len(e) = Len(a) + 1, \A i \in 1..Len(a) : e[i] = a[i], Alike(e[Len(a) + 1], op)
  PROVE  Inserted(a \o z, e \o z, Len(a) + 1, op)
<1> DEFINE l == a \o z
           r == e \o z
<1>1. /\ Len(l) \in Nat /\ Len(a) \in Nat /\ Len(z) \in Nat /\ Len(l) = Len(a) + Len(z)
      /\ \A i \in 1..Len(a) : l[i] = a[i]
      /\ \A i \in 1..Len(z) : l[Len(a) + i] = z[i]
  BY JoinFields
<1>2. /\ Len(r) = Len(e) + Len(z)
      /\ \A i \in 1..Len(e) : r[i] = e[i]
      /\ \A i \in 1..Len(z) : r[Len(e) + i] = z[i]
  <2>1. Len(r) = Len(e) + Len(z)
    BY JoinFields
  <2>2. \A i \in 1..Len(e) : r[i] = e[i]
    BY JoinFields
  <2>3. \A i \in 1..Len(z) : r[Len(e) + i] = z[i]
    BY JoinFields
  <2> QED BY <2>1, <2>2, <2>3
<1> HIDE DEF l, r
<1>3. \A i \in 1..((Len(a) + 1) - 1) : Alike(r[i], l[i])
  <2>1. \A i \in 1..((Len(a) + 1) - 1) : i \in 1..Len(a) /\ i \in 1..Len(e)
    BY <1>1
  <2> QED BY <1>1, <1>2, <2>1 DEF Alike
<1>4. Alike(r[Len(a) + 1], op)
  BY <1>1, <1>2
<1>5. ASSUME NEW i \in (Len(a) + 1)..Len(l) PROVE Alike(r[i + 1], l[i])
  <2>1. i - Len(a) \in 1..Len(z) /\ Len(a) + (i - Len(a)) = i /\ Len(e) + (i - Len(a)) = i + 1
    BY <1>1
  <2> QED BY <1>1, <1>2, <2>1 DEF Alike
<1>6. Inserted(l, r, Len(a) + 1, op)
  BY <1>1, <1>2, <1>3, <1>4, <1>5 DEF Inserted
<1> QED BY <1>6 DEF l, r

\* An operation appended to the group is one inserted at the end of the line.
LEMMA JoinAppended ==
  ASSUME NEW T, NEW a \in Seq(T), NEW z \in Seq(T), NEW e \in Seq(T), NEW op,
         Len(e) = Len(z) + 1, \A i \in 1..Len(z) : e[i] = z[i], e[Len(z) + 1] = op
  PROVE  Inserted(a \o z, a \o e, Len(a \o z) + 1, op)
<1> DEFINE l == a \o z
           r == a \o e
<1>1. /\ Len(l) \in Nat /\ Len(a) \in Nat /\ Len(z) \in Nat /\ Len(l) = Len(a) + Len(z)
      /\ \A i \in 1..Len(a) : l[i] = a[i]
      /\ \A i \in 1..Len(z) : l[Len(a) + i] = z[i]
  BY JoinFields
<1>2. /\ Len(r) = Len(a) + Len(e)
      /\ \A i \in 1..Len(a) : r[i] = a[i]
      /\ \A i \in 1..Len(e) : r[Len(a) + i] = e[i]
  <2>1. Len(r) = Len(a) + Len(e)
    BY JoinFields
  <2>2. \A i \in 1..Len(a) : r[i] = a[i]
    BY JoinFields
  <2>3. \A i \in 1..Len(e) : r[Len(a) + i] = e[i]
    BY JoinFields
  <2> QED BY <2>1, <2>2, <2>3
<1> HIDE DEF l, r
<1>3. ASSUME NEW i \in 1..((Len(l) + 1) - 1) PROVE Alike(r[i], l[i])
  <2>1. CASE i <= Len(a)
    <3>1. i \in 1..Len(a)
      BY <1>1, <2>1
    <3>2. r[i] = l[i]
      BY <1>1, <1>2, <3>1
    <3> QED BY <3>2 DEF Alike
  <2>2. CASE i > Len(a)
    <3> DEFINE y == i - Len(a)
    <3>1. y \in 1..Len(z) /\ y \in 1..Len(e) /\ Len(a) + y = i
      BY <1>1, <2>2
    <3> HIDE DEF y
    <3>2. l[i] = z[y] /\ r[i] = e[y]
      BY <1>1, <1>2, <3>1
    <3>3. e[y] = z[y]
      BY <3>1
    <3> QED BY <3>2, <3>3 DEF Alike
  <2> QED BY <1>1, <2>1, <2>2
<1>4. Alike(r[Len(l) + 1], op)
  <2>1. Len(e) \in 1..Len(e) /\ Len(a) + Len(e) = Len(l) + 1
    BY <1>1
  <2> QED BY <1>1, <1>2, <2>1 DEF Alike
<1>6. Inserted(l, r, Len(l) + 1, op)
  <2>1. (Len(l) + 1)..Len(l) = {} /\ Len(r) = Len(l) + 1 /\ Len(l) + 1 \in 1..(Len(l) + 1)
    BY <1>1, <1>2
  <2> QED BY <1>1, <1>3, <1>4, <2>1 DEF Inserted
<1> QED BY <1>6 DEF l, r

\* An operation enqueued on the comm stream goes before the group's.
LEMMA EnqueueInserted ==
  ASSUME NEW g \in Hosts, NEW op \in OpSet
  PROVE  LET k == Enqueue(g, "comm", op)
         IN /\ k \in Hosts /\ Orders(g, k) /\ Aside(g, k) /\ k.users = g.users
            /\ Inserted(Line(g), Line(k), Len(g.q["comm"]) + 1, op)
            /\ Len(k.q["comm"]) = Len(g.q["comm"]) + 1
<1> DEFINE k == Enqueue(g, "comm", op)
           n == Len(g.q["comm"])
<1>1. k \in Hosts /\ Orders(g, k) /\ Aside(g, k) /\ k.users = g.users
  BY OrdersEnqueue, EnqueueFields, StreamNames
<1>2. /\ Len(k.q["comm"]) = n + 1
      /\ \A i \in Queued(g, "comm") : k.q["comm"][i] = g.q["comm"][i]
      /\ k.q["comm"][n + 1] = Stamped(g, "comm", op)
  BY EnqueuePositions, StreamNames
<1>3. Alike(k.q["comm"][n + 1], op)
  BY <1>2, StampedFields, StreamNames DEF Alike
<1>4. k.group = g.group
  BY <1>1 DEF Aside
<1> HIDE DEF k
<1>5. /\ g.q["comm"] \in Seq(OpSet) /\ g.group \in Seq(OpSet) /\ k.q["comm"] \in Seq(OpSet)
      /\ \A i \in 1..Len(g.q["comm"]) : k.q["comm"][i] = g.q["comm"][i]
  BY <1>1, <1>2, HostTypes, StreamNames DEF Queued
<1>6. Inserted(Line(g), Line(k), n + 1, op)
  BY <1>2, <1>3, <1>4, <1>5, JoinInserted DEF Line
<1> QED BY <1>1, <1>2, <1>6 DEF k

\* One queued in the group goes last.
LEMMA GroupInserted ==
  ASSUME NEW g \in Hosts, NEW op \in OpSet
  PROVE  LET k == [g EXCEPT !.group = Append(@, op)]
         IN /\ k \in Hosts /\ Orders(g, k)
            /\ k.q = g.q /\ k.pairs = g.pairs /\ k.block = g.block
            /\ Inserted(Line(g), Line(k), Len(Line(g)) + 1, op)
            /\ Len(k.group) = Len(g.group) + 1 /\ k.group[Len(g.group) + 1] = op
            /\ \A i \in 1..Len(g.group) : k.group[i] = g.group[i]
<1> DEFINE k == [g EXCEPT !.group = Append(@, op)]
<1>1. k \in Hosts /\ k.q = g.q /\ k.pairs = g.pairs /\ k.block = g.block /\ k.waits = g.waits
      /\ k.group = Append(g.group, op)
  BY GroupAppend DEF Hosts
<1>2. g.group \in Seq(OpSet)
  BY HostTypes
<1>3. /\ Len(k.group) = Len(g.group) + 1 /\ k.group[Len(g.group) + 1] = op
      /\ \A i \in 1..Len(g.group) : k.group[i] = g.group[i]
  <2> DEFINE z == g.group
  <2>1. z \in Seq(OpSet)
    BY <1>2
  <2> HIDE DEF z
  <2>2. /\ Len(Append(z, op)) = Len(z) + 1 /\ Append(z, op)[Len(z) + 1] = op
        /\ \A i \in 1..Len(z) : Append(z, op)[i] = z[i]
    BY <2>1
  <2> QED BY <1>1, <2>2 DEF z
<1> HIDE DEF k
<1>4. Orders(g, k)
  <2>1. g.waits["comm"]["cur"] \in Nat
    BY HostTypes DEF Streams
  <2> QED BY <1>1, <2>1, OrdersSame
<1>5. g.q["comm"] \in Seq(OpSet) /\ k.group \in Seq(OpSet)
  BY <1>1, HostTypes, StreamNames
<1>6. Inserted(Line(g), Line(k), Len(Line(g)) + 1, op)
  BY <1>1, <1>2, <1>3, <1>5, JoinAppended DEF Line
<1> QED BY <1>1, <1>3, <1>4, <1>6 DEF k

-----------------------------------------------------------------------------
(* The group's end.                                                        *)

\* Closing the group, before the first of its operations.
LEMMA SubmittedNone ==
  ASSUME NEW g \in Hosts
  PROVE  Submitted(g, g, 0)
<1>1. g.waits["comm"]["cur"] \in Nat
  BY HostTypes DEF Streams
<1> QED BY <1>1, OrdersSame, LineFields DEF Submitted, Aside

\* And one operation later.
LEMMA SubmittedNext ==
  ASSUME NEW g \in Hosts, NEW k, NEW n \in Nat, n + 1 \in 1..Len(g.group), Submitted(g, k, n)
  PROVE  Submitted(g, Enqueue(k, "comm", g.group[n + 1]), n + 1)
<1> DEFINE op == g.group[n + 1]
           r == Enqueue(k, "comm", op)
           x == Len(g.q["comm"])
<1>1. op \in OpSet /\ k \in Hosts
  BY HostTypes DEF Submitted, GroupOps
<1>2. x \in Nat /\ Len(k.q["comm"]) = x + n
  BY LineFields DEF Submitted
<1> HIDE DEF x, op
<1>3. /\ Len(r.q["comm"]) = Len(k.q["comm"]) + 1
      /\ \A i \in 1..Len(k.q["comm"]) : r.q["comm"][i] = k.q["comm"][i]
      /\ r.q["comm"][Len(k.q["comm"]) + 1] = Stamped(k, "comm", op)
  BY <1>1, EnqueuePositions, StreamNames DEF Queued
<1>4. r \in Hosts /\ Orders(k, r) /\ Aside(k, r)
  BY <1>1, EnqueueInserted
<1> HIDE DEF r
<1>5. Alike(r.q["comm"][(x + n) + 1], op)
  <2>1. Alike(Stamped(k, "comm", op), op)
    BY <1>1, StampedFields, StreamNames DEF Alike
  <2> QED BY <1>2, <1>3, <2>1
<1>6. Orders(g, r) /\ Aside(g, r)
  BY <1>1, <1>4, OrdersTrans DEF Submitted, Aside
<1>7. ASSUME NEW i \in 1..(n + 1) PROVE Alike(r.q["comm"][x + i], g.group[i])
  <2>1. CASE i = n + 1
    <3>1. x + i = (x + n) + 1
      BY <1>2, <2>1
    <3> QED BY <1>5, <2>1, <3>1 DEF op
  <2>2. CASE i # n + 1
    <3>1. i \in 1..n /\ x + i \in 1..(x + n)
      BY <1>2, <2>2
    <3> QED BY <1>2, <1>3, <3>1 DEF Submitted, x
  <2> QED BY <2>1, <2>2
<1>8. (x + n) + 1 = x + (n + 1)
  BY <1>2
<1>9. Len(r.q["comm"]) = x + (n + 1)
  BY <1>2, <1>3, <1>8
<1> QED BY <1>4, <1>6, <1>7, <1>9 DEF Submitted, r, x, op

\* All of them, in order.
LEMMA SubmitAllFields ==
  ASSUME NEW g \in Hosts
  PROVE  Submitted(g, SubmitAll(g), Len(g.group))
<1> DEFINE S == DOMAIN g.group
           V == Hosts
           c == [s \in SUBSET S |-> Max(s)]
           o == [i \in S |-> [k \in V |-> Enqueue(k, "comm", g.group[i])]]
           Does(f) == f = [s \in SUBSET S |-> IF s = {} THEN g
                ELSE Enqueue(f[s \ {Max(s)}], "comm", g.group[Max(s)])]
           it == CHOOSE f : Does(f)
           Good(s) == \A n \in 0..Len(g.group) : s = 1..n => Submitted(g, it[s], n)
           W == {s \in SUBSET S : Good(s)}
<1>1. Len(g.group) \in Nat /\ S = 1..Len(g.group)
  BY HostTypes, LenProperties
<1>2. IsFiniteSet(S)
  BY <1>1, FS_Interval
<1>3. \A i \in S : g.group[i] \in OpSet
  BY <1>1, HostTypes DEF GroupOps
<1>4. \A k \in V, i \in S : Enqueue(k, "comm", g.group[i]) \in V
  BY <1>3, EnqueueFields, StreamNames
<1>5. \A s \in SUBSET S : s # {} => c[s] \in s
  BY <1>1, HasMax
<1>6. SubmitAll(g) = it[S]
  BY DEF SubmitAll, FoldLeft, MapThenFoldSet
<1> HIDE DEF V
<1>7. FoldArgs(S, V, g, c, o)
  BY <1>2, <1>4, <1>5 DEF FoldArgs, V
<1>8. PICK f \in [SUBSET S -> V] : Folds(f, S, g, c, o)
  <2> HIDE DEF c, o, S
  <2> QED BY <1>7, FoldExists
<1>9. Does(f)
  <2> HIDE DEF S
  <2> QED BY <1>5, <1>8 DEF Folds
<1>10. Does(it)
  <2> HIDE DEF Does
  <2> QED BY <1>9
<1> HIDE DEF it
<1>11. {} \in W
  <2>1. it[{}] = g
    BY <1>10
  <2>2. \A n \in 0..Len(g.group) : {} = 1..n => n = 0
    BY <1>1
  <2> QED BY <2>1, <2>2, SubmittedNone
<1>12. ASSUME NEW s \in SUBSET S, s # {}, s \ {c[s]} \in W PROVE s \in W
  <2> SUFFICES ASSUME NEW n \in 0..Len(g.group), s = 1..n PROVE Submitted(g, it[s], n)
    OBVIOUS
  <2>1. n \in 1..Len(g.group) /\ n - 1 \in 0..Len(g.group) /\ n - 1 \in Nat /\ (n - 1) + 1 = n
    BY <1>1, <1>12
  <2>2. Max(s) = n
    <3>1. Max(s) \in s /\ \A y \in s : Max(s) >= y
      BY <1>1, <1>12, HasMax
    <3>2. n \in s /\ Max(s) \in 1..n
      BY <2>1, <3>1
    <3>3. Max(s) >= n
      BY <3>1, <3>2
    <3> QED BY <2>1, <3>2, <3>3
  <2>3. s \ {c[s]} = 1..(n - 1)
    BY <2>1, <2>2
  <2>4. Submitted(g, it[s \ {c[s]}], n - 1)
    BY <1>12, <2>1, <2>3
  <2>5. it[s] = Enqueue(it[s \ {c[s]}], "comm", g.group[n])
    BY <1>10, <1>12, <2>2
  <2>6. Submitted(g, Enqueue(it[s \ {c[s]}], "comm", g.group[(n - 1) + 1]), (n - 1) + 1)
    <3> DEFINE k == it[s \ {c[s]}]
    <3>1. Submitted(g, k, n - 1) /\ (n - 1) + 1 \in 1..Len(g.group) /\ n - 1 \in Nat
      BY <2>1, <2>4
    <3> HIDE DEF k
    <3>2. Submitted(g, Enqueue(k, "comm", g.group[(n - 1) + 1]), (n - 1) + 1)
      BY <3>1, SubmittedNext
    <3> QED BY <3>2 DEF k
  <2> QED BY <2>1, <2>5, <2>6
<1>13. \A s \in SUBSET S : s \in W
  <2> HIDE DEF W, c, S
  <2> QED BY <1>2, <1>5, <1>11, <1>12, SetClimbs
<1>14. S \in W /\ Len(g.group) \in 0..Len(g.group)
  <2>1. S \in SUBSET S
    OBVIOUS
  <2> QED BY <1>1, <1>13, <2>1
<1> QED BY <1>1, <1>6, <1>14

\* The same line, none of it in the group.
LEMMA GroupEndLine ==
  ASSUME NEW g \in Hosts
  PROVE  LET k == GroupEnd(g)
         IN /\ k \in Hosts /\ Orders(g, k) /\ k.group = <<>>
            /\ k.pairs = g.pairs /\ k.block = g.block /\ k.records = g.records
            /\ Len(Line(k)) = Len(Line(g)) /\ Len(k.q["comm"]) = Len(Line(k))
            /\ \A i \in 1..Len(Line(g)) : Alike(Line(k)[i], Line(g)[i])
<1> DEFINE n == SubmitAll(g)
           k == [n EXCEPT !.group = <<>>, !.open = FALSE]
           x == Len(g.q["comm"])
<1>1. GroupEnd(g) = k
  BY DEF GroupEnd, SubmitAll
<1>2. Submitted(g, n, Len(g.group))
  BY SubmitAllFields
<1> HIDE DEF n
<1>3. n \in Hosts /\ Orders(g, n) /\ Aside(g, n)
  BY <1>2 DEF Submitted
<1>4. /\ k \in Hosts /\ k.q = n.q /\ k.waits = n.waits /\ k.group = <<>>
      /\ k.block = n.block /\ k.records = n.records /\ k.pairs = n.pairs
  <2>1. <<>> \in Seq(OpSet)
    BY EmptySeq
  <2> QED BY <1>3, <2>1 DEF Hosts
<1> HIDE DEF k
<1>5. Orders(g, k)
  <2>1. n.waits["comm"]["cur"] \in Nat
    BY <1>3, HostTypes DEF Streams
  <2>2. Orders(n, k)
    BY <1>3, <1>4, <2>1, OrdersSame
  <2> QED BY <1>3, <1>4, <2>2, OrdersTrans
<1>6. /\ x \in Nat /\ Len(g.group) \in Nat /\ Len(Line(g)) = x + Len(g.group)
      /\ \A i \in 1..x : Line(g)[i] = g.q["comm"][i]
      /\ \A i \in 1..Len(g.group) : Line(g)[x + i] = g.group[i]
  BY LineFields DEF Queued
<1>7. /\ Len(k.q["comm"]) = x + Len(g.group)
      /\ \A i \in 1..x : k.q["comm"][i] = g.q["comm"][i]
      /\ \A i \in 1..Len(g.group) : Alike(k.q["comm"][x + i], g.group[i])
  BY <1>2, <1>3, <1>4 DEF Submitted, Orders, Queued
<1>8. Line(k) = k.q["comm"]
  <2>1. k.q["comm"] \in Seq(OpSet)
    BY <1>4, HostTypes, StreamNames
  <2>2. k.q["comm"] \o <<>> = k.q["comm"]
    BY <2>1, ConcatEmptySeq
  <2> QED BY <1>4, <2>2 DEF Line
<1> HIDE DEF x
<1>9. ASSUME NEW i \in 1..Len(Line(g)) PROVE Alike(Line(k)[i], Line(g)[i])
  <2>1. CASE i \in 1..x
    BY <1>6, <1>7, <1>8, <2>1 DEF Alike
  <2>2. CASE i \notin 1..x
    <3>1. i - x \in 1..Len(g.group) /\ x + (i - x) = i
      BY <1>6, <2>2
    <3> QED BY <1>6, <1>7, <1>8, <3>1
  <2> QED BY <2>1, <2>2
<1> QED BY <1>1, <1>3, <1>4, <1>5, <1>6, <1>7, <1>8, <1>9 DEF Aside

-----------------------------------------------------------------------------
(* A call in progress, and the others meanwhile.                           *)

\* An operation put on the line that spoils nothing of what matters to call c.
LEMMA SoundInserted ==
  ASSUME NEW g \in Hosts, NEW k \in Hosts, Orders(g, k), NEW op,
         NEW x, x > Len(g.q["comm"]), Inserted(Line(g), Line(k), x, op),
         NEW c, NEW cl, NEW m, NEW N, NEW rf, Sound(g, c, cl, m, N, rf), SamePairs(g, k, c),
         ~Of(op, c), Needed(g, c) \cap op.writes = {},
         \A i \in x..Len(Line(g)) : Of(Line(g)[i], c) /\ Shape(Line(g)[i], c)
                                    => Line(g)[i].reads \cap op.writes = {}
  PROVE  Sound(k, c, cl, m, N, rf)
<1> SUFFICES ASSUME cl.pc \in {"member", "work", "used"} PROVE Sound(k, c, cl, m, N, rf)
  BY DEF Sound
<1>1. Flows(Line(g), c, m, N)
  BY DEF Sound
<1>2. \A i \in x..Len(Line(g)) : Of(Line(g)[i], c) => Line(g)[i].reads \cap op.writes = {}
  <2>1. x \in 1..(Len(Line(g)) + 1) /\ Len(Line(g)) \in Nat
    BY DEF Inserted
  <2>2. \A i \in x..Len(Line(g)) : i \in 1..Len(Line(g))
    BY <2>1
  <2> QED BY <1>1, <2>2 DEF Flows
<1>3. Carry(g, k, c, m, N, Needed(g, c))
  BY <1>2, CarryInserted
<1> QED BY <1>3, CarrySound

\* The same line.
LEMMA SoundSame ==
  ASSUME NEW g \in Hosts, NEW k \in Hosts, Orders(g, k), Len(Line(k)) = Len(Line(g)),
         \A i \in 1..Len(Line(g)) : Alike(Line(k)[i], Line(g)[i]),
         NEW c, NEW cl, NEW m, NEW N, NEW rf, Sound(g, c, cl, m, N, rf), SamePairs(g, k, c)
  PROVE  Sound(k, c, cl, m, N, rf)
<1>1. Carry(g, k, c, m, N, Needed(g, c))
  BY CarrySame
<1> QED BY <1>1, CarrySound

\* A comm stream behind the producer stays behind it.
LEMMA CovLater ==
  ASSUME NEW g, NEW k, Orders(g, k), NEW c, Cov(g, c)
  PROVE  Cov(k, c)
<1>1. \A j : Makes(k, j, c) => Makes(g, j, c) /\ j \in Queued(g, "cur") /\ j \in Nat
  BY DEF Makes, Orders, Queued
<1> QED BY <1>1 DEF Cov, Orders

\* An operation of c's own touches only its buffers.
LEMMA ShapeTouches ==
  ASSUME NEW op \in OpSet, NEW c, Shape(op, c)
  PROVE  /\ \A b \in Touches(op) : b[1] = c /\ b \in Bufs /\ b = <<c, b[2]>>
         /\ op.kind \in {"copy", "library"}
         /\ \A d : d # c => ~Of(op, d)
<1>1. op.reads \in SUBSET Bufs /\ op.writes \in SUBSET Bufs
  BY DEF OpSet
<1>2. \A b \in Touches(op) : b[1] = c
  BY DEF Shape, Touches
<1> QED BY <1>1, <1>2, BufFacts DEF Shape, Touches, Of

\* More on the line of what runs there.
LEMMA SidesInserted ==
  ASSUME NEW g \in Hosts, NEW k \in Hosts, Orders(g, k), NEW op,
         op.kind \in {"copy", "library", "release"},
         NEW x, Inserted(Line(g), Line(k), x, op), NEW cs, Sides(g, cs), k.pairs = g.pairs
  PROVE  Sides(k, cs)
<1>1. k.q["cur"] = g.q["cur"] /\ k.q["side"] = g.q["side"]
  BY DEF Orders
<1>2. ASSUME NEW i \in 1..Len(Line(k)) PROVE Line(k)[i].kind \in {"copy", "library", "release"}
  <2>1. CASE i < x
    <3>1. i \in 1..Len(Line(g)) /\ Alike(Line(k)[i], Line(g)[i])
      BY <2>1 DEF Inserted
    <3> QED BY <3>1 DEF Sides, Alike
  <2>2. CASE i = x
    BY <2>2 DEF Inserted, Alike
  <2>3. CASE i > x
    <3>1. i - 1 \in x..Len(Line(g)) /\ i - 1 \in 1..Len(Line(g)) /\ (i - 1) + 1 = i
      BY <2>3 DEF Inserted
    <3>2. Alike(Line(k)[i], Line(g)[i - 1])
      BY <3>1 DEF Inserted
    <3> QED BY <3>1, <3>2 DEF Sides, Alike
  <2>4. x \in Nat
    BY DEF Inserted
  <2> QED BY <2>1, <2>2, <2>3, <2>4
<1>3. \A s \in {"cur", "side"} : k.q[s] = g.q[s] /\ Queued(k, s) = Queued(g, s)
  BY <1>1 DEF Queued
<1>4. \A p \in k.pairs : p[1][1] = p[2][1] /\ p[1][2] \in UserRoles
  BY DEF Sides
<1>5. \A i \in Queued(k, "cur") : k.q["cur"][i].kind = "produce" =>
     /\ k.q["cur"][i].reads = {}
     /\ \E d \in Calls : cs[d].pc # "new" /\ k.q["cur"][i].writes = {<<d, "in">>}
  BY <1>3 DEF Sides
<1>6. \A s \in {"cur", "side"} : \A i \in Queued(k, s) :
     /\ k.q[s][i].kind \in {"use", "release"} \/ (s = "cur" /\ k.q[s][i].kind = "produce")
     /\ k.q[s][i].kind = "use" =>
          /\ k.q[s][i].writes = {}
          /\ \A b \in k.q[s][i].reads : cs[b[1]].pc = "used"
  BY <1>3 DEF Sides
<1> QED BY <1>2, <1>4, <1>5, <1>6 DEF Sides

\* An operation of another call.
LEMMA SoundOther ==
  ASSUME NEW g \in Hosts, NEW k \in Hosts, Orders(g, k), NEW op \in OpSet,
         NEW x, x > Len(g.q["comm"]), Inserted(Line(g), Line(k), x, op),
         NEW c, Shape(op, c), NEW cs, Sides(g, cs), k.pairs = g.pairs,
         NEW d, d # c, NEW cl, NEW m, NEW N, NEW rf, Sound(g, d, cl, m, N, rf)
  PROVE  Sound(k, d, cl, m, N, rf)
<1>1. /\ \A b \in Touches(op) : b[1] = c /\ b = <<c, b[2]>>
      /\ op.kind \in {"copy", "library"} /\ ~Of(op, d)
  BY ShapeTouches
<1>2. \A b \in Needed(g, d) : b[1] = d
  BY DEF Needed, Sides
<1>3. Needed(g, d) \cap op.writes = {}
  BY <1>1, <1>2 DEF Touches
<1>4. \A o : Shape(o, d) => o.reads \cap op.writes = {}
  <2>1. \A o : Shape(o, d) => \A b \in o.reads : b[1] = d
    BY DEF Shape, Touches
  <2> QED BY <1>1, <2>1 DEF Touches
<1>5. SamePairs(g, k, d)
  BY DEF SamePairs
<1> QED BY <1>1, <1>3, <1>4, <1>5, SoundInserted

\* An operation of call c leaves what is sound of the other calls.
LEMMA OthersInserted ==
  ASSUME NEW g \in Hosts, NEW k \in Hosts, Orders(g, k), NEW op \in OpSet,
         NEW x, x > Len(g.q["comm"]), Inserted(Line(g), Line(k), x, op),
         NEW c, NEW z, Others(g, c, z), Shape(op, c), k.pairs = g.pairs
  PROVE  Others(k, c, z)
<1>1. op.kind \in {"copy", "library", "release"}
  BY ShapeTouches
<1>2. Sides(g, z.calls)
  BY DEF Others
<1>3. Sides(k, z.calls)
  BY <1>1, <1>2, SidesInserted
<1>4. ASSUME NEW d \in Calls \ {c}
      PROVE  Sound(k, d, z.calls[d], Mode(z.calls, d), z.now, z.refs)
  <2>1. Sound(g, d, z.calls[d], Mode(z.calls, d), z.now, z.refs) /\ d # c
    BY DEF Others
  <2> QED BY <1>2, <2>1, SoundOther
<1> QED BY <1>3, <1>4 DEF Others

\* So does what changes no operation but for its waits.
LEMMA OthersSame ==
  ASSUME NEW g \in Hosts, NEW k \in Hosts, Orders(g, k), Len(Line(k)) = Len(Line(g)),
         \A i \in 1..Len(Line(g)) : Alike(Line(k)[i], Line(g)[i]),
         NEW c, NEW z, Others(g, c, z), k.pairs = g.pairs
  PROVE  Others(k, c, z)
<1>1. Sides(g, z.calls)
  BY DEF Others
<1>2. \A s \in {"cur", "side"} : k.q[s] = g.q[s] /\ Queued(k, s) = Queued(g, s)
  BY DEF Orders, Queued
<1>3. \A i \in 1..Len(Line(k)) : Line(k)[i].kind \in {"copy", "library", "release"}
  BY <1>1 DEF Sides, Alike
<1>4. Sides(k, z.calls)
  <2>5. \A i \in Queued(k, "cur") : k.q["cur"][i].kind = "produce" =>
       /\ k.q["cur"][i].reads = {}
       /\ \E d \in Calls : z.calls[d].pc # "new" /\ k.q["cur"][i].writes = {<<d, "in">>}
    BY <1>1, <1>2 DEF Sides
  <2>6. \A s \in {"cur", "side"} : \A i \in Queued(k, s) :
       /\ k.q[s][i].kind \in {"use", "release"} \/ (s = "cur" /\ k.q[s][i].kind = "produce")
       /\ k.q[s][i].kind = "use" =>
            /\ k.q[s][i].writes = {}
            /\ \A b \in k.q[s][i].reads : z.calls[b[1]].pc = "used"
    BY <1>1, <1>2 DEF Sides
  <2>7. \A p \in k.pairs : p[1][1] = p[2][1] /\ p[1][2] \in UserRoles
    BY <1>1 DEF Sides
  <2> QED BY <1>3, <2>5, <2>6, <2>7 DEF Sides
<1>5. \A d : SamePairs(g, k, d)
  BY DEF SamePairs
<1> QED BY <1>4, <1>5, SoundSame DEF Others

\* A further operation of c's, that reads what it has to and writes nothing
\* the group's operations behind it touch.
LEMMA PartInserted ==
  ASSUME NEW g \in Hosts, NEW k \in Hosts, Orders(g, k), NEW op \in OpSet,
         NEW x, x > Len(g.q["comm"]), Inserted(Line(g), Line(k), x, op),
         NEW c, NEW m, NEW N, NEW A, NEW V, NEW W, Part(g, c, m, N, A, V, W), Cov(g, c),
         Shape(op, c), Finds(op, m, A), x <= Len(Line(g)) => Spares(op, V, W),
         NEW A2, Leaves(op, c, m, A, A2), NEW V2, NEW W2, Within(k, c, V2, W2)
  PROVE  Part(k, c, m, N, A2, V2, W2) /\ Cov(k, c)
<1> DEFINE l == Line(g)
           n == Line(k)
<1>1. /\ \A b \in Touches(op) : b[1] = c /\ b = <<c, b[2]>>
      /\ op.kind \in {"copy", "library"}
  BY ShapeTouches
<1>2. Len(l) \in Nat /\ Len(n) = Len(l) + 1 /\ x \in 1..(Len(l) + 1) /\ Alike(n[x], op)
  BY DEF Inserted
<1>3. ASSUME NEW i \in x..Len(l)
      PROVE  /\ \A b \in op.reads : b \notin l[i].writes
             /\ \A b \in op.writes : b \notin l[i].writes /\ b \notin l[i].reads
  <2>1. i \in 1..Len(l) /\ i > Len(g.q["comm"]) /\ x <= Len(l)
    BY <1>2, LineFields
  <2>2. i - Len(g.q["comm"]) \in 1..Len(g.group) /\ l[i] = g.group[i - Len(g.q["comm"])]
    BY <2>1, LineFields
  <2>3. /\ \A b \in l[i].reads : b[1] = c => b[2] \in V
        /\ \A b \in l[i].writes : b[1] = c => b[2] \in W
    BY <2>2 DEF Part, Within
  <2> QED BY <1>1, <2>1, <2>3 DEF Touches, Spares
<1>4. \A b \in op.reads : Holds(l, x, b, In(op, m), m, N)
  <2> TAKE b \in op.reads
  <2>1. Ends(l, b, In(op, m), m, N)
    <3> DEFINE a == <<b[2], In(op, m)>>
    <3>1. a \in A /\ b = <<c, a[1]>> /\ a[2] = In(op, m)
      BY <1>1 DEF Touches, Finds
    <3> HIDE DEF a
    <3> QED BY <3>1 DEF Part
  <2> QED BY <1>2, <1>3, <2>1, EndsBefore
<1>5. ASSUME NEW i \in 1..Len(n), Of(n[i], c)
      PROVE  Shape(n[i], c) /\ \A b \in n[i].reads : Holds(n, i, b, In(n[i], m), m, N)
  <2>1. CASE i = x
    <3>1. Shape(n[i], c) /\ In(n[i], m) = In(op, m) /\ n[i].reads = op.reads
      BY <1>2, <2>1, AlikeShape, AlikeOut DEF Alike
    <3>2. x \in 1..(Len(l) + 1) /\ x <= x
      BY <1>2
    <3>3. \A b \in op.reads : Holds(n, x, b, In(op, m), m, N)
      BY <1>4, <3>2, InsertedHolds
    <3> QED BY <2>1, <3>1, <3>3
  <2>2. CASE i < x
    <3>1. i \in 1..Len(l) /\ i \in 1..(Len(l) + 1) /\ i <= x /\ Alike(n[i], l[i])
      BY <1>2, <2>2 DEF Inserted
    <3>2. /\ Of(l[i], c) /\ Shape(n[i], c) = Shape(l[i], c)
          /\ In(n[i], m) = In(l[i], m) /\ n[i].reads = l[i].reads
      BY <1>5, <3>1, AlikeShape, AlikeOut DEF Alike
    <3>3. Shape(l[i], c) /\ \A b \in l[i].reads : Holds(l, i, b, In(l[i], m), m, N)
      BY <3>1, <3>2 DEF Part, Flows
    <3>4. \A b \in l[i].reads : Holds(n, i, b, In(l[i], m), m, N)
      BY <3>1, <3>3, InsertedHolds
    <3> QED BY <3>2, <3>3, <3>4
  <2>3. CASE i > x
    <3> DEFINE y == i - 1
    <3>0. y \in x..Len(l) /\ y \in 1..Len(l) /\ y \in 1..(Len(l) + 1) /\ y >= x /\ y + 1 = i
      BY <1>2, <2>3
    <3> HIDE DEF y
    <3>1. Alike(n[i], l[y])
      BY <3>0 DEF Inserted
    <3>2. /\ Of(l[y], c) /\ Shape(n[i], c) = Shape(l[y], c)
          /\ In(n[i], m) = In(l[y], m) /\ n[i].reads = l[y].reads
      BY <1>5, <3>1, AlikeShape, AlikeOut DEF Alike
    <3>3. Shape(l[y], c) /\ \A b \in l[y].reads : Holds(l, y, b, In(l[y], m), m, N)
      BY <3>0, <3>2 DEF Part, Flows
    <3>4. \A b \in l[y].reads : b \notin op.writes
      BY <1>3, <3>0
    <3>5. \A b \in l[y].reads : Holds(n, i, b, In(l[y], m), m, N)
      BY <3>0, <3>3, <3>4, InsertedHolds
    <3> QED BY <3>2, <3>3, <3>5
  <2> QED BY <1>2, <2>1, <2>2, <2>3
<1>6. Ahead(k, c)
  <2> SUFFICES ASSUME NEW j \in Queued(k, "cur"), NEW i \in Queued(k, "comm"),
                      Makes(k, j, c), Of(k.q["comm"][i], c)
               PROVE  Reaches(k, j, i)
    BY DEF Ahead
  <2>1. j \in Queued(g, "cur") /\ Makes(g, j, c) /\ j \in Nat
    BY DEF Orders, Makes, Queued
  <2>2. CASE i \in Queued(g, "comm")
    <3>1. Reaches(g, j, i)
      BY <2>1, <2>2 DEF Orders, Part, Ahead
    <3> QED BY <3>1, OrdersReaches
  <2>3. CASE i \notin Queued(g, "comm")
    BY <2>1, <2>3 DEF Orders, Cov
  <2> QED BY <2>2, <2>3
<1>7. ASSUME NEW a \in A2 PROVE a[2] \in Vals /\ Ends(n, <<c, a[1]>>, a[2], m, N)
  <2>1. CASE a \in A /\ \A b \in op.writes : b[2] # a[1]
    <3>1. a[2] \in Vals /\ Ends(l, <<c, a[1]>>, a[2], m, N) /\ <<c, a[1]>> \notin op.writes
      BY <2>1 DEF Part
    <3>2. Len(l) + 1 \in 1..(Len(l) + 1) /\ Len(l) + 1 >= x
      BY <1>2
    <3> QED BY <1>2, <3>1, <3>2, InsertedHolds DEF Ends
  <2>2. CASE <<c, a[1]>> \in op.writes /\ a[2] = Out(op, m)
    <3>1. \A i \in x..Len(l) : <<c, a[1]>> \notin l[i].writes
      BY <1>3, <2>2
    <3> QED BY <2>2, <3>1, InsertedWrites, ValueTypes
  <2> QED BY <1>7, <2>1, <2>2 DEF Leaves
<1>8. Cov(k, c)
  BY CovLater
<1> QED BY <1>5, <1>6, <1>7, <1>8 DEF Part, Flows

-----------------------------------------------------------------------------
(* The operations of a call, one by one.                                   *)

\* Waiting and bookkeeping change no line.
LEMMA DoingSame ==
  ASSUME NEW g, NEW c, NEW z, NEW A, NEW V, NEW W, Doing(g, c, z, A, V, W),
         NEW k \in Hosts, k.q = g.q, k.group = g.group, k.pairs = g.pairs, k.block = g.block,
         g.waits["comm"]["cur"] <= k.waits["comm"]["cur"]
  PROVE  Doing(k, c, z, A, V, W) /\ (Cov(g, c) => Cov(k, c))
<1>1. g \in Hosts /\ Orders(g, k) /\ Line(k) = Line(g)
  BY OrdersSame DEF Doing, Line
<1>2. Others(k, c, z)
  BY <1>1, OthersSame DEF Doing, Alike
<1>3. Ahead(k, c)
  <2>1. \A j, i : Reaches(g, j, i) => Reaches(k, j, i)
    BY <1>1, OrdersReaches
  <2> QED BY <2>1 DEF Doing, Part, Ahead, Makes, Queued
<1>4. Part(k, c, Mode(z.calls, c), z.now, A, V, W)
  BY <1>1, <1>3 DEF Doing, Part, Within
<1> QED BY <1>1, <1>2, <1>4, CovLater DEF Doing

\* The comm stream waits for the caller's, which the producer is on.
LEMMA DoingWait ==
  ASSUME NEW g, NEW c, NEW z, NEW A, NEW V, NEW W, Doing(g, c, z, A, V, W)
  PROVE  LET k == WaitStream(g, "comm", "cur")
         IN Doing(k, c, z, A, V, W) /\ Cov(k, c) /\ k.group = g.group
<1> DEFINE k == WaitStream(g, "comm", "cur")
<1>1. g \in Hosts
  BY DEF Doing
<1>2. /\ k \in Hosts /\ k.q = g.q /\ Aside(g, k)
      /\ g.waits["comm"]["cur"] <= k.waits["comm"]["cur"]
      /\ Len(g.q["cur"]) <= k.waits["comm"]["cur"]
  BY <1>1, WaitStreamFields, StreamNames
<1> HIDE DEF k
<1>3. Doing(k, c, z, A, V, W)
  BY <1>2, DoingSame DEF Aside
<1>4. \A j \in Queued(k, "cur") : Covered(k, j)
  <2>1. k.waits["comm"]["cur"] \in Nat /\ Len(g.q["cur"]) \in Nat
    BY <1>1, <1>2, HostTypes, StreamNames
  <2> QED BY <1>2, <2>1 DEF Covered, Queued
<1>5. Cov(k, c)
  BY <1>4 DEF Cov
<1> QED BY <1>2, <1>3, <1>5 DEF k, Aside

\* An operation enqueued on the comm stream.
LEMMA DoingEnqueue ==
  ASSUME NEW g, NEW c, NEW z, NEW A, NEW V, NEW W, Doing(g, c, z, A, V, W), Cov(g, c),
         NEW op \in OpSet, Shape(op, c),
         Finds(op, Mode(z.calls, c), A), Spares(op, V, W),
         NEW A2, Leaves(op, c, Mode(z.calls, c), A, A2),
         NEW V2, NEW W2, V \subseteq V2, W \subseteq W2
  PROVE  LET k == Enqueue(g, "comm", op)
         IN Doing(k, c, z, A2, V2, W2) /\ Cov(k, c) /\ k.group = g.group
<1> DEFINE k == Enqueue(g, "comm", op)
           x == Len(g.q["comm"]) + 1
           m == Mode(z.calls, c)
           N == z.now
<1>1. g \in Hosts /\ Part(g, c, m, N, A, V, W) /\ Others(g, c, z)
  BY DEF Doing
<1>2. /\ k \in Hosts /\ Orders(g, k) /\ Aside(g, k)
      /\ Inserted(Line(g), Line(k), x, op) /\ x > Len(g.q["comm"])
  BY <1>1, EnqueueInserted, LineFields
<1>3. k.group = g.group /\ k.pairs = g.pairs /\ k.block = g.block
  BY <1>2 DEF Aside
<1> HIDE DEF k, x, m, N
<1>4. Others(k, c, z)
  BY <1>1, <1>2, <1>3, OthersInserted
<1>5. Within(k, c, V2, W2)
  <2>1. Within(g, c, V, W)
    BY <1>1 DEF Part
  <2> QED BY <1>3, <2>1 DEF Within
<1>6. Finds(op, m, A) /\ Leaves(op, c, m, A, A2)
  BY DEF m
<1>10. Part(k, c, m, N, A2, V2, W2) /\ Cov(k, c)
  BY <1>1, <1>2, <1>5, <1>6, PartInserted
<1> QED BY <1>2, <1>3, <1>4, <1>10 DEF Doing, k, m, N

\* An operation queued in the library's group.
LEMMA DoingGroup ==
  ASSUME NEW g, NEW c, NEW z, NEW A, NEW V, NEW W, Doing(g, c, z, A, V, W), Cov(g, c),
         NEW op \in OpSet, Shape(op, c),
         Finds(op, Mode(z.calls, c), A),
         NEW A2, Leaves(op, c, Mode(z.calls, c), A, A2),
         NEW V2, NEW W2, V \subseteq V2, W \subseteq W2,
         \A b \in op.reads : b[2] \in V2, \A b \in op.writes : b[2] \in W2
  PROVE  LET k == Grouped(g, op)
         IN Doing(k, c, z, A2, V2, W2) /\ Cov(k, c)
<1> DEFINE k == Grouped(g, op)
           x == Len(Line(g)) + 1
           m == Mode(z.calls, c)
           N == z.now
<1>1. g \in Hosts /\ Part(g, c, m, N, A, V, W) /\ Others(g, c, z)
  BY DEF Doing
<1>2. /\ k \in Hosts /\ Orders(g, k)
      /\ k.q = g.q /\ k.pairs = g.pairs /\ k.block = g.block
      /\ Inserted(Line(g), Line(k), x, op)
      /\ Len(k.group) = Len(g.group) + 1 /\ k.group[Len(g.group) + 1] = op
      /\ \A i \in 1..Len(g.group) : k.group[i] = g.group[i]
  BY <1>1, GroupInserted DEF Grouped
<1>3. x > Len(g.q["comm"]) /\ ~(x <= Len(Line(g))) /\ Len(g.group) \in Nat
  <2> DEFINE l == Len(Line(g))
             n == Len(g.q["comm"])
  <2>1. l = n + Len(g.group) /\ l \in Nat /\ n \in Nat /\ Len(g.group) \in Nat
    BY <1>1, LineFields
  <2>2. x = l + 1
    OBVIOUS
  <2> HIDE DEF l, n, x
  <2>3. x > n /\ ~(x <= l)
    BY <2>1, <2>2
  <2> QED BY <2>1, <2>3 DEF l, n
<1> HIDE DEF k, x, m, N
<1>4. Others(k, c, z)
  BY <1>1, <1>2, <1>3, OthersInserted
<1>5. Within(k, c, V2, W2)
  <2>0. Within(g, c, V, W)
    BY <1>1 DEF Part
  <2> SUFFICES ASSUME NEW i \in 1..Len(k.group)
               PROVE  /\ \A b \in k.group[i].reads : b[1] = c => b[2] \in V2
                      /\ \A b \in k.group[i].writes : b[1] = c => b[2] \in W2
    BY DEF Within
  <2>1. CASE i = Len(g.group) + 1
    BY <1>2, <2>1
  <2>2. CASE i # Len(g.group) + 1
    <3>1. i \in 1..Len(g.group)
      BY <1>2, <1>3, <2>2
    <3> QED BY <1>2, <2>0, <3>1 DEF Within
  <2> QED BY <2>1, <2>2
<1>6. Finds(op, m, A) /\ Leaves(op, c, m, A, A2) /\ (x <= Len(Line(g)) => Spares(op, V, W))
  BY <1>3 DEF m
<1>8. Part(k, c, m, N, A2, V2, W2) /\ Cov(k, c)
  BY <1>1, <1>2, <1>3, <1>5, <1>6, PartInserted
<1> QED BY <1>1, <1>2, <1>4, <1>8 DEF Doing, k, m, N

\* The two kinds of operation.
LEMMA CopyShape ==
  ASSUME NEW c \in Calls, NEW x \in Roles, NEW y \in Roles, NEW m
  PROVE  LET op == Copy(<<c, x>>, <<c, y>>)
         IN /\ op \in OpSet /\ Shape(op, c)
            /\ op.reads = {<<c, x>>} /\ op.writes = {<<c, y>>}
            /\ In(op, m) = Carries(m, x, y) /\ Out(op, m) = Carries(m, x, y)
<1> DEFINE op == Copy(<<c, x>>, <<c, y>>)
<1>1. <<c, x>> \in Bufs /\ <<c, y>> \in Bufs
  BY DEF Bufs
<1>2. op \in OpSet /\ op.kind = "copy" /\ op.reads = {<<c, x>>} /\ op.writes = {<<c, y>>}
  <2>1. "copy" \in OpKinds /\ {<<c, x>>} \in SUBSET Bufs /\ {<<c, y>>} \in SUBSET Bufs
    BY <1>1 DEF OpKinds
  <2> QED BY <2>1, OpType DEF Copy
<1> HIDE DEF op
<1>3. (CHOOSE b \in op.reads : TRUE) = <<c, x>> /\ (CHOOSE b \in op.writes : TRUE) = <<c, y>>
  BY <1>2
<1>4. Shape(op, c)
  BY <1>2 DEF Shape
<1>5. Out(op, m) = Carries(m, x, y)
  BY <1>2, <1>3 DEF Out
<1>6. In(op, m) = Carries(m, x, y)
  BY <1>2, <1>5 DEF In
<1> QED BY <1>2, <1>4, <1>5, <1>6 DEF op

\* A library operation on some roles of a call is one.
LEMMA LibraryIs ==
  ASSUME NEW c \in Calls, NEW rs \in SUBSET Roles, NEW ws \in SUBSET Roles
  PROVE  IsLibrary(Library(c, rs, ws), c, rs, ws)
<1>1. At(c, rs) \in SUBSET Bufs /\ At(c, ws) \in SUBSET Bufs
  BY DEF Bufs, At
<1>2. "library" \in OpKinds
  BY DEF OpKinds
<1> QED BY <1>1, <1>2, OpType DEF Library, IsLibrary

\* It reads the input and writes the result.
LEMMA LibraryShape ==
  ASSUME NEW op, NEW c, NEW rs, NEW ws, IsLibrary(op, c, rs, ws), NEW m
  PROVE  /\ op \in OpSet /\ Shape(op, c)
         /\ In(op, m) = "input" /\ Out(op, m) = "result"
         /\ \A b : b \in op.reads <=> \E r \in rs : b = <<c, r>>
         /\ \A b : b \in op.writes <=> \E r \in ws : b = <<c, r>>
<1>1. /\ \A b : b \in op.reads <=> \E r \in rs : b = <<c, r>>
      /\ \A b : b \in op.writes <=> \E r \in ws : b = <<c, r>>
  BY DEF IsLibrary, At
<1>2. op \in OpSet /\ op.kind = "library"
  BY DEF IsLibrary
<1>3. \A b \in Touches(op) : b[1] = c
  BY <1>1 DEF Touches
<1>4. Shape(op, c)
  BY <1>2, <1>3 DEF Shape
<1>5. In(op, m) = "input" /\ Out(op, m) = "result"
  BY <1>2 DEF In, Out
<1> QED BY <1>1, <1>2, <1>4, <1>5

\* A copy between two buffers of the call.
LEMMA DoingCopy ==
  ASSUME NEW g, NEW c \in Calls, NEW z, NEW A, NEW V, NEW W, Doing(g, c, z, A, V, W), Cov(g, c),
         NEW x \in Roles, NEW y \in Roles, <<x, Carries(Mode(z.calls, c), x, y)>> \in A,
         x \notin W, y \notin V \cup W,
         NEW A2, \A a \in A2 : \/ a \in A /\ a[1] # y
                               \/ a = <<y, Carries(Mode(z.calls, c), x, y)>>
  PROVE  LET k == Enqueue(g, "comm", Copy(<<c, x>>, <<c, y>>))
         IN Doing(k, c, z, A2, V, W) /\ Cov(k, c) /\ k.group = g.group
<1> DEFINE op == Copy(<<c, x>>, <<c, y>>)
           m == Mode(z.calls, c)
<1>1. /\ op \in OpSet /\ Shape(op, c)
      /\ op.reads = {<<c, x>>} /\ op.writes = {<<c, y>>}
      /\ In(op, m) = Carries(m, x, y) /\ Out(op, m) = Carries(m, x, y)
  BY CopyShape, SMTT(30)
<1> HIDE DEF op
<1>2. Finds(op, m, A)
  BY <1>1 DEF Finds
<1>3. Spares(op, V, W)
  BY <1>1 DEF Spares
<1>4. Leaves(op, c, m, A, A2)
  BY <1>1 DEF Leaves
<1>5. V \subseteq V /\ W \subseteq W
  OBVIOUS
<1> HIDE DEF m
<1>6. /\ Doing(Enqueue(g, "comm", op), c, z, A2, V, W) /\ Cov(Enqueue(g, "comm", op), c)
      /\ Enqueue(g, "comm", op).group = g.group
  BY <1>1, <1>2, <1>3, <1>4, <1>5, DoingEnqueue DEF m
<1> QED BY <1>6 DEF op

\* It, whether the group takes it or not.
LEMMA DoingSubmit ==
  ASSUME NEW g, NEW c \in Calls, NEW z, NEW A, NEW V, NEW W, Doing(g, c, z, A, V, W),
         NEW rs \in SUBSET Roles, NEW ws \in SUBSET Roles, NEW grouped,
         CanRead(rs, A, W), CanWrite(ws, V, W), NEW A2, Written(ws, A, A2)
  PROVE  Submits(g, Submit(g, grouped, Library(c, rs, ws)), c, z, A2, V, W,
                 V \cup rs, W \cup ws, grouped)
<1> DEFINE op == Library(c, rs, ws)
           m == Mode(z.calls, c)
           p == WaitStream(g, "comm", "cur")
           V2 == V \cup rs
           W2 == W \cup ws
<1>1. IsLibrary(op, c, rs, ws)
  BY LibraryIs
<1>2. Doing(p, c, z, A, V, W) /\ Cov(p, c) /\ p.group = g.group
  BY DoingWait
<1>3. Submit(g, grouped, op) = IF grouped /\ lib = "nccl" THEN Grouped(p, op)
                               ELSE Enqueue(p, "comm", op)
  BY DEF Submit, Grouped
<1> HIDE DEF op, p
<1>4. /\ op \in OpSet /\ Shape(op, c)
      /\ In(op, m) = "input" /\ Out(op, m) = "result"
      /\ \A b : b \in op.reads <=> \E r \in rs : b = <<c, r>>
      /\ \A b : b \in op.writes <=> \E r \in ws : b = <<c, r>>
  BY <1>1, LibraryShape
<1>5. Finds(op, m, A)
  BY <1>4 DEF Finds, CanRead
<1>6. Spares(op, V, W)
  <2>1. ASSUME NEW b \in op.reads PROVE b[2] \notin W
    <3>1. PICK r \in rs : b = <<c, r>>
      BY <1>4
    <3> QED BY <3>1 DEF CanRead
  <2>2. ASSUME NEW b \in op.writes PROVE b[2] \notin V \cup W
    <3>1. PICK r \in ws : b = <<c, r>>
      BY <1>4
    <3> QED BY <3>1 DEF CanWrite
  <2> QED BY <2>1, <2>2 DEF Spares
<1>7. Leaves(op, c, m, A, A2)
  BY <1>4 DEF Leaves, Written
<1>8. /\ V \subseteq V2 /\ W \subseteq W2
      /\ \A b \in op.reads : b[2] \in V2
      /\ \A b \in op.writes : b[2] \in W2
  BY <1>4
<1> HIDE DEF V2, W2
<1>9. Doing(Enqueue(p, "comm", op), c, z, A2, V2, W2) /\ Cov(Enqueue(p, "comm", op), c)
  BY <1>2, <1>4, <1>5, <1>6, <1>7, <1>8, DoingEnqueue
<1>12. Doing(Enqueue(p, "comm", op), c, z, A2, V, W) /\ Enqueue(p, "comm", op).group = g.group
  <2>1. V \subseteq V /\ W \subseteq W
    OBVIOUS
  <2> QED BY <1>2, <1>4, <1>5, <1>6, <1>7, <2>1, DoingEnqueue
<1>10. Doing(Grouped(p, op), c, z, A2, V2, W2) /\ Cov(Grouped(p, op), c)
  BY <1>2, <1>4, <1>5, <1>7, <1>8, DoingGroup
<1>11. Submits(g, Submit(g, grouped, op), c, z, A2, V, W, V2, W2, grouped)
  BY <1>3, <1>9, <1>10, <1>12 DEF Submits
<1> QED BY <1>11 DEF op, V2, W2

\* The group's end leaves it empty.
LEMMA DoingGroupEnd ==
  ASSUME NEW g, NEW c, NEW z, NEW A, NEW V, NEW W, Doing(g, c, z, A, V, W), Cov(g, c)
  PROVE  LET k == GroupEnd(g)
         IN Doing(k, c, z, A, {}, {}) /\ Cov(k, c) /\ k.group = <<>>
<1> DEFINE k == GroupEnd(g)
           m == Mode(z.calls, c)
           N == z.now
<1>1. g \in Hosts /\ Part(g, c, m, N, A, V, W) /\ Others(g, c, z)
  BY DEF Doing
<1>2. /\ k \in Hosts /\ Orders(g, k) /\ k.group = <<>>
      /\ k.pairs = g.pairs /\ k.block = g.block
      /\ Len(Line(k)) = Len(Line(g))
      /\ \A i \in 1..Len(Line(g)) : Alike(Line(k)[i], Line(g)[i])
  BY <1>1, GroupEndLine
<1> HIDE DEF k, m, N
<1>3. Others(k, c, z)
  BY <1>1, <1>2, OthersSame
<1>4. \A B : Carry(g, k, c, m, N, B)
  BY <1>1, <1>2, CarrySame
<1>5. Flows(Line(k), c, m, N)
  BY <1>1, <1>4, CarryFlows DEF Part
<1>6. Ahead(k, c)
  BY <1>1, <1>2, <1>4, CarryAhead DEF Part, Cov
<1>7. \A a \in A : a[2] \in Vals /\ Ends(Line(k), <<c, a[1]>>, a[2], m, N)
  <2> TAKE a \in A
  <2> DEFINE b == <<c, a[1]>>
  <2>1. a[2] \in Vals /\ Ends(Line(g), b, a[2], m, N)
    BY <1>1 DEF Part
  <2>2. a[2] \in Vals => Ends(Line(k), b, a[2], m, N)
    <3>1. Carry(g, k, c, m, N, {b})
      BY <1>4
    <3> QED BY <2>1, <3>1 DEF Carry
  <2> QED BY <2>1, <2>2
<1>8. Part(k, c, m, N, A, {}, {}) /\ Cov(k, c)
  BY <1>2, <1>5, <1>6, <1>7, CovLater DEF Part, Within
<1> QED BY <1>2, <1>3, <1>8 DEF Doing, k, m, N

-----------------------------------------------------------------------------
(* Copies back.                                                            *)

\* An operation of another call behind all of the line.
LEMMA PartOther ==
  ASSUME NEW g \in Hosts, NEW k \in Hosts, Orders(g, k), NEW op,
         Inserted(Line(g), Line(k), Len(Line(g)) + 1, op), k.group = g.group,
         NEW c, ~Of(op, c), NEW m, NEW N, NEW A, NEW V, NEW W, Part(g, c, m, N, A, V, W),
         Cov(g, c), \A a \in A : <<c, a[1]>> \notin op.writes
  PROVE  Part(k, c, m, N, A, V, W) /\ Cov(k, c)
<1> DEFINE x == Len(Line(g)) + 1
           n == Len(Line(g))
           B == {<<c, a[1]>> : a \in A}
<1>1. x > Len(g.q["comm"]) /\ n \in Nat /\ x = n + 1
  <2> DEFINE q == Len(g.q["comm"])
             w == Len(g.group)
  <2>1. n = q + w /\ n \in Nat /\ q \in Nat /\ w \in Nat
    BY LineFields
  <2>2. x = n + 1
    OBVIOUS
  <2> HIDE DEF n, x, q, w
  <2>3. x > q /\ n \in Nat /\ x = n + 1
    BY <2>1, <2>2
  <2> QED BY <2>3 DEF q
<1>2. \A i \in x..Len(Line(g)) : Of(Line(g)[i], c) => Line(g)[i].reads \cap op.writes = {}
  <2>1. \A i \in x..n : FALSE
    <3> HIDE DEF n, x
    <3> QED BY <1>1
  <2> QED BY <2>1
<1>3. B \cap op.writes = {}
  OBVIOUS
<1>4. Inserted(Line(g), Line(k), x, op)
  OBVIOUS
<1> HIDE DEF x, n, B
<1>5. Carry(g, k, c, m, N, B)
  BY <1>1, <1>2, <1>3, <1>4, CarryInserted
<1>6. Flows(Line(k), c, m, N)
  BY <1>5, CarryFlows DEF Part
<1>7. Ahead(k, c)
  BY <1>5, CarryAhead DEF Part, Cov
<1>8. \A a \in A : a[2] \in Vals /\ Ends(Line(k), <<c, a[1]>>, a[2], m, N)
  <2> TAKE a \in A
  <2> DEFINE b == <<c, a[1]>>
             v == a[2]
  <2>1. v \in Vals /\ Ends(Line(g), b, v, m, N)
    BY DEF Part
  <2>2. b \in B
    BY DEF B
  <2> HIDE DEF b, v
  <2>3. Ends(Line(k), b, v, m, N)
    BY <1>5, <2>1, <2>2 DEF Carry
  <2> QED BY <2>1, <2>3 DEF b, v
<1>9. Within(k, c, V, W)
  BY DEF Part, Within
<1> QED BY <1>6, <1>7, <1>8, <1>9, CovLater DEF Part

\* A copy back is an operation of its call, at the end of the line.
LEMMA ReturnInserted ==
  ASSUME NEW k \in Hosts, NEW Q, Backs(Q), NEW p \in Q, NEW m
  PROVE  LET op == Copy(p[2], p[1])
             r == Return(k, p)
         IN /\ op \in OpSet /\ Shape(op, p[1][1]) /\ op.writes = {p[1]} /\ op.reads = {p[2]}
            /\ In(op, m) = Brings(m, p) /\ Out(op, m) = Brings(m, p)
            /\ r \in Hosts /\ Orders(k, r) /\ Aside(k, r)
            /\ Inserted(Line(k), Line(r), Len(k.q["comm"]) + 1, op)
<1> DEFINE c == p[1][1]
           x == p[2][2]
           y == p[1][2]
           op == Copy(p[2], p[1])
<1>1. /\ c \in Calls /\ x \in Roles /\ y \in Roles
      /\ p[2] = <<c, x>> /\ p[1] = <<c, y>>
  BY BufFacts, RoleFacts DEF Backs
<1>2. op = Copy(<<c, x>>, <<c, y>>) /\ Brings(m, p) = Carries(m, x, y)
  BY <1>1 DEF Brings
<1> HIDE DEF c, x, y
<1>3. /\ op \in OpSet /\ Shape(op, c) /\ op.writes = {<<c, y>>} /\ op.reads = {<<c, x>>}
      /\ In(op, m) = Carries(m, x, y) /\ Out(op, m) = Carries(m, x, y)
  <2> DEFINE o == Copy(<<c, x>>, <<c, y>>)
  <2>1. /\ o \in OpSet /\ Shape(o, c) /\ o.writes = {<<c, y>>} /\ o.reads = {<<c, x>>}
        /\ In(o, m) = Carries(m, x, y) /\ Out(o, m) = Carries(m, x, y)
    <3>1. c \in Calls /\ x \in Roles /\ y \in Roles
      BY <1>1
    <3> QED BY <3>1, CopyShape, SMTT(30)
  <2>2. o = op
    BY <1>2
  <2> HIDE DEF o, op
  <2> QED BY <2>1, <2>2
<1>4. Return(k, p) = Enqueue(k, "comm", op)
  BY DEF Return
<1> HIDE DEF op
<1>5. /\ Return(k, p) \in Hosts /\ Orders(k, Return(k, p)) /\ Aside(k, Return(k, p))
      /\ Inserted(Line(k), Line(Return(k, p)), Len(k.q["comm"]) + 1, op)
  BY <1>3, <1>4, EnqueueInserted
<1> QED BY <1>1, <1>2, <1>3, <1>5 DEF op, c

\* One more copy back of a call.
LEMMA HalfNext ==
  ASSUME NEW k \in Hosts, k.group = <<>>, NEW Q, Backs(Q), NEW p \in Q, NEW s \in SUBSET Q,
         NEW d, NEW m, NEW N, NEW A0, Half(k, d, m, N, A0, Q, s)
  PROVE  Half(Return(k, p), d, m, N, A0, Q, s \cup {p})
<1> DEFINE r == Return(k, p)
           op == Copy(p[2], p[1])
           x == Len(k.q["comm"]) + 1
           v == Brings(m, p)
<1>1. /\ op \in OpSet /\ Shape(op, p[1][1]) /\ op.writes = {p[1]} /\ op.reads = {p[2]}
      /\ In(op, m) = v /\ Out(op, m) = v
      /\ r \in Hosts /\ Orders(k, r) /\ Aside(k, r)
      /\ Inserted(Line(k), Line(r), x, op)
  BY ReturnInserted
<1>2. x > Len(k.q["comm"]) /\ x = Len(Line(k)) + 1 /\ ~(x <= Len(Line(k))) /\ r.group = <<>>
  <2> DEFINE n == Len(k.q["comm"])
             l == Len(Line(k))
  <2>1. l = n + Len(k.group) /\ l \in Nat /\ n \in Nat /\ Len(k.group) = 0
    BY LineFields
  <2>2. x = n + 1
    OBVIOUS
  <2> HIDE DEF n, l, x
  <2>3. x > n /\ x = l + 1 /\ ~(x <= l)
    BY <2>1, <2>2
  <2> QED BY <1>1, <2>3 DEF n, l, Aside
<1>3. p[2] = <<p[1][1], p[2][2]>> /\ p[1] = <<p[1][1], p[1][2]>>
      /\ \A q \in Q : q[2][2] # p[1][2]
  BY BufFacts DEF Backs, Internal
<1>4. PICK A : /\ Part(k, d, m, N, A, {}, {}) /\ Cov(k, d)
               /\ \A q \in Q : q[1][1] = d => <<q[2][2], Brings(m, q)>> \in A
               /\ \A q \in s : q[1][1] = d =>
                    \E t \in Q : t[1] = q[1] /\ <<q[1][2], Brings(m, t)>> \in A
               /\ \A a \in A0 : (\A q \in Q : q[1] # <<d, a[1]>>) => a \in A
  BY DEF Half
<1> HIDE DEF r, op, x
<1>5. CASE p[1][1] = d
  <2> DEFINE A2 == {a \in A : a[1] # p[1][2]} \cup {<<p[1][2], v>>}
  <2>1. Finds(op, m, A)
    BY <1>1, <1>4, <1>5 DEF Finds
  <2>2. Leaves(op, d, m, A, A2)
    BY <1>1, <1>3, <1>5 DEF Leaves
  <2>3. Within(r, d, {}, {})
    BY <1>2 DEF Within
  <2>4. x <= Len(Line(k)) => Spares(op, {}, {})
    BY <1>2
  <2>9. k \in Hosts /\ Shape(op, d)
    BY <1>1, <1>5
  <2>5. Part(r, d, m, N, A2, {}, {}) /\ Cov(r, d)
    <3> HIDE DEF A2, v
    <3> QED BY <1>1, <1>2, <1>4, <2>1, <2>2, <2>3, <2>4, <2>9, PartInserted
  <2>6. \A q \in Q : q[1][1] = d => <<q[2][2], Brings(m, q)>> \in A2
    BY <1>3, <1>4
  <2>7. ASSUME NEW q \in s \cup {p}, q[1][1] = d
        PROVE  \E t \in Q : t[1] = q[1] /\ <<q[1][2], Brings(m, t)>> \in A2
    <3>1. CASE q[1] = p[1]
      BY <3>1
    <3>2. CASE q[1] # p[1]
      <4>1. q \in s /\ q \in Q /\ q[1] = <<d, q[1][2]>>
        BY <2>7, <3>2, BufFacts DEF Backs
      <4>2. q[1][2] # p[1][2]
        BY <1>3, <1>5, <3>2, <4>1
      <4>3. PICK t \in Q : t[1] = q[1] /\ <<q[1][2], Brings(m, t)>> \in A
        BY <1>4, <2>7, <4>1
      <4> QED BY <4>2, <4>3
    <3> QED BY <3>1, <3>2
  <2>8. \A a \in A0 : (\A q \in Q : q[1] # <<d, a[1]>>) => a \in A2
    BY <1>3, <1>4, <1>5
  <2> HIDE DEF A2
  <2> QED BY <2>5, <2>6, <2>7, <2>8 DEF Half, r
<1>6. CASE p[1][1] # d
  <2>1. ~Of(op, d)
    BY <1>1, <1>6, ShapeTouches
  <2>2. \A a \in A : <<d, a[1]>> \notin op.writes
    BY <1>1, <1>3, <1>6
  <2>3. r.group = k.group
    BY <1>2
  <2>4. Part(r, d, m, N, A, {}, {}) /\ Cov(r, d)
    BY <1>1, <1>2, <1>4, <2>1, <2>2, <2>3, PartOther
  <2>5. \A q \in s \cup {p} : q[1][1] = d =>
                    \E t \in Q : t[1] = q[1] /\ <<q[1][2], Brings(m, t)>> \in A
    BY <1>4, <1>6
  <2> QED BY <1>4, <2>4, <2>5 DEF Half, r
<1> QED BY <1>5, <1>6

\* One more copy back, of whichever call.
LEMMA ReturningNext ==
  ASSUME NEW g \in Hosts, g.group = <<>>, NEW z, NEW D, NEW A0, NEW Q, Backs(Q),
         \A p \in Q : p[1][1] \in D \/ Idle(z.calls, p[1][1]),
         NEW k, NEW s \in SUBSET Q, Returning(k, g, z, D, A0, Q, s), NEW p \in Q
  PROVE  Returning(Return(k, p), g, z, D, A0, Q, s \cup {p})
<1> DEFINE r == Return(k, p)
           op == Copy(p[2], p[1])
           c == p[1][1]
           x == Len(k.q["comm"]) + 1
<1>1. k \in Hosts /\ Aside(g, k) /\ Sides(k, z.calls) /\ k.group = <<>>
  BY DEF Returning, Aside
<1>2. /\ op \in OpSet /\ Shape(op, c)
      /\ r \in Hosts /\ Orders(k, r) /\ Aside(k, r)
      /\ Inserted(Line(k), Line(r), x, op)
  BY <1>1, ReturnInserted
<1>3. x > Len(k.q["comm"])
  BY <1>1, LineFields
<1>4. r.pairs = k.pairs /\ Aside(g, r)
  BY <1>1, <1>2 DEF Aside
<1>5. op.kind \in {"copy", "library", "release"}
  BY <1>2, ShapeTouches
<1> HIDE DEF r, op, x
<1>6. Sides(r, z.calls)
  BY <1>1, <1>2, <1>4, <1>5, SidesInserted
<1>7. ASSUME NEW d \in Calls
      PROVE  IF d \in D THEN Half(r, d, Mode(z.calls, d), z.now, A0[d], Q, s \cup {p})
             ELSE Sound(r, d, z.calls[d], Mode(z.calls, d), z.now, z.refs)
  <2>1. CASE d \in D
    <3>1. Half(k, d, Mode(z.calls, d), z.now, A0[d], Q, s)
      BY <2>1 DEF Returning
    <3> QED BY <1>1, <2>1, <3>1, HalfNext DEF r
  <2>2. CASE d \notin D /\ d = c
    BY <2>2 DEF Idle, Sound
  <2>3. CASE d \notin D /\ d # c
    <3>1. Sound(k, d, z.calls[d], Mode(z.calls, d), z.now, z.refs)
      BY <2>3 DEF Returning
    <3> HIDE DEF c
    <3> QED BY <1>1, <1>2, <1>3, <1>4, <2>3, <3>1, SoundOther
  <2> QED BY <2>1, <2>2, <2>3
<1> QED BY <1>2, <1>4, <1>6, <1>7 DEF Returning, r

\* All of them.
LEMMA CopyBackReturns ==
  ASSUME NEW g \in Hosts, g.group = <<>>, NEW P \in SUBSET (Bufs \X Bufs), Backs(Differ(P)),
         NEW z, NEW D, NEW A0, Returning(g, g, z, D, A0, Differ(P), {}),
         \A p \in Differ(P) : p[1][1] \in D \/ Idle(z.calls, p[1][1])
  PROVE  Returning(CopyBack(g, P), g, z, D, A0, Differ(P), Differ(P))
<1> DEFINE Q == Differ(P)
           R == {x \in Hosts \X SUBSET Q : Returning(x[1], g, z, D, A0, Q, x[2])}
<1>1. <<g, {}>> \in R
  OBVIOUS
<1>2. ASSUME NEW s \in SUBSET Q, NEW p \in Q, NEW k \in Hosts, <<k, s>> \in R
      PROVE  <<Return(k, p), s \cup {p}>> \in R
  <2>1. Returning(k, g, z, D, A0, Q, s)
    BY <1>2
  <2> HIDE DEF R, Q
  <2>2. Returning(Return(k, p), g, z, D, A0, Q, s \cup {p})
    BY <2>1, ReturningNext DEF Q
  <2>3. Return(k, p) \in Hosts
    BY <2>2 DEF Returning
  <2> QED BY <2>2, <2>3 DEF R
<1>3. \A s \in SUBSET Differ(P), p \in Differ(P), k \in Hosts :
           p \notin s /\ <<k, s>> \in R => <<Return(k, p), s \cup {p}>> \in R
  BY <1>2
<1> HIDE DEF R, Q
<1>4. <<CopyBack(g, P), Differ(P)>> \in R
  BY <1>1, <1>3, CopyBackKept
<1> QED BY <1>4 DEF R, Q

\* Deferring copies back of call c, or forgetting them, concerns no other call.
LEMMA OthersPairs ==
  ASSUME NEW g \in Hosts, NEW k \in Hosts, k.q = g.q, k.waits = g.waits, k.group = g.group,
         NEW c, NEW z, Others(g, c, z),
         \A p : p[1][1] # c => (p \in g.pairs <=> p \in k.pairs),
         \A p \in k.pairs : p[1][1] = p[2][1] /\ p[1][2] \in UserRoles
  PROVE  Others(k, c, z)
<1>1. Sides(k, z.calls)
  <2>1. Sides(g, z.calls) /\ Line(k) = Line(g)
    BY DEF Others, Line
  <2> QED BY <2>1 DEF Sides, Queued
<1>2. Orders(g, k) /\ Line(k) = Line(g)
  <2>1. g.waits["comm"]["cur"] \in Nat
    BY HostTypes, StreamNames
  <2> QED BY <2>1, OrdersSame DEF Line
<1>3. ASSUME NEW d \in Calls \ {c}
      PROVE  Sound(k, d, z.calls[d], Mode(z.calls, d), z.now, z.refs)
  <2>1. SamePairs(g, k, d)
    BY DEF SamePairs
  <2>2. Sound(g, d, z.calls[d], Mode(z.calls, d), z.now, z.refs)
    BY DEF Others
  <2>3. Len(Line(k)) = Len(Line(g)) /\ \A i \in 1..Len(Line(g)) : Alike(Line(k)[i], Line(g)[i])
    BY <1>2 DEF Alike
  <2> QED BY <1>2, <2>1, <2>2, <2>3, SoundSame
<1> QED BY <1>1, <1>3 DEF Others

\* What a part of a collective leaves is what the line ends with.
LEMMA PartEnds ==
  ASSUME NEW g, NEW c, NEW m, NEW N, NEW A, NEW V, NEW W, Part(g, c, m, N, A, V, W),
         NEW r, NEW v, <<r, v>> \in A
  PROVE  Ends(Line(g), <<c, r>>, v, m, N)
<1> DEFINE a == <<r, v>>
<1>1. a \in A /\ a[1] = r /\ a[2] = v
  OBVIOUS
<1> HIDE DEF a
<1> QED BY <1>1 DEF Part

\* Nothing has to be copied back.
LEMMA DoingDelivers ==
  ASSUME NEW g, NEW c, NEW z, NEW A, NEW V, NEW W, Doing(g, c, z, A, V, W), Cov(g, c),
         Promises({}, c, Mode(z.calls, c), A)
  PROVE  Given(g, c, z)
<1> DEFINE m == Mode(z.calls, c)
<1>1. \A r \in Outputs(m[1]) : Result(Line(g), c, r, m, z.now)
  <2> TAKE r \in Outputs(m[1])
  <2>1. PICK v \in Expected(m[1], r) : <<r, v>> \in A
    BY DEF Promises
  <2> HIDE DEF m
  <2> QED BY <2>1, PartEnds DEF Result, Doing, m
<1>2. Delivers(g, c, z, {})
  BY <1>1 DEF Delivers, Doing, Part
<1> QED BY <1>2 DEF Given

\* The block defers the copies back.
LEMMA Defers ==
  ASSUME NEW g, NEW c, NEW z, NEW A, NEW V, NEW W, Doing(g, c, z, A, V, W), Cov(g, c), z.block,
         NEW P \in SUBSET (Bufs \X Bufs), Bringing(P, c, Mode(z.calls, c), A),
         Promises(P, c, Mode(z.calls, c), A)
  PROVE  Given([g EXCEPT !.pairs = @ \cup P], c, z)
<1> DEFINE k == [g EXCEPT !.pairs = @ \cup P]
           m == Mode(z.calls, c)
<1>1. g \in Hosts /\ Part(g, c, m, z.now, A, V, W) /\ Others(g, c, z)
      /\ g.block = z.block /\ g.pairs = z.pairs
  BY DEF Doing
<1>2. /\ k \in Hosts /\ k.q = g.q /\ k.waits = g.waits /\ k.group = g.group /\ k.block = g.block
      /\ k.pairs = g.pairs \cup P
  BY <1>1 DEF Hosts
<1>3. \A p \in P : p[1] \in Bufs /\ p[1][1] = c /\ p[2][1] = c /\ p[1][2] \in UserRoles
  BY DEF Bringing
<1> HIDE DEF k, m
<1>4. Others(k, c, z)
  <2>1. \A p : p[1][1] # c => (p \in g.pairs <=> p \in k.pairs)
    BY <1>2, <1>3
  <2>2. \A p \in k.pairs : p[1][1] = p[2][1] /\ p[1][2] \in UserRoles
    BY <1>1, <1>2, <1>3 DEF Others, Sides
  <2> QED BY <1>1, <1>2, <2>1, <2>2, OthersPairs
<1>5. Line(k) = Line(g)
  BY <1>2 DEF Line
<1>6. Flows(Line(k), c, m, z.now) /\ Ahead(k, c) /\ Cov(k, c)
  BY <1>1, <1>2, <1>5 DEF Part, Ahead, Cov, Covered, Reaches, Makes, Queued
<1>7. \A r \in Outputs(m[1]) :
        (\E p \in P : p[1] # p[2] /\ p[1] = <<c, r>>) \/ Result(Line(k), c, r, m, z.now)
  <2> TAKE r \in Outputs(m[1])
  <2>1. CASE \E v \in Expected(m[1], r) : <<r, v>> \in A
    BY <1>1, <1>5, <2>1, PartEnds DEF Result
  <2> QED BY <2>1 DEF Promises, m
<1>8. ASSUME NEW p \in P, p[1] # p[2]
      PROVE  Brings(m, p) \in Expected(m[1], p[1][2]) /\ Ends(Line(k), p[2], Brings(m, p), m, z.now)
  <2>1. /\ Brings(m, p) \in Expected(m[1], p[1][2]) /\ <<p[2][2], Brings(m, p)>> \in A
        /\ p[2] \in Bufs /\ p[2][1] = c
    BY <1>8 DEF Bringing, m
  <2>2. p[2] = <<c, p[2][2]>>
    BY <2>1, BufFacts
  <2>3. Ends(Line(g), <<c, p[2][2]>>, Brings(m, p), m, z.now)
    BY <1>1, <2>1, PartEnds
  <2> QED BY <1>5, <2>1, <2>2, <2>3
<1>9. Delivers(k, c, z, P)
  BY <1>1, <1>2, <1>3, <1>4, <1>6, <1>7, <1>8 DEF Delivers, m
<1> QED BY <1>9 DEF Given, k

\* Outside one they are made.
LEMMA Returns ==
  ASSUME NEW g, NEW c \in Calls, NEW z, NEW A, NEW V, NEW W, Doing(g, c, z, A, V, W), Cov(g, c),
         g.group = <<>>,
         NEW P \in SUBSET (Bufs \X Bufs), Bringing(P, c, Mode(z.calls, c), A),
         Promises(P, c, Mode(z.calls, c), A)
  PROVE  Given(CopyBack(g, P), c, z)
<1> DEFINE k == CopyBack(g, P)
           Q == Differ(P)
           m == Mode(z.calls, c)
           N == z.now
           A0 == [d \in {c} |-> A]
<1>1. g \in Hosts /\ Part(g, c, m, N, A, V, W) /\ Others(g, c, z)
      /\ g.block = z.block /\ g.pairs = z.pairs
  BY DEF Doing
<1>2. Backs(Q)
  BY DEF Bringing, Backs, Differ
<1>3. \A p \in Q : p[1][1] \in {c}
  BY DEF Bringing, Differ
<1>4. Half(g, c, m, N, A0[c], Q, {})
  <2>1. Part(g, c, m, N, A, {}, {})
    BY <1>1 DEF Part, Within
  <2>2. \A p \in Q : p[1][1] = c => <<p[2][2], Brings(m, p)>> \in A
    BY DEF Bringing, Differ
  <2>3. A0[c] = A
    OBVIOUS
  <2> HIDE DEF A0, Q, m, N
  <2> QED BY <2>1, <2>2, <2>3 DEF Half
<1>5. Returning(g, g, z, {c}, A0, Q, {})
  BY <1>1, <1>4 DEF Returning, Others, Aside
<1> HIDE DEF A0
<1>6. Returning(k, g, z, {c}, A0, Q, Q)
  BY <1>1, <1>2, <1>3, <1>5, CopyBackReturns
<1> HIDE DEF k
<1>7. k \in Hosts /\ Aside(g, k) /\ Half(k, c, m, N, A0[c], Q, Q) /\ Others(k, c, z)
  BY <1>6 DEF Returning, Others
<1>8. PICK B : /\ Part(k, c, m, N, B, {}, {}) /\ Cov(k, c)
               /\ \A p \in Q : p[1][1] = c =>
                    \E q \in Q : q[1] = p[1] /\ <<p[1][2], Brings(m, q)>> \in B
               /\ \A a \in A0[c] : (\A p \in Q : p[1] # <<c, a[1]>>) => a \in B
  BY <1>7 DEF Half
<1>9. A0[c] = A
  BY DEF A0
<1> HIDE DEF m, N
<1>10. ASSUME NEW r \in Outputs(m[1]) PROVE Result(Line(k), c, r, m, N)
  <2>1. CASE \E p \in Q : p[1] = <<c, r>>
    <3>1. PICK p \in Q : p[1] = <<c, r>>
      BY <2>1
    <3>4. p[1][1] = c /\ p[1][2] = r
      BY <3>1
    <3> HIDE DEF Q
    <3>2. PICK q \in Q : q[1] = p[1] /\ <<p[1][2], Brings(m, q)>> \in B
      BY <1>8, <3>4
    <3>5. q \in P /\ q[1] # q[2] /\ q[1][2] = r
      BY <3>2, <3>4 DEF Q, Differ
    <3>3. Brings(m, q) \in Expected(m[1], r) /\ <<r, Brings(m, q)>> \in B
      BY <3>2, <3>4, <3>5 DEF Bringing, m
    <3> QED BY <1>8, <3>3, PartEnds DEF Result
  <2>2. CASE \A p \in Q : p[1] # <<c, r>>
    <3>1. PICK v \in Expected(m[1], r) : <<r, v>> \in A
      BY <2>2 DEF Promises, Differ, m
    <3>2. <<r, v>>[1] = r
      OBVIOUS
    <3>3. <<r, v>> \in B
      BY <1>8, <1>9, <2>2, <3>1, <3>2
    <3> QED BY <1>8, <3>1, <3>3, PartEnds DEF Result
  <2> QED BY <2>1, <2>2
<1>11. k.block = z.block /\ k.pairs = z.pairs
  BY <1>1, <1>7 DEF Aside
<1>12. Delivers(k, c, z, {})
  BY <1>7, <1>8, <1>10, <1>11 DEF Delivers, Part, m, N
<1> QED BY <1>12 DEF Given, k

\* Bookkeeping keeps what is given.
LEMMA GivenSame ==
  ASSUME NEW g, NEW c, NEW z, Given(g, c, z), NEW k \in Hosts,
         k.q = g.q, k.waits = g.waits, k.group = g.group, k.pairs = g.pairs, k.block = g.block
  PROVE  Given(k, c, z)
<1>1. PICK P : Delivers(g, c, z, P) /\ (z.block \/ P = {})
  BY DEF Given
<1>2. Line(k) = Line(g) /\ g \in Hosts /\ Others(g, c, z)
  BY <1>1 DEF Line, Delivers
<1>3. Others(k, c, z)
  <2>1. \A p \in k.pairs : p[1][1] = p[2][1] /\ p[1][2] \in UserRoles
    BY <1>2 DEF Others, Sides
  <2>2. \A p : p[1][1] # c => (p \in g.pairs <=> p \in k.pairs)
    OBVIOUS
  <2> QED BY <1>2, <2>1, <2>2, OthersPairs
<1>4. Ahead(g, c) /\ Cov(g, c) => Ahead(k, c) /\ Cov(k, c)
  BY DEF Ahead, Cov, Covered, Reaches, Makes, Queued
<1>5. Delivers(k, c, z, P)
  BY <1>1, <1>2, <1>3, <1>4 DEF Delivers
<1> QED BY <1>1, <1>5 DEF Given

\* record_stream enqueues nothing and waits for nothing.
LEMMA RecordStreamSame ==
  ASSUME NEW g \in Hosts, NEW bufs
  PROVE  LET k == RecordStream(g, bufs, "comm")
         IN /\ k \in Hosts /\ k.q = g.q /\ k.waits = g.waits /\ k.group = g.group
            /\ k.pairs = g.pairs /\ k.block = g.block
<1>1. "comm" \in Streams
  BY DEF Streams
<1> QED BY <1>1 DEF RecordStream, Hosts

\* Nor does it when it is deferred.
LEMMA RecordSame ==
  ASSUME NEW g \in Hosts, NEW bufs \in SUBSET Bufs
  PROVE  LET k == Record(g, bufs)
         IN /\ k \in Hosts /\ k.q = g.q /\ k.waits = g.waits /\ k.group = g.group
            /\ k.pairs = g.pairs /\ k.block = g.block
<1>1. CASE g.block
  <2>1. [g EXCEPT !.records = @ \cup bufs] \in Hosts
    BY DEF Hosts
  <2> QED BY <1>1, <2>1 DEF Record, Hosts
<1>2. CASE ~g.block
  BY <1>2, RecordStreamSame DEF Record
<1> QED BY <1>1, <1>2

\* Record is only bookkeeping, after the call's operations or amid them.
LEMMA GivenRecord ==
  ASSUME NEW g, NEW c, NEW z, Given(g, c, z), NEW bufs \in SUBSET Bufs
  PROVE  Given(Record(g, bufs), c, z)
<1>1. g \in Hosts
  BY DEF Given, Delivers
<1> DEFINE k == Record(g, bufs)
<1>2. /\ k \in Hosts /\ k.q = g.q /\ k.waits = g.waits /\ k.group = g.group
      /\ k.pairs = g.pairs /\ k.block = g.block
  BY <1>1, RecordSame
<1> HIDE DEF k
<1>3. Given(k, c, z)
  BY <1>2, GivenSame
<1> QED BY <1>3 DEF k

\* So a collective goes on after it as before.
LEMMA DoingRecord ==
  ASSUME NEW g, NEW c, NEW z, NEW A, NEW V, NEW W, Doing(g, c, z, A, V, W), Cov(g, c),
         NEW bufs \in SUBSET Bufs
  PROVE  LET k == Record(g, bufs)
         IN Doing(k, c, z, A, V, W) /\ Cov(k, c) /\ k.group = g.group
<1>1. g \in Hosts
  BY DEF Doing
<1> DEFINE k == Record(g, bufs)
<1>2. /\ k \in Hosts /\ k.q = g.q /\ k.waits = g.waits /\ k.group = g.group
      /\ k.pairs = g.pairs /\ k.block = g.block
  BY <1>1, RecordSame
<1>3. g.waits["comm"]["cur"] \in Nat
  BY <1>1, HostTypes, StreamNames
<1> HIDE DEF k
<1>4. Doing(k, c, z, A, V, W) /\ Cov(k, c)
  BY <1>2, <1>3, DoingSame
<1> QED BY <1>2, <1>4 DEF k

\* Finish, in a block or outside one.
LEMMA FinishDelivers ==
  ASSUME NEW g, NEW c \in Calls, NEW z, NEW A, NEW V, NEW W, Doing(g, c, z, A, V, W), Cov(g, c),
         z.block \/ g.group = <<>>,
         NEW P \in SUBSET (Bufs \X Bufs), Bringing(P, c, Mode(z.calls, c), A),
         Promises(P, c, Mode(z.calls, c), A)
  PROVE  Given(Finish(g, P), c, z)
<1>1. g.block = z.block /\ g \in Hosts
  BY DEF Doing
<1>2. CASE z.block
  <2>1. Finish(g, P) = [g EXCEPT !.pairs = @ \cup P]
    BY <1>1, <1>2 DEF Finish
  <2> QED BY <1>2, <2>1, Defers
<1>3. CASE ~z.block
  <2> DEFINE r == CopyBack(g, P)
             k == RecordStream(r, {p[1] : p \in P}, "comm")
  <2>1. Finish(g, P) = k
    BY <1>1, <1>3 DEF Finish
  <2>2. Given(r, c, z)
    BY <1>3, Returns
  <2> HIDE DEF r
  <2>3. r \in Hosts
    BY <2>2 DEF Given, Delivers
  <2>4. /\ k \in Hosts /\ k.q = r.q /\ k.waits = r.waits /\ k.group = r.group
        /\ k.pairs = r.pairs /\ k.block = r.block
    BY <2>3, RecordStreamSame
  <2> HIDE DEF k
  <2> QED BY <2>1, <2>2, <2>4, GivenSame
<1> QED BY <1>2, <1>3

\* Which buffer the library sees of each tensor.
LEMMA StageFacts ==
  ASSUME strided \in BOOLEAN
  PROVE  /\ \A c, r : Staged(c, r) = <<c, Stage(r)>>
         /\ Stage("in") = (IF strided THEN "sin" ELSE "in")
         /\ Stage("out") = (IF strided THEN "sout" ELSE "out")
         /\ Stage("own") = (IF strided THEN "sown" ELSE "own")
         /\ Stage("in") \in Roles /\ Stage("out") \in Roles /\ Stage("own") \in Roles
         /\ "flat" \in Roles /\ "in" \in Roles
BY DEF Staged, Stage, StageOf, Roles, UserRoles

\* The input, dense.
LEMMA DoingStageIn ==
  ASSUME NEW g, NEW c \in Calls, NEW z, NEW A, Doing(g, c, z, A, {}, {}), strided \in BOOLEAN,
         <<"in", "input">> \in A
  PROVE  LET k == StageIn(g, c)
         IN /\ Doing(k, c, z, {<<Stage("in"), "input">>}, {}, {}) /\ k.group = g.group
            /\ Cov(g, c) => Cov(k, c)
<1> DEFINE A2 == {<<Stage("in"), "input">>}
           m == Mode(z.calls, c)
<1>1. CASE ~strided
  <2>1. StageIn(g, c) = g /\ A2 = {<<"in", "input">>}
    BY <1>1, StageFacts DEF StageIn
  <2>2. Doing(g, c, z, A2, {}, {})
    BY <2>1 DEF Doing, Part
  <2> QED BY <2>1, <2>2
<1>2. CASE strided
  <2> DEFINE p == WaitStream(g, "comm", "cur")
             k == Enqueue(p, "comm", Copy(<<c, "in">>, <<c, "sin">>))
  <2>1. StageIn(g, c) = k
    BY <1>2 DEF StageIn
  <2>2. Doing(p, c, z, A, {}, {}) /\ Cov(p, c) /\ p.group = g.group
    BY DoingWait
  <2>3. "in" \in Roles /\ "sin" \in Roles /\ Carries(m, "in", "sin") = "input"
    BY DEF Roles, UserRoles, Carries
  <2>4. A2 = {<<"sin", "input">>}
    BY <1>2, StageFacts
  <2> HIDE DEF p, m
  <2>5. \A a \in A2 : (a \in A /\ a[1] # "sin") \/ a = <<"sin", Carries(m, "in", "sin")>>
    BY <2>3, <2>4
  <2>6. <<"in", Carries(m, "in", "sin")>> \in A
    BY <2>3
  <2> HIDE DEF A2
  <2>7. Doing(k, c, z, A2, {}, {}) /\ Cov(k, c) /\ k.group = p.group
    BY <2>2, <2>3, <2>5, <2>6, DoingCopy DEF m
  <2> HIDE DEF k
  <2> QED BY <2>1, <2>2, <2>7 DEF A2
<1> QED BY <1>1, <1>2

\* The copies back of the tensors.
LEMMA PairsBring ==
  ASSUME NEW c \in Calls, strided \in BOOLEAN, NEW m, Outputs(m[1]) \subseteq UserRoles,
         NEW A, \A r \in Outputs(m[1]) :
           IF strided THEN /\ Carries(m, StageOf[r], r) \in Expected(m[1], r)
                           /\ <<StageOf[r], Carries(m, StageOf[r], r)>> \in A
           ELSE \E v \in Expected(m[1], r) : <<r, v>> \in A
  PROVE  LET P == Pairs(c, Outputs(m[1]))
         IN /\ P \in SUBSET (Bufs \X Bufs) /\ Bringing(P, c, m, A) /\ Promises(P, c, m, A)
<1> DEFINE O == Outputs(m[1])
           P == Pairs(c, O)
<1>1. \A r \in O : r \in UserRoles /\ r \in Roles /\ StageOf[r] \in Internal /\ StageOf[r] \in Roles
  BY RoleFacts DEF Internal
<1>2. \A r \in O : <<c, r>> \in Bufs /\ Staged(c, r) \in Bufs
                   /\ Staged(c, r) = (IF strided THEN <<c, StageOf[r]>> ELSE <<c, r>>)
  BY <1>1 DEF Bufs, Staged
<1>3. \A p \in P : \E r \in O : p = <<<<c, r>>, Staged(c, r)>>
  BY DEF Pairs
<1>4. \A r \in O : <<<<c, r>>, Staged(c, r)>> \in P
  BY DEF Pairs
<1> HIDE DEF P
<1>5. P \in SUBSET (Bufs \X Bufs)
  BY <1>2, <1>3
<1>6. Bringing(P, c, m, A)
  <2> SUFFICES ASSUME NEW p \in P
      PROVE /\ p[1] \in Bufs /\ p[2] \in Bufs /\ p[1][1] = c /\ p[2][1] = c
            /\ p[1][2] \in UserRoles
            /\ p[1] # p[2] => /\ p[2][2] \in Internal
                              /\ Brings(m, p) \in Expected(m[1], p[1][2])
                              /\ <<p[2][2], Brings(m, p)>> \in A
    BY DEF Bringing
  <2>1. PICK r \in O : p = <<<<c, r>>, Staged(c, r)>>
    BY <1>3
  <2>2. p[1] = <<c, r>> /\ p[2] = (IF strided THEN <<c, StageOf[r]>> ELSE <<c, r>>)
        /\ p[1] \in Bufs /\ p[2] \in Bufs
    BY <1>2, <2>1
  <2>3. CASE strided
    <3>1. p[2][2] = StageOf[r] /\ p[1][2] = r /\ p[1][1] = c /\ p[2][1] = c
      BY <2>2, <2>3
    <3>2. Brings(m, p) = Carries(m, StageOf[r], r)
      BY <3>1 DEF Brings
    <3> QED BY <1>1, <2>2, <2>3, <3>1, <3>2
  <2>4. CASE ~strided
    BY <1>1, <2>2, <2>4
  <2> QED BY <2>3, <2>4
<1>7. Promises(P, c, m, A)
  <2> SUFFICES ASSUME NEW r \in O
      PROVE \/ \E p \in P : p[1] # p[2] /\ p[1] = <<c, r>>
            \/ \E v \in Expected(m[1], r) : <<r, v>> \in A
    BY DEF Promises
  <2>1. CASE strided
    <3> DEFINE p == <<<<c, r>>, Staged(c, r)>>
    <3>1. p \in P /\ p[1] = <<c, r>> /\ p[2] = <<c, StageOf[r]>>
      BY <1>2, <1>4, <2>1
    <3>2. r # StageOf[r]
      BY <1>1 DEF Internal
    <3> HIDE DEF p
    <3> QED BY <3>1, <3>2
  <2> QED BY <2>1
<1> QED BY <1>5, <1>6, <1>7 DEF P

\* The input staged first.
LEMMA BegunStageIn ==
  ASSUME NEW g, NEW c \in Calls, NEW z, NEW A, Begun(g, c, z, A), strided \in BOOLEAN,
         <<"in", "input">> \in A, NEW A1, A1 = {<<Stage("in"), "input">>}
  PROVE  Begun(StageIn(g, c), c, z, A1) /\ StageIn(g, c).group = g.group
<1>1. Doing(g, c, z, A, {}, {})
  BY DEF Begun
<1> QED BY <1>1, DoingStageIn DEF Begun

\* The comm stream waits for the caller's first.
LEMMA BegunWait ==
  ASSUME NEW g, NEW c, NEW z, NEW A, Begun(g, c, z, A)
  PROVE  LET k == WaitStream(g, "comm", "cur")
         IN Begun(k, c, z, A) /\ Cov(k, c) /\ k.group = g.group
<1>1. Doing(g, c, z, A, {}, {})
  BY DEF Begun
<1> QED BY <1>1, DoingWait DEF Begun

\* Its first library call.
LEMMA BegunSubmit ==
  ASSUME NEW g, NEW c \in Calls, NEW z, NEW A, Begun(g, c, z, A),
         NEW rs \in SUBSET Roles, NEW ws \in SUBSET Roles, NEW grouped,
         Feeds(rs, A), NEW A2, Written(ws, A, A2)
  PROVE  Sent(g, Submit(g, grouped, Library(c, rs, ws)), c, z, A2, rs, ws, Direct(grouped))
<1> DEFINE N == {}
           r == Submit(g, grouped, Library(c, rs, ws))
<1>1. CanRead(rs, A, N)
  BY DEF CanRead, Feeds
<1>2. CanWrite(ws, N, N)
  BY DEF CanWrite
<1>8. Doing(g, c, z, A, N, N)
  BY DEF Begun
<1>3. N \cup rs = rs /\ N \cup ws = ws
  OBVIOUS
<1> HIDE DEF N
<1>9. Submits(g, r, c, z, A2, N, N, N \cup rs, N \cup ws, grouped)
  BY <1>1, <1>2, <1>8, DoingSubmit
<1>4. /\ Doing(r, c, z, A2, N \cup rs, N \cup ws) /\ Cov(r, c)
      /\ ~(grouped /\ lib = "nccl") => Doing(r, c, z, A2, N, N) /\ r.group = g.group
  BY <1>9 DEF Submits
<1>5. Doing(r, c, z, A2, rs, ws)
  BY <1>3, <1>4
<1> HIDE DEF r
<1>6. Direct(grouped) => Begun(r, c, z, A2) /\ r.group = g.group
  BY <1>4 DEF Direct, Begun, N
<1>7. Sent(g, r, c, z, A2, rs, ws, Direct(grouped))
  BY <1>4, <1>5, <1>6 DEF Sent
<1> QED BY <1>7 DEF r

\* A copy outside a group's way.
LEMMA BegunCopy ==
  ASSUME NEW g, NEW c \in Calls, NEW z, NEW A, Begun(g, c, z, A), Cov(g, c),
         NEW x \in Roles, NEW y \in Roles, NEW v, v = Carries(Mode(z.calls, c), x, y),
         <<x, v>> \in A,
         NEW A2, \A a \in A2 : \/ a \in A /\ a[1] # y
                               \/ a = <<y, v>>
  PROVE  LET k == Enqueue(g, "comm", Copy(<<c, x>>, <<c, y>>))
         IN Begun(k, c, z, A2) /\ Cov(k, c) /\ k.group = g.group
<1> DEFINE N == {}
<1>1. Doing(g, c, z, A, N, N)
  BY DEF Begun
<1>2. x \notin N /\ y \notin N \cup N
  OBVIOUS
<1> HIDE DEF N
<1>3. LET k == Enqueue(g, "comm", Copy(<<c, x>>, <<c, y>>))
      IN Doing(k, c, z, A2, N, N) /\ Cov(k, c) /\ k.group = g.group
  BY <1>1, <1>2, DoingCopy
<1> QED BY <1>3 DEF Begun, N

\* What the methods record are buffers.
LEMMA InputsBufs ==
  ASSUME NEW c \in Calls, strided \in BOOLEAN
  PROVE  /\ Inputs(c) \in SUBSET Bufs /\ {<<c, "flat">>, <<c, "in">>} \in SUBSET Bufs
         /\ <<c, "flat">> \in Bufs
BY StageFacts DEF Inputs, Bufs

\* The mode of a call that starts.
LEMMA ModeKind ==
  ASSUME NEW g, NEW c, NEW z, NEW A, NEW kind, NEW G, Starting(g, c, z, A, kind, G)
  PROVE  Mode(z.calls, c)[1] = kind /\ Mode(z.calls, c)[2] = lib
BY DEF Mode, Starting

\* A collective that ends with Finish.
LEMMA SentFinish ==
  ASSUME NEW g, NEW k, NEW c \in Calls, NEW z, NEW A, NEW rs, NEW ws, NEW G,
         Sent(g, k, c, z, A, rs, ws, Direct(G)), Closed(g, z, G), strided \in BOOLEAN,
         NEW m, m = Mode(z.calls, c), Outputs(m[1]) \subseteq UserRoles, Delivered(m, A)
  PROVE  Given(Finish(k, Pairs(c, Outputs(m[1]))), c, z)
<1> DEFINE P == Pairs(c, Outputs(m[1]))
<1>1. z.block \/ k.group = <<>>
  BY DEF Sent, Closed, Direct
<1>2. P \in SUBSET (Bufs \X Bufs) /\ Bringing(P, c, m, A) /\ Promises(P, c, m, A)
  BY PairsBring DEF Delivered
<1>3. Doing(k, c, z, A, rs, ws) /\ Cov(k, c)
  BY DEF Sent
<1> HIDE DEF P
<1>4. Given(Finish(k, P), c, z)
  BY <1>1, <1>2, <1>3, FinishDelivers
<1> QED BY <1>4 DEF P

\* allreduce, broadcast, reduce.
LEMMA InPlaceGives ==
  ASSUME NEW g, NEW c, NEW z, NEW A, NEW G, Starting(g, c, z, A, "inplace", G)
  PROVE  Given(InPlace(g, G, c), c, z)
<1> DEFINE m == Mode(z.calls, c)
           s == Stage("in")
           k == StageIn(g, c)
           rs == {s}
           r == Submit(k, G, Library(c, rs, rs))
           A1 == {<<s, "input">>}
           A2 == {<<s, "result">>}
<1>1. /\ Begun(g, c, z, A) /\ c \in Calls /\ strided \in BOOLEAN
      /\ <<"in", "input">> \in A /\ Closed(g, z, G)
  BY DEF Starting
<1>2. m[1] = "inplace"
  BY ModeKind
<1>3. Begun(k, c, z, A1) /\ k.group = g.group
  BY <1>1, BegunStageIn
<1>4. s \in Roles /\ s = (IF strided THEN "sin" ELSE "in")
  BY <1>1, StageFacts
<1>5. InPlace(g, G, c) = Finish(r, Pairs(c, {"in"}))
  <2>1. Lib(c, {"in"}, {"in"}) = Library(c, {s}, {s})
    BY <1>1, StageFacts DEF Lib, Library, At
  <2> QED BY <2>1 DEF InPlace
<1>6. Outputs(m[1]) = {"in"} /\ {"in"} \subseteq UserRoles
  BY <1>2 DEF Outputs, UserRoles
<1>7. Delivered(m, A2)
  BY <1>2, <1>4, <1>6 DEF Carries, Expected, StageOf, Delivered
<1>8. Feeds(rs, A1) /\ Written(rs, A1, A2) /\ rs \in SUBSET Roles
  BY <1>4 DEF Feeds, Written
<1> HIDE DEF m, s, k, A1, A2, rs
<1>9. Sent(k, r, c, z, A2, rs, rs, Direct(G))
  BY <1>1, <1>3, <1>8, BegunSubmit
<1> HIDE DEF r
<1>10. Closed(k, z, G)
  BY <1>1, <1>3 DEF Closed
<1>11. Given(Finish(r, Pairs(c, Outputs(m[1]))), c, z)
  <2>1. m = Mode(z.calls, c)
    BY DEF m
  <2>2. Outputs(m[1]) \subseteq UserRoles
    BY <1>6
  <2> QED BY <1>1, <1>7, <1>9, <1>10, <2>1, <2>2, SentFinish
<1> QED BY <1>5, <1>6, <1>11

\* Finish, when what it copies back is what the caller expects.
LEMMA DoingFinish ==
  ASSUME NEW k, NEW c \in Calls, NEW z, NEW A, NEW V, NEW W, Doing(k, c, z, A, V, W), Cov(k, c),
         z.block \/ k.group = <<>>, strided \in BOOLEAN,
         NEW m, m = Mode(z.calls, c), Outputs(m[1]) \subseteq UserRoles, Delivered(m, A)
  PROVE  Given(Finish(k, Pairs(c, Outputs(m[1]))), c, z)
<1> DEFINE P == Pairs(c, Outputs(m[1]))
<1>2. P \in SUBSET (Bufs \X Bufs) /\ Bringing(P, c, m, A) /\ Promises(P, c, m, A)
  BY PairsBring DEF Delivered
<1> HIDE DEF P
<1>4. Given(Finish(k, P), c, z)
  BY <1>2, FinishDelivers
<1> QED BY <1>4 DEF P

\* The inputs recorded after the library call.
LEMMA SentRecord ==
  ASSUME NEW g, NEW k, NEW c, NEW z, NEW A, NEW rs, NEW ws, NEW direct,
         Sent(g, k, c, z, A, rs, ws, direct), NEW bufs \in SUBSET Bufs
  PROVE  Sent(g, Record(k, bufs), c, z, A, rs, ws, direct)
<1> DEFINE N == {}
           r == Record(k, bufs)
<1>1. Doing(k, c, z, A, rs, ws) /\ Cov(k, c) /\ (direct => Doing(k, c, z, A, N, N) /\ k.group = g.group)
  BY DEF Sent, Begun
<1> HIDE DEF N
<1>2. Doing(r, c, z, A, rs, ws) /\ Cov(r, c) /\ r.group = k.group
  BY <1>1, DoingRecord
<1>3. direct => Doing(r, c, z, A, N, N)
  BY <1>1, DoingRecord
<1> HIDE DEF r
<1>4. Sent(g, r, c, z, A, rs, ws, direct)
  BY <1>1, <1>2, <1>3 DEF Sent, Begun, N
<1> QED BY <1>4 DEF r

\* What a library call works on, dense.
LEMMA LibIs ==
  ASSUME strided \in BOOLEAN
  PROVE  \A c : /\ Lib(c, {"in"}, {"in"}) = Library(c, {Stage("in")}, {Stage("in")})
                /\ Lib(c, {"in"}, {"out"}) = Library(c, {Stage("in")}, {Stage("out")})
                /\ Lib(c, {"in"}, {}) = Library(c, {Stage("in")}, {})
                /\ Lib(c, {}, {"out"}) = Library(c, {}, {Stage("out")})
                /\ Staged(c, "in") = <<c, Stage("in")>>
                /\ Staged(c, "out") = <<c, Stage("out")>>
                /\ Staged(c, "own") = <<c, Stage("own")>>
BY StageFacts DEF Lib, Library, At

\* _allgather_base, _reduce_scatter_base.
LEMMA FlatGives ==
  ASSUME NEW g, NEW c, NEW z, NEW A, NEW G, Starting(g, c, z, A, "flat", G)
  PROVE  Given(Flat(g, G, c), c, z)
<1> DEFINE m == Mode(z.calls, c)
           s == Stage("in")
           t == Stage("out")
           k == StageIn(g, c)
           rs == {s}
           ws == {t}
           r == Submit(k, G, Library(c, rs, ws))
           i == Inputs(c)
           A1 == {<<s, "input">>}
           A2 == {<<t, "result">>}
<1>1. /\ Begun(g, c, z, A) /\ c \in Calls /\ strided \in BOOLEAN
      /\ <<"in", "input">> \in A /\ Closed(g, z, G)
  BY DEF Starting
<1>2. m[1] = "flat"
  BY ModeKind
<1>3. Begun(k, c, z, A1) /\ k.group = g.group
  BY <1>1, BegunStageIn
<1>4. /\ s \in Roles /\ s = (IF strided THEN "sin" ELSE "in")
      /\ t \in Roles /\ t = (IF strided THEN "sout" ELSE "out")
  BY <1>1, StageFacts
<1>5. Flat(g, G, c) = Finish(Record(r, i), Pairs(c, {"out"}))
  BY <1>1, LibIs DEF Flat
<1>6. Outputs(m[1]) = {"out"} /\ {"out"} \subseteq UserRoles /\ i \in SUBSET Bufs
  BY <1>1, <1>2, InputsBufs DEF Outputs, UserRoles
<1>7. Delivered(m, A2)
  BY <1>2, <1>4, <1>6 DEF Carries, Expected, StageOf, Delivered
<1>8. Feeds(rs, A1) /\ Written(ws, A1, A2) /\ rs \in SUBSET Roles /\ ws \in SUBSET Roles
  BY <1>4 DEF Feeds, Written
<1> HIDE DEF m, s, k, A1, A2, rs, t, ws, i
<1>9. Sent(k, r, c, z, A2, rs, ws, Direct(G))
  BY <1>1, <1>3, <1>8, BegunSubmit
<1> DEFINE e == Record(r, i)
<1> HIDE DEF r
<1>12. Sent(k, e, c, z, A2, rs, ws, Direct(G))
  BY <1>9, <1>6, SentRecord
<1>10. Closed(k, z, G)
  BY <1>1, <1>3 DEF Closed
<1> HIDE DEF e
<1>11. Given(Finish(e, Pairs(c, Outputs(m[1]))), c, z)
  <2>1. m = Mode(z.calls, c)
    BY DEF m
  <2>2. Outputs(m[1]) \subseteq UserRoles
    BY <1>6
  <2> QED BY <1>1, <1>7, <1>12, <1>10, <2>1, <2>2, SentFinish
<1> QED BY <1>5, <1>6, <1>11 DEF e

\* Receiving from one peer.
LEMMA RecvGives ==
  ASSUME NEW g, NEW c, NEW z, NEW A, NEW G, Starting(g, c, z, A, "recv", G)
  PROVE  Given(Recv(g, G, c), c, z)
<1> DEFINE m == Mode(z.calls, c)
           t == Stage("out")
           rs == {}
           ws == {t}
           r == Submit(g, G, Library(c, rs, ws))
           A2 == {<<t, "result">>}
<1>1. /\ Begun(g, c, z, A) /\ c \in Calls /\ strided \in BOOLEAN /\ Closed(g, z, G)
  BY DEF Starting
<1>2. m[1] = "recv"
  BY ModeKind
<1>4. t \in Roles /\ t = (IF strided THEN "sout" ELSE "out")
  BY <1>1, StageFacts
<1>5. Recv(g, G, c) = Finish(r, Pairs(c, {"out"}))
  BY <1>1, LibIs DEF Recv
<1>6. Outputs(m[1]) = {"out"} /\ {"out"} \subseteq UserRoles
  BY <1>2 DEF Outputs, UserRoles
<1>7. Delivered(m, A2)
  BY <1>2, <1>4, <1>6 DEF Carries, Expected, StageOf, Delivered
<1>8. Feeds(rs, A) /\ Written(ws, A, A2) /\ rs \in SUBSET Roles /\ ws \in SUBSET Roles
  BY <1>4 DEF Feeds, Written
<1> HIDE DEF m, A2, rs, t, ws
<1>9. Sent(g, r, c, z, A2, rs, ws, Direct(G))
  BY <1>1, <1>8, BegunSubmit
<1> HIDE DEF r
<1>11. Given(Finish(r, Pairs(c, Outputs(m[1]))), c, z)
  <2>1. m = Mode(z.calls, c)
    BY DEF m
  <2>2. Outputs(m[1]) \subseteq UserRoles
    BY <1>6
  <2> QED BY <1>1, <1>7, <1>9, <2>1, <2>2, SentFinish
<1> QED BY <1>5, <1>6, <1>11

\* Staging the input keeps the tensor too.
LEMMA BegunStageKeeps ==
  ASSUME NEW g, NEW c \in Calls, NEW z, NEW A, Begun(g, c, z, A), strided \in BOOLEAN,
         <<"in", "input">> \in A,
         NEW A1, A1 = {<<"in", "input">>, <<Stage("in"), "input">>}
  PROVE  Begun(StageIn(g, c), c, z, A1) /\ StageIn(g, c).group = g.group
<1> DEFINE k == WaitStream(g, "comm", "cur")
           m == Mode(z.calls, c)
           v == Carries(m, "in", "sin")
<1>1. v = "input"
  BY DEF Carries
<1>2. "in" \in Roles /\ "sin" \in Roles
  BY DEF Roles, UserRoles
<1>3. CASE strided
  <2>1. Begun(k, c, z, A) /\ Cov(k, c) /\ k.group = g.group
    BY BegunWait
  <2>2. StageIn(g, c) = Enqueue(k, "comm", Copy(<<c, "in">>, <<c, "sin">>))
    BY <1>3 DEF StageIn
  <2>3. \A a \in A1 : (a \in A /\ a[1] # "sin") \/ a = <<"sin", v>>
    BY <1>1, <1>3, StageFacts
  <2>4. <<"in", v>> \in A
    BY <1>1
  <2>5. v = Carries(Mode(z.calls, c), "in", "sin")
    OBVIOUS
  <2> HIDE DEF k, v
  <2> QED BY <1>2, <2>1, <2>2, <2>3, <2>4, <2>5, BegunCopy
<1>4. CASE ~strided
  <2>1. StageIn(g, c) = g
    BY <1>4 DEF StageIn
  <2>2. A1 \subseteq A
    BY <1>4, StageFacts
  <2>3. Begun(g, c, z, A1)
    BY <2>2 DEF Begun, Doing, Part
  <2> QED BY <2>1, <2>3
<1> QED BY <1>3, <1>4

\* Sending to one peer.
LEMMA SendGives ==
  ASSUME NEW g, NEW c, NEW z, NEW A, NEW G, Starting(g, c, z, A, "send", G)
  PROVE  Given(Send(g, G, c), c, z)
<1> DEFINE m == Mode(z.calls, c)
           s == Stage("in")
           k == StageIn(g, c)
           rs == {s}
           ws == {}
           r == Submit(k, G, Library(c, rs, ws))
           i == Inputs(c)
           A1 == {<<"in", "input">>, <<s, "input">>}
           N == {}
<1>1. /\ Begun(g, c, z, A) /\ c \in Calls /\ strided \in BOOLEAN
      /\ <<"in", "input">> \in A
  BY DEF Starting
<1>2. m[1] = "send"
  BY ModeKind
<1>3. Begun(k, c, z, A1) /\ k.group = g.group
  BY <1>1, BegunStageKeeps
<1>4. s \in Roles /\ i \in SUBSET Bufs
  BY <1>1, StageFacts, InputsBufs
<1>5. Send(g, G, c) = Record(r, i)
  BY <1>1, LibIs DEF Send
<1>7. Promises(N, c, m, A1)
  BY <1>2 DEF Promises, Outputs, Expected
<1>8. Feeds(rs, A1) /\ Written(ws, A1, A1) /\ rs \in SUBSET Roles /\ ws \in SUBSET Roles
  BY <1>4 DEF Feeds, Written
<1> HIDE DEF m, s, k, A1, rs, ws, i
<1>9. Sent(k, r, c, z, A1, rs, ws, Direct(G))
  BY <1>1, <1>3, <1>8, BegunSubmit
<1> DEFINE e == Record(r, i)
<1> HIDE DEF r
<1>12. Sent(k, e, c, z, A1, rs, ws, Direct(G))
  BY <1>9, <1>4, SentRecord
<1> HIDE DEF e
<1>13. Doing(e, c, z, A1, rs, ws) /\ Cov(e, c)
  BY <1>12 DEF Sent
<1>14. Given(e, c, z)
  BY <1>7, <1>13, DoingDelivers DEF m, N
<1> QED BY <1>5, <1>14 DEF e

\* allgather.
LEMMA AllGatherGives ==
  ASSUME NEW g, NEW c, NEW z, NEW A, NEW G, Starting(g, c, z, A, "allgather", G)
  PROVE  Given(AllGather(g, G, c), c, z)
<1> DEFINE m == Mode(z.calls, c)
           s == Stage("in")
           k == StageIn(g, c)
           rs == {s}
           ws == {"flat"}
           r == Submit(k, G, Library(c, rs, ws))
           i == Inputs(c)
           A1 == {<<s, "input">>}
           A2 == {<<"flat", "result">>}
           P == {<<<<c, "out">>, <<c, "flat">>>>}
<1>1. /\ Begun(g, c, z, A) /\ c \in Calls /\ strided \in BOOLEAN
      /\ <<"in", "input">> \in A /\ Closed(g, z, G)
  BY DEF Starting
<1>2. m[1] = "allgather"
  BY ModeKind
<1>3. Begun(k, c, z, A1) /\ k.group = g.group
  BY <1>1, BegunStageIn
<1>4. s \in Roles /\ "flat" \in Roles /\ i \in SUBSET Bufs
  BY <1>1, StageFacts, InputsBufs
<1>5. AllGather(g, G, c) = Finish(Record(r, i), P)
  BY <1>1, LibIs DEF AllGather, Library, At
<1>6. P \in SUBSET (Bufs \X Bufs) /\ Bringing(P, c, m, A2) /\ Promises(P, c, m, A2)
  <2>1. /\ <<c, "out">> \in Bufs /\ <<c, "flat">> \in Bufs
        /\ "out" \in UserRoles /\ "flat" \in Internal
    BY <1>1 DEF Bufs, Roles, UserRoles, Internal
  <2>2. Expected(m[1], "out") = {"result"} /\ Outputs(m[1]) = {"out"}
    BY <1>2 DEF Expected, Outputs
  <2>3. \A p \in P : Brings(m, p) = "result"
    BY DEF Brings, Carries
  <2>4. Bringing(P, c, m, A2)
    BY <2>1, <2>2, <2>3 DEF Bringing
  <2>5. Promises(P, c, m, A2)
    BY <2>2 DEF Promises
  <2> QED BY <2>1, <2>4, <2>5
<1>8. Feeds(rs, A1) /\ Written(ws, A1, A2) /\ rs \in SUBSET Roles /\ ws \in SUBSET Roles
  BY <1>4 DEF Feeds, Written
<1> HIDE DEF m, s, k, A1, A2, rs, ws, i, P
<1>9. Sent(k, r, c, z, A2, rs, ws, Direct(G))
  BY <1>1, <1>3, <1>8, BegunSubmit
<1> DEFINE e == Record(r, i)
<1> HIDE DEF r
<1>12. Sent(k, e, c, z, A2, rs, ws, Direct(G))
  BY <1>9, <1>4, SentRecord
<1> HIDE DEF e
<1>13. Doing(e, c, z, A2, rs, ws) /\ Cov(e, c) /\ (z.block \/ e.group = <<>>)
  BY <1>1, <1>3, <1>12 DEF Sent, Closed, Direct
<1>14. Given(Finish(e, P), c, z)
  BY <1>1, <1>6, <1>13, FinishDelivers DEF m
<1> QED BY <1>5, <1>14 DEF e

\* reduce_scatter.
LEMMA ReduceScatterGives ==
  ASSUME NEW g, NEW c, NEW z, NEW A, NEW G, Starting(g, c, z, A, "reduce_scatter", G)
  PROVE  Given(ReduceScatter(g, G, c), c, z)
<1> DEFINE m == Mode(z.calls, c)
           t == Stage("out")
           w == WaitStream(g, "comm", "cur")
           k == Enqueue(w, "comm", Copy(<<c, "in">>, <<c, "flat">>))
           rs == {"flat"}
           ws == {t}
           r == Submit(k, G, Library(c, rs, ws))
           i == {<<c, "flat">>, <<c, "in">>}
           A1 == {<<"flat", "input">>}
           A2 == {<<t, "result">>}
           v == Carries(m, "in", "flat")
<1>1. /\ Begun(g, c, z, A) /\ c \in Calls /\ strided \in BOOLEAN
      /\ <<"in", "input">> \in A /\ Closed(g, z, G)
  BY DEF Starting
<1>2. m[1] = "reduce_scatter" /\ v = "input"
  BY ModeKind DEF Carries
<1>3. Begun(w, c, z, A) /\ Cov(w, c) /\ w.group = g.group
  BY <1>1, BegunWait
<1>4. /\ "in" \in Roles /\ "flat" \in Roles /\ i \in SUBSET Bufs
      /\ t \in Roles /\ t = (IF strided THEN "sout" ELSE "out")
  BY <1>1, StageFacts, InputsBufs
<1>5. ReduceScatter(g, G, c) = Finish(Record(r, i), Pairs(c, {"out"}))
  BY <1>1, LibIs DEF ReduceScatter, Library, At
<1>6. Outputs(m[1]) = {"out"} /\ {"out"} \subseteq UserRoles
  BY <1>2 DEF Outputs, UserRoles
<1>7. Delivered(m, A2)
  BY <1>2, <1>4, <1>6 DEF Carries, Expected, StageOf, Delivered
<1>8. Feeds(rs, A1) /\ Written(ws, A1, A2) /\ rs \in SUBSET Roles /\ ws \in SUBSET Roles
  BY <1>4 DEF Feeds, Written
<1>14. (\A a \in A1 : (a \in A /\ a[1] # "flat") \/ a = <<"flat", v>>) /\ <<"in", v>> \in A
  BY <1>1, <1>2
<1>15. v = Carries(Mode(z.calls, c), "in", "flat") /\ m = Mode(z.calls, c)
  OBVIOUS
<1> HIDE DEF m, w, A1, A2, rs, t, ws, i, v
<1>16. Begun(k, c, z, A1) /\ k.group = w.group
  BY <1>1, <1>3, <1>4, <1>14, <1>15, BegunCopy
<1> HIDE DEF k
<1>9. Sent(k, r, c, z, A2, rs, ws, Direct(G))
  BY <1>1, <1>16, <1>8, BegunSubmit
<1> DEFINE e == Record(r, i)
<1> HIDE DEF r
<1>12. Sent(k, e, c, z, A2, rs, ws, Direct(G))
  BY <1>9, <1>4, SentRecord
<1>10. Closed(k, z, G)
  BY <1>1, <1>3, <1>16 DEF Closed
<1> HIDE DEF e
<1>11. Given(Finish(e, Pairs(c, Outputs(m[1]))), c, z)
  <2>2. Outputs(m[1]) \subseteq UserRoles
    BY <1>6
  <2> QED BY <1>1, <1>7, <1>12, <1>10, <1>15, <2>2, SentFinish
<1> QED BY <1>5, <1>6, <1>11 DEF e

\* A second library call, behind what may be in the group.
LEMMA SentSubmit ==
  ASSUME NEW g, NEW k, NEW c \in Calls, NEW z, NEW A, NEW rs, NEW ws, NEW direct,
         Sent(g, k, c, z, A, rs, ws, direct),
         NEW rs2 \in SUBSET Roles, NEW ws2 \in SUBSET Roles, NEW grouped,
         CanRead(rs2, A, ws), CanWrite(ws2, rs, ws), NEW A2, Written(ws2, A, A2)
  PROVE  LET r == Submit(k, grouped, Library(c, rs2, ws2))
         IN Doing(r, c, z, A2, rs \cup rs2, ws \cup ws2) /\ Cov(r, c)
<1>1. Doing(k, c, z, A, rs, ws)
  BY DEF Sent
<1>2. Submits(k, Submit(k, grouped, Library(c, rs2, ws2)), c, z, A2, rs, ws,
              rs \cup rs2, ws \cup ws2, grouped)
  BY <1>1, DoingSubmit
<1> QED BY <1>2 DEF Submits

\* A copy behind a library call that may be in the group.
LEMMA SentCopy ==
  ASSUME NEW g, NEW k, NEW c \in Calls, NEW z, NEW A, NEW rs, NEW ws, NEW direct,
         Sent(g, k, c, z, A, rs, ws, direct),
         NEW x \in Roles, NEW y \in Roles, NEW v, v = Carries(Mode(z.calls, c), x, y),
         <<x, v>> \in A, x \notin ws, y \notin rs \cup ws,
         NEW A2, \A a \in A2 : (a \in A /\ a[1] # y) \/ a = <<y, v>>
  PROVE  LET r == Enqueue(k, "comm", Copy(<<c, x>>, <<c, y>>))
         IN Sent(g, r, c, z, A2, rs, ws, direct)
<1> DEFINE N == {}
           r == Enqueue(k, "comm", Copy(<<c, x>>, <<c, y>>))
<1>1. Doing(k, c, z, A, rs, ws) /\ Cov(k, c) /\ (direct => Begun(k, c, z, A) /\ k.group = g.group)
  BY DEF Sent
<1>2. Doing(r, c, z, A2, rs, ws) /\ Cov(r, c) /\ r.group = k.group
  BY <1>1, DoingCopy
<1>3. direct => Begun(r, c, z, A2)
  BY <1>1, BegunCopy
<1> HIDE DEF r
<1>4. Sent(g, r, c, z, A2, rs, ws, direct)
  BY <1>1, <1>2, <1>3 DEF Sent
<1> QED BY <1>4 DEF r

\* The end of alltoall's own group.
LEMMA DoingClose ==
  ASSUME NEW r, NEW c, NEW z, NEW A, NEW V, NEW W, Doing(r, c, z, A, V, W), Cov(r, c), NEW G,
         z.block \/ ~G
  PROVE  LET k == IF G THEN r ELSE GroupEnd(r)
         IN \E X, Y : Doing(k, c, z, A, X, Y) /\ Cov(k, c) /\ (z.block \/ k.group = <<>>)
<1>1. CASE G
  BY <1>1
<1>2. CASE ~G
  <2> DEFINE N == {}
             k == GroupEnd(r)
  <2>1. Doing(k, c, z, A, N, N) /\ Cov(k, c) /\ k.group = <<>>
    BY DoingGroupEnd
  <2> HIDE DEF N, k
  <2>2. \E X, Y : Doing(k, c, z, A, X, Y) /\ Cov(k, c) /\ (z.block \/ k.group = <<>>)
    BY <2>1
  <2> QED BY <1>2, <2>2 DEF k
<1> QED BY <1>1, <1>2

\* alltoall: sends, then receives, in a group.
LEMMA AllToAllGives ==
  ASSUME NEW g, NEW c, NEW z, NEW A, NEW G, Starting(g, c, z, A, "alltoall", G)
  PROVE  Given(AllToAll(g, G, c), c, z)
<1> DEFINE m == Mode(z.calls, c)
           s == Stage("in")
           t == Stage("out")
           k == StageIn(g, c)
           N == {}
           rs == {s}
           ws == {t}
           grouped == TRUE
           sent == Submit(k, grouped, Library(c, rs, N))
           received == Submit(sent, grouped, Library(c, N, ws))
           e == IF G THEN received ELSE GroupEnd(received)
           i == Inputs(c)
           f == Record(e, i)
           A1 == {<<s, "input">>}
           A2 == {<<t, "result">>}
<1>1. /\ Begun(g, c, z, A) /\ c \in Calls /\ strided \in BOOLEAN
      /\ <<"in", "input">> \in A /\ Closed(g, z, G)
  BY DEF Starting
<1>2. m[1] = "alltoall"
  BY ModeKind
<1>3. Begun(k, c, z, A1) /\ k.group = g.group
  BY <1>1, BegunStageIn
<1>4. /\ s \in Roles /\ s = (IF strided THEN "sin" ELSE "in")
      /\ t \in Roles /\ t = (IF strided THEN "sout" ELSE "out")
  BY <1>1, StageFacts
<1>5. AllToAll(g, G, c) = Finish(f, Pairs(c, {"out"}))
  BY <1>1, LibIs DEF AllToAll
<1>6. Outputs(m[1]) = {"out"} /\ {"out"} \subseteq UserRoles /\ i \in SUBSET Bufs
  BY <1>1, <1>2, InputsBufs DEF Outputs, UserRoles
<1>7. Delivered(m, A2)
  BY <1>2, <1>4, <1>6 DEF Carries, Expected, StageOf, Delivered
<1>8. /\ Feeds(rs, A1) /\ Written(N, A1, A1)
      /\ rs \in SUBSET Roles /\ ws \in SUBSET Roles /\ N \in SUBSET Roles
      /\ CanRead(N, A1, N) /\ CanWrite(ws, rs, N) /\ Written(ws, A1, A2)
  BY <1>4 DEF Feeds, Written, CanRead, CanWrite
<1>15. m = Mode(z.calls, c) /\ (z.block \/ ~G)
  BY <1>1 DEF Closed
<1> HIDE DEF m, s, k, A1, A2, rs, t, ws, i, N, grouped
<1>9. Sent(k, sent, c, z, A1, rs, N, Direct(grouped))
  BY <1>1, <1>3, <1>8, BegunSubmit
<1> HIDE DEF sent
<1>10. Doing(received, c, z, A2, rs \cup N, N \cup ws) /\ Cov(received, c)
  BY <1>1, <1>8, <1>9, SentSubmit
<1> HIDE DEF received
<1>11. PICK X, Y : Doing(e, c, z, A2, X, Y) /\ Cov(e, c) /\ (z.block \/ e.group = <<>>)
  BY <1>10, <1>15, DoingClose
<1> HIDE DEF e
<1>12. Doing(f, c, z, A2, X, Y) /\ Cov(f, c) /\ f.group = e.group
  BY <1>6, <1>11, DoingRecord
<1> HIDE DEF f
<1>13. Given(Finish(f, Pairs(c, Outputs(m[1]))), c, z)
  <2>2. Outputs(m[1]) \subseteq UserRoles /\ (z.block \/ f.group = <<>>)
    BY <1>6, <1>11, <1>12
  <2> QED BY <1>1, <1>7, <1>12, <1>15, <2>2, DoingFinish
<1> QED BY <1>5, <1>6, <1>13

\* scatter, by nccl's sends and a copy of the root's own chunk.
LEMMA ScatterSends ==
  ASSUME NEW g, NEW c, NEW z, NEW A, NEW G, Starting(g, c, z, A, "scatter", G), lib = "nccl"
  PROVE  Given(Scatter(g, G, c), c, z)
<1> DEFINE m == Mode(z.calls, c)
           s == Stage("in")
           t == Stage("out")
           k == StageIn(g, c)
           w == WaitStream(k, "comm", "cur")
           N == {}
           rs == {s}
           sent == Submit(w, G, Library(c, rs, N))
           r == Enqueue(sent, "comm", Copy(<<c, s>>, <<c, t>>))
           i == Inputs(c)
           f == Record(r, i)
           A1 == {<<s, "input">>}
           A2 == {<<t, "input">>}
           v == Carries(m, s, t)
<1>1. /\ Begun(g, c, z, A) /\ c \in Calls /\ strided \in BOOLEAN
      /\ <<"in", "input">> \in A /\ Closed(g, z, G)
  BY DEF Starting
<1>4. /\ s \in Roles /\ s = (IF strided THEN "sin" ELSE "in")
      /\ t \in Roles /\ t = (IF strided THEN "sout" ELSE "out")
  BY <1>1, StageFacts
<1>2. m[1] = "scatter" /\ m[2] = "nccl" /\ v = "input"
  BY <1>4, ModeKind DEF Carries
<1>3. Begun(k, c, z, A1) /\ k.group = g.group
  BY <1>1, BegunStageIn
<1>5. Scatter(g, G, c) = Finish(f, Pairs(c, {"out"}))
  BY <1>1, LibIs DEF Scatter
<1>6. Outputs(m[1]) = {"out"} /\ {"out"} \subseteq UserRoles /\ i \in SUBSET Bufs
  BY <1>1, <1>2, InputsBufs DEF Outputs, UserRoles
<1>7. Delivered(m, A2)
  BY <1>2, <1>4, <1>6 DEF Carries, Expected, StageOf, Delivered
<1>8. /\ Feeds(rs, A1) /\ Written(N, A1, A1)
      /\ rs \in SUBSET Roles /\ N \in SUBSET Roles
      /\ s \notin N /\ t \notin rs \cup N
  BY <1>4 DEF Feeds, Written
<1>14. (\A a \in A2 : (a \in A1 /\ a[1] # t) \/ a = <<t, v>>) /\ <<s, v>> \in A1
  BY <1>2
<1>15. v = Carries(Mode(z.calls, c), s, t) /\ m = Mode(z.calls, c)
  OBVIOUS
<1> HIDE DEF m, s, k, A1, A2, rs, t, i, N, v
<1>16. Begun(w, c, z, A1) /\ w.group = k.group
  BY <1>3, BegunWait
<1> HIDE DEF w
<1>9. Sent(w, sent, c, z, A1, rs, N, Direct(G))
  BY <1>1, <1>16, <1>8, BegunSubmit
<1> HIDE DEF sent
<1>10. Sent(w, r, c, z, A2, rs, N, Direct(G))
  BY <1>1, <1>4, <1>8, <1>9, <1>14, <1>15, SentCopy
<1> HIDE DEF r
<1>11. Sent(w, f, c, z, A2, rs, N, Direct(G))
  BY <1>6, <1>10, SentRecord
<1>12. Closed(w, z, G)
  BY <1>1, <1>3, <1>16 DEF Closed
<1> HIDE DEF f
<1>13. Given(Finish(f, Pairs(c, Outputs(m[1]))), c, z)
  <2>2. Outputs(m[1]) \subseteq UserRoles
    BY <1>6
  <2> QED BY <1>1, <1>7, <1>11, <1>12, <1>15, <2>2, SentFinish
<1> QED BY <1>5, <1>6, <1>13

\* scatter, by mojoccl's broadcast of all and a copy out of it.
LEMMA ScatterBroadcasts ==
  ASSUME NEW g, NEW c, NEW z, NEW A, NEW G, Starting(g, c, z, A, "scatter", G), lib # "nccl"
  PROVE  Given(Scatter(g, G, c), c, z)
<1> DEFINE m == Mode(z.calls, c)
           s == Stage("in")
           t == Stage("out")
           k == StageIn(g, c)
           w == WaitStream(k, "comm", "cur")
           full == Enqueue(w, "comm", Copy(<<c, s>>, <<c, "flat">>))
           rs == {"flat"}
           sent == Submit(full, G, Library(c, rs, rs))
           r == Enqueue(sent, "comm", Copy(<<c, "flat">>, <<c, t>>))
           i == Inputs(c)
           f == Record(r, i)
           A1 == {<<s, "input">>}
           A2 == {<<"flat", "input">>}
           A3 == {<<"flat", "result">>}
           A4 == {<<t, "result">>}
           u == Carries(m, s, "flat")
           v == Carries(m, "flat", t)
<1>1. /\ Begun(g, c, z, A) /\ c \in Calls /\ strided \in BOOLEAN
      /\ <<"in", "input">> \in A /\ Closed(g, z, G)
  BY DEF Starting
<1>4. /\ s \in Roles /\ s = (IF strided THEN "sin" ELSE "in") /\ "flat" \in Roles
      /\ t \in Roles /\ t = (IF strided THEN "sout" ELSE "out")
  BY <1>1, StageFacts
<1>2. m[1] = "scatter" /\ m[2] # "nccl" /\ u = "input" /\ v = "result"
  BY <1>4, ModeKind DEF Carries
<1>3. Begun(k, c, z, A1) /\ k.group = g.group
  BY <1>1, BegunStageIn
<1>5. Scatter(g, G, c) = Finish(f, Pairs(c, {"out"}))
  BY <1>1, LibIs DEF Scatter, Library, At
<1>6. Outputs(m[1]) = {"out"} /\ {"out"} \subseteq UserRoles /\ i \in SUBSET Bufs
  BY <1>1, <1>2, InputsBufs DEF Outputs, UserRoles
<1>7. Delivered(m, A4)
  BY <1>2, <1>4, <1>6 DEF Carries, Expected, StageOf, Delivered
<1>8. /\ Feeds(rs, A2) /\ Written(rs, A2, A3) /\ rs \in SUBSET Roles
  BY <1>4 DEF Feeds, Written
<1>14. /\ \A a \in A2 : (a \in A1 /\ a[1] # "flat") \/ a = <<"flat", u>>
       /\ <<s, u>> \in A1
       /\ \A a \in A4 : (a \in A3 /\ a[1] # t) \/ a = <<t, v>>
       /\ <<"flat", v>> \in A3
  BY <1>2
<1>15. /\ u = Carries(Mode(z.calls, c), s, "flat") /\ v = Carries(Mode(z.calls, c), "flat", t)
       /\ m = Mode(z.calls, c) /\ Direct(G)
  BY DEF Direct
<1> HIDE DEF m, s, k, A1, A2, A3, A4, rs, t, i, u, v
<1>16. Begun(w, c, z, A1) /\ Cov(w, c) /\ w.group = k.group
  BY <1>3, BegunWait
<1> HIDE DEF w
<1>17. Begun(full, c, z, A2) /\ Cov(full, c) /\ full.group = w.group
  BY <1>1, <1>4, <1>14, <1>15, <1>16, BegunCopy
<1> HIDE DEF full
<1>9. Sent(full, sent, c, z, A3, rs, rs, Direct(G))
  BY <1>1, <1>17, <1>8, BegunSubmit
<1> HIDE DEF sent
<1>18. Begun(sent, c, z, A3) /\ Cov(sent, c) /\ sent.group = full.group
  BY <1>9, <1>15 DEF Sent
<1>10. Begun(r, c, z, A4) /\ Cov(r, c) /\ r.group = sent.group
  <2> DEFINE x == "flat"
  <2>1. \A a \in A4 : (a \in A3 /\ a[1] # t) \/ a = <<t, v>>
    BY <1>14
  <2>2. <<x, v>> \in A3 /\ x \in Roles /\ t \in Roles
    BY <1>4, <1>14
  <2>3. v = Carries(Mode(z.calls, c), x, t)
    BY <1>15
  <2>4. r = Enqueue(sent, "comm", Copy(<<c, x>>, <<c, t>>))
    OBVIOUS
  <2>5. c \in Calls /\ Begun(sent, c, z, A3) /\ Cov(sent, c)
    BY <1>1, <1>18
  <2> HIDE DEF x, r
  <2> QED BY <2>1, <2>2, <2>3, <2>4, <2>5, BegunCopy
<1> HIDE DEF r
<1> DEFINE N == {}
<1>19. Doing(r, c, z, A4, N, N)
  BY <1>10 DEF Begun
<1> HIDE DEF N
<1>11. Doing(f, c, z, A4, N, N) /\ Cov(f, c) /\ f.group = r.group
  BY <1>6, <1>10, <1>19, DoingRecord
<1>12. z.block \/ f.group = <<>>
  BY <1>1, <1>3, <1>16, <1>17, <1>18, <1>10, <1>11 DEF Closed
<1> HIDE DEF f
<1>13. Given(Finish(f, Pairs(c, Outputs(m[1]))), c, z)
  <2>2. Outputs(m[1]) \subseteq UserRoles
    BY <1>6
  <2> QED BY <1>1, <1>7, <1>11, <1>12, <1>15, <2>2, DoingFinish
<1> QED BY <1>5, <1>6, <1>13

\* gather, by nccl's receives and a copy of the root's own chunk.
LEMMA GatherReceives ==
  ASSUME NEW g, NEW c, NEW z, NEW A, NEW G, Starting(g, c, z, A, "gather", G), lib = "nccl"
  PROVE  Given(Gather(g, G, c), c, z)
<1> DEFINE m == Mode(z.calls, c)
           s == Stage("in")
           t == Stage("out")
           o == Stage("own")
           k == StageIn(g, c)
           w == WaitStream(k, "comm", "cur")
           N == {}
           ws == {t}
           sent == Submit(w, G, Library(c, N, ws))
           r == Enqueue(sent, "comm", Copy(<<c, s>>, <<c, o>>))
           i == Inputs(c)
           A1 == {<<s, "input">>}
           A2 == {<<s, "input">>, <<t, "result">>}
           A3 == {<<o, "input">>, <<t, "result">>}
           v == Carries(m, s, o)
<1>1. /\ Begun(g, c, z, A) /\ c \in Calls /\ strided \in BOOLEAN
      /\ <<"in", "input">> \in A /\ Closed(g, z, G)
  BY DEF Starting
<1>4. /\ s \in Roles /\ s = (IF strided THEN "sin" ELSE "in")
      /\ t \in Roles /\ t = (IF strided THEN "sout" ELSE "out")
      /\ o \in Roles /\ o = (IF strided THEN "sown" ELSE "own")
  BY <1>1, StageFacts
<1>2. m[1] = "gather" /\ m[2] = "nccl" /\ v = "input"
  BY <1>4, ModeKind DEF Carries
<1>3. Begun(k, c, z, A1) /\ k.group = g.group
  BY <1>1, BegunStageIn
<1>5. Gather(g, G, c) = Record(Finish(r, Pairs(c, {"out", "own"})), i)
  BY <1>1, LibIs DEF Gather
<1>6. Outputs(m[1]) = {"out", "own"} /\ {"out", "own"} \subseteq UserRoles /\ i \in SUBSET Bufs
  BY <1>1, <1>2, InputsBufs DEF Outputs, UserRoles
<1>7. Delivered(m, A3)
  BY <1>2, <1>4, <1>6 DEF Carries, Expected, StageOf, Delivered
<1>8. /\ Feeds(N, A1) /\ Written(ws, A1, A2)
      /\ ws \in SUBSET Roles /\ N \in SUBSET Roles
      /\ s \notin ws /\ o \notin N \cup ws
  BY <1>4 DEF Feeds, Written
<1>14. (\A a \in A3 : (a \in A2 /\ a[1] # o) \/ a = <<o, v>>) /\ <<s, v>> \in A2
  BY <1>2, <1>4
<1>15. v = Carries(Mode(z.calls, c), s, o) /\ m = Mode(z.calls, c)
  OBVIOUS
<1> HIDE DEF m, s, k, A1, A2, A3, ws, t, i, N, v, o
<1>16. Begun(w, c, z, A1) /\ w.group = k.group
  BY <1>3, BegunWait
<1> HIDE DEF w
<1>9. Sent(w, sent, c, z, A2, N, ws, Direct(G))
  BY <1>1, <1>16, <1>8, BegunSubmit
<1> HIDE DEF sent
<1>10. Sent(w, r, c, z, A3, N, ws, Direct(G))
  BY <1>1, <1>4, <1>8, <1>9, <1>14, <1>15, SentCopy
<1> HIDE DEF r
<1>12. Closed(w, z, G)
  BY <1>1, <1>3, <1>16 DEF Closed
<1> DEFINE f == Finish(r, Pairs(c, Outputs(m[1])))
<1>13. Given(f, c, z)
  <2>2. Outputs(m[1]) \subseteq UserRoles
    BY <1>6
  <2> QED BY <1>1, <1>7, <1>10, <1>12, <1>15, <2>2, SentFinish
<1>17. Gather(g, G, c) = Record(f, i)
  BY <1>5, <1>6
<1> HIDE DEF f
<1> QED BY <1>6, <1>13, <1>17, GivenRecord

\* The copies out of it.
LEMMA FlatOut ==
  ASSUME NEW g, NEW c \in Calls, NEW z, NEW A, A = Filled({}), Begun(g, c, z, A), Cov(g, c),
         z.calls[c].kind = "gather", lib # "nccl",
         NEW S \in SUBSET Bufs, \A b \in S : b[1] = c /\ b[2] # "flat"
  PROVE  LET k == CopyOut(g, <<c, "flat">>, S)
         IN Begun(k, c, z, Filled(S)) /\ Cov(k, c) /\ k.group = g.group
<1> DEFINE Good(k, s) == Begun(k, c, z, Filled(s)) /\ Cov(k, c) /\ k.group = g.group
           R == {x \in Hosts \X SUBSET S : Good(x[1], x[2])}
           from == <<c, "flat">>
           k == CopyOut(g, from, S)
<1>1. g \in Hosts /\ from \in Bufs
  BY DEF Begun, Doing, Bufs, Roles
<1>2. ASSUME NEW s \in SUBSET S, NEW b \in S, NEW e \in Hosts, b \notin s, <<e, s>> \in R
      PROVE  <<Enqueue(e, "comm", Copy(from, b)), s \cup {b}>> \in R
  <2> DEFINE y == b[2]
             x == "flat"
             v == Carries(Mode(z.calls, c), x, y)
             B == Filled(s)
             B2 == Filled(s \cup {b})
             n == Enqueue(e, "comm", Copy(<<c, x>>, <<c, y>>))
  <2>1. Begun(e, c, z, B) /\ Cov(e, c) /\ e.group = g.group
    BY <1>2
  <2>2. b = <<c, y>> /\ y \in Roles /\ x \in Roles /\ y # x
    BY DEF Bufs, Roles
  <2>3. v = "result"
    BY DEF Carries, Mode
  <2>4. <<x, v>> \in B
    BY <2>3 DEF Filled
  <2>5. \A a \in B2 : (a \in B /\ a[1] # y) \/ a = <<y, v>>
    BY <2>2, <2>3 DEF Filled
  <2>6. v = Carries(Mode(z.calls, c), x, y)
    OBVIOUS
  <2>7. n = Enqueue(e, "comm", Copy(from, b))
    BY <2>2
  <2> HIDE DEF x, y, v, B, B2
  <2>8. Begun(n, c, z, B2) /\ Cov(n, c) /\ n.group = e.group
    BY <2>1, <2>2, <2>4, <2>5, <2>6, BegunCopy
  <2>9. n \in Hosts
    BY <2>8 DEF Begun, Doing
  <2> HIDE DEF n
  <2>10. Good(n, s \cup {b})
    BY <2>1, <2>8 DEF B2
  <2>11. <<n, s \cup {b}>> \in R
    <3>1. s \cup {b} \in SUBSET S
      BY <1>2
    <3> HIDE DEF Good
    <3> QED BY <2>9, <2>10, <3>1
  <2> QED BY <2>7, <2>11
<1>3. <<g, {}>> \in R
  <2>1. Good(g, {})
    OBVIOUS
  <2> HIDE DEF Good
  <2> QED BY <1>1, <2>1
<1> HIDE DEF R, from
<1>4. k \in Hosts /\ <<k, S>> \in R
  BY <1>1, <1>2, <1>3, CopyOutKept
<1> HIDE DEF k
<1>5. Good(k, S)
  BY <1>4 DEF R
<1> QED BY <1>5 DEF k, from

\* mojoccl's gather: everything is gathered and copied out.
LEMMA GatherCopies ==
  ASSUME NEW g, NEW c, NEW z, NEW A, NEW G, Starting(g, c, z, A, "gather", G), lib # "nccl"
  PROVE  Given(Gather(g, G, c), c, z)
<1> DEFINE m == Mode(z.calls, c)
           s == Stage("in")
           t == Stage("out")
           o == Stage("own")
           k == StageIn(g, c)
           w == WaitStream(k, "comm", "cur")
           rs == {s}
           ws == {"flat"}
           sent == Submit(w, G, Library(c, rs, ws))
           outs == {<<c, t>>, <<c, o>>}
           r == CopyOut(sent, <<c, "flat">>, outs)
           i == Inputs(c)
           A1 == {<<s, "input">>}
           A2 == Filled({})
           A3 == Filled(outs)
<1>1. /\ Begun(g, c, z, A) /\ c \in Calls /\ strided \in BOOLEAN /\ z.calls[c].kind = "gather"
      /\ <<"in", "input">> \in A /\ Closed(g, z, G)
  BY DEF Starting
<1>4. /\ s \in Roles /\ s = (IF strided THEN "sin" ELSE "in") /\ "flat" \in Roles
      /\ t \in Roles /\ t = (IF strided THEN "sout" ELSE "out")
      /\ o \in Roles /\ o = (IF strided THEN "sown" ELSE "own")
  BY <1>1, StageFacts
<1>2. m[1] = "gather" /\ m[2] # "nccl"
  BY ModeKind
<1>3. Begun(k, c, z, A1) /\ k.group = g.group
  BY <1>1, BegunStageIn
<1>5. Gather(g, G, c) = Record(Finish(r, Pairs(c, {"out", "own"})), i)
  <2>1. {Staged(c, x) : x \in {"out", "own"}} = outs
    BY <1>1, LibIs
  <2> QED BY <1>1, <2>1, LibIs DEF Gather, CopyOut, Library, At
<1>6. Outputs(m[1]) = {"out", "own"} /\ {"out", "own"} \subseteq UserRoles /\ i \in SUBSET Bufs
  BY <1>1, <1>2, InputsBufs DEF Outputs, UserRoles
<1>7. Delivered(m, A3)
  <2>1. <<t, "result">> \in A3 /\ <<o, "result">> \in A3
    <3>1. \A b \in outs : <<b[2], "result">> \in A3
      BY DEF Filled
    <3> QED BY <3>1
  <2> HIDE DEF A3
  <2> QED BY <1>2, <1>4, <1>6, <2>1 DEF Carries, Expected, StageOf, Delivered
<1>8. /\ Feeds(rs, A1) /\ Written(ws, A1, A2)
      /\ rs \in SUBSET Roles /\ ws \in SUBSET Roles
  BY <1>4 DEF Feeds, Written, Filled
<1>14. /\ outs \in SUBSET Bufs /\ \A b \in outs : b[1] = c /\ b[2] # "flat"
  BY <1>1, <1>4 DEF Bufs
<1>15. m = Mode(z.calls, c) /\ Direct(G) /\ A2 = Filled({})
  BY DEF Direct
<1> HIDE DEF m, s, k, A1, A2, A3, ws, rs, t, i, o, outs
<1>16. Begun(w, c, z, A1) /\ w.group = k.group
  BY <1>3, BegunWait
<1> HIDE DEF w
<1>9. Sent(w, sent, c, z, A2, rs, ws, Direct(G))
  BY <1>1, <1>16, <1>8, BegunSubmit
<1> HIDE DEF sent
<1>18. Begun(sent, c, z, A2) /\ Cov(sent, c) /\ sent.group = w.group
  BY <1>9, <1>15 DEF Sent
<1>10. Begun(r, c, z, A3) /\ Cov(r, c) /\ r.group = sent.group
  BY <1>1, <1>14, <1>15, <1>18, FlatOut DEF A3
<1> HIDE DEF r
<1> DEFINE N == {}
<1>19. Doing(r, c, z, A3, N, N)
  BY <1>10 DEF Begun
<1> HIDE DEF N
<1>12. z.block \/ r.group = <<>>
  BY <1>1, <1>3, <1>16, <1>18, <1>10 DEF Closed
<1> DEFINE f == Finish(r, Pairs(c, Outputs(m[1])))
<1>13. Given(f, c, z)
  <2>2. Outputs(m[1]) \subseteq UserRoles
    BY <1>6
  <2> QED BY <1>1, <1>7, <1>10, <1>12, <1>15, <1>19, <2>2, DoingFinish
<1>17. Gather(g, G, c) = Record(f, i)
  BY <1>5, <1>6
<1> HIDE DEF f
<1> QED BY <1>6, <1>13, <1>17, GivenRecord

\* Every collective gives its caller what it expects.
LEMMA MethodGives ==
  ASSUME NEW g, NEW c, NEW z, NEW A, NEW kind \in AllKinds, NEW G, Starting(g, c, z, A, kind, G)
  PROVE  Given(Method(kind, g, G, c), c, z)
BY InPlaceGives, FlatGives, AllToAllGives, AllGatherGives, ReduceScatterGives,
   GatherReceives, GatherCopies, ScatterSends, ScatterBroadcasts, SendGives, RecvGives
   DEF Method, AllKinds

-----------------------------------------------------------------------------
(* Operations on the caller's streams.                                     *)

\* What it has was there already, but for the last.
LEMMA TrailsFields ==
  ASSUME NEW g \in Hosts, NEW k, NEW s, NEW op, Trails(g, k, s, op)
  PROVE  /\ Line(k) = Line(g) /\ Queued(k, "comm") = Queued(g, "comm")
         /\ \A j, n : Reaches(k, j, n) = Reaches(g, j, n)
         /\ \A j : Covered(k, j) = Covered(g, j)
         /\ \A c, n : Settled(k, c, n) = Settled(g, c, n)
         /\ \A t \in {"cur", "side"} : \A i \in Queued(k, t) :
              \/ i \in Queued(g, t) /\ k.q[t][i] = g.q[t][i]
              \/ t = s /\ i = Len(g.q[s]) + 1 /\ k.q[t][i] = op
         /\ \A t \in {"cur", "side"} : \A i \in Queued(g, t) :
              i \in Queued(k, t) /\ k.q[t][i] = g.q[t][i]
<1>1. Line(k) = Line(g) /\ Queued(k, "comm") = Queued(g, "comm") /\ k.q["comm"] = g.q["comm"]
      /\ k.waits["comm"] = g.waits["comm"]
  BY DEF Trails, Line, Queued
<1>2. \A j, n : Reaches(k, j, n) = Reaches(g, j, n)
  BY <1>1 DEF Reaches
<1>3. \A j : Covered(k, j) = Covered(g, j)
  BY <1>1, <1>2 DEF Covered
<1>4. \A c, n : Settled(k, c, n) = Settled(g, c, n)
  BY <1>1 DEF Settled
<1>5. \A t \in Streams : Len(g.q[t]) \in Nat
  BY HostTypes
<1>6. ASSUME NEW t \in {"cur", "side"}, NEW i \in Queued(k, t)
      PROVE  \/ i \in Queued(g, t) /\ k.q[t][i] = g.q[t][i]
             \/ t = s /\ i = Len(g.q[s]) + 1 /\ k.q[t][i] = op
  <2>1. CASE t = s
    BY <1>5, <1>6, <2>1, StreamNames DEF Queued, Trails
  <2>2. CASE t # s
    <3>1. k.q[t] = g.q[t]
      BY <2>2 DEF Trails
    <3> QED BY <1>6, <3>1 DEF Queued
  <2> QED BY <2>1, <2>2
<1>7. ASSUME NEW t \in {"cur", "side"}, NEW i \in Queued(g, t)
      PROVE  i \in Queued(k, t) /\ k.q[t][i] = g.q[t][i]
  <2>1. CASE t = s
    BY <1>5, <1>7, <2>1, StreamNames DEF Queued, Trails
  <2>2. CASE t # s
    <3>1. k.q[t] = g.q[t]
      BY <2>2 DEF Trails
    <3> QED BY <1>7, <3>1 DEF Queued
  <2> QED BY <2>1, <2>2
<1> QED BY <1>1, <1>2, <1>3, <1>4, <1>6, <1>7

\* An operation that produces nothing of c adds no producer of c.
LEMMA TrailsMakes ==
  ASSUME NEW g \in Hosts, NEW k, NEW s, NEW op, Trails(g, k, s, op), NEW c, Unmade(op, c)
  PROVE  \A j : Makes(k, j, c) => Makes(g, j, c)
<1> TAKE j
<1> HAVE Makes(k, j, c)
<1>1. j \in Queued(k, "cur") /\ k.q["cur"][j] # op
  BY DEF Makes, Unmade
<1>2. \A t \in {"cur", "side"} : \A i \in Queued(k, t) :
              \/ i \in Queued(g, t) /\ k.q[t][i] = g.q[t][i]
              \/ t = s /\ i = Len(g.q[s]) + 1 /\ k.q[t][i] = op
  BY TrailsFields
<1>3. j \in Queued(g, "cur") /\ k.q["cur"][j] = g.q["cur"][j]
  BY <1>1, <1>2
<1> QED BY <1>3 DEF Makes

\* Nor reads any of it: what is sound of c stays so.
LEMMA TrailsSound ==
  ASSUME NEW g \in Hosts, NEW k, NEW s, NEW op, Trails(g, k, s, op),
         NEW c, Unmade(op, c), ~Consumes(op, c),
         NEW cl, NEW m, NEW N, NEW rf, Sound(g, c, cl, m, N, rf)
  PROVE  Sound(k, c, cl, m, N, rf)
<1>1. /\ Line(k) = Line(g) /\ Queued(k, "comm") = Queued(g, "comm") /\ k.q["comm"] = g.q["comm"]
      /\ k.pairs = g.pairs
  BY TrailsFields DEF Trails
<1>2. \A j, n : Reaches(k, j, n) = Reaches(g, j, n)
  BY TrailsFields
<1>3. \A j : Covered(k, j) = Covered(g, j)
  BY TrailsFields
<1>4. \A n : Settled(k, c, n) = Settled(g, c, n)
  BY TrailsFields
<1>5. \A j : Makes(k, j, c) => Makes(g, j, c)
  BY TrailsMakes
<1>6. \A j \in Queued(k, "cur") : Makes(k, j, c) => j \in Queued(g, "cur")
  BY <1>5 DEF Makes
<1>7. ASSUME cl.pc \in {"member", "work", "used"}
      PROVE  /\ m[1] \in AllKinds /\ Flows(Line(k), c, m, N) /\ Ahead(k, c)
  <2>1. m[1] \in AllKinds /\ Flows(Line(g), c, m, N) /\ Ahead(g, c)
    BY <1>7 DEF Sound
  <2>2. Ahead(k, c)
    <3> SUFFICES ASSUME NEW j \in Queued(k, "cur"), NEW i \in Queued(k, "comm"),
                        Makes(k, j, c), Of(k.q["comm"][i], c)
                 PROVE  Reaches(k, j, i)
      BY DEF Ahead
    <3>1. j \in Queued(g, "cur") /\ i \in Queued(g, "comm") /\ Makes(g, j, c) /\ Of(g.q["comm"][i], c)
      BY <1>1, <1>5, <1>6
    <3> QED BY <1>2, <2>1, <3>1 DEF Ahead
  <2> QED BY <1>1, <2>1, <2>2
<1>8. ASSUME cl.pc = "member" PROVE Member(k, c, m, N, rf)
  <2>1. Member(g, c, m, N, rf)
    BY <1>8 DEF Sound
  <2>2. \A p : Back(k, p) = Back(g, p)
    BY <1>1 DEF Back
  <2>3. \A j \in Queued(k, "cur") : Makes(k, j, c) => Covered(k, j)
    BY <1>3, <1>5, <1>6, <2>1 DEF Member
  <2> QED BY <1>1, <2>1, <2>2, <2>3 DEF Member
<1>9. ASSUME cl.pc = "work" PROVE Work(k, c, m, N, rf, cl.event)
  <2>1. Work(g, c, m, N, rf, cl.event)
    BY <1>9 DEF Sound
  <2>2. Behind(k, c, cl.event)
    BY <1>2, <1>5, <1>6, <2>1 DEF Work, Behind
  <2> QED BY <1>1, <1>4, <2>1, <2>2 DEF Work
<1>10. ASSUME cl.pc = "used" PROVE Settled(k, c, Len(k.q["comm"])) /\ Used(k, c, m, N)
  <2>1. Settled(g, c, Len(g.q["comm"])) /\ Used(g, c, m, N)
    BY <1>10 DEF Sound
  <2>2. ASSUME NEW t \in {"cur", "side"}, NEW i \in Queued(k, t), Consumes(k.q[t][i], c)
        PROVE  /\ k.q[t][i].reads = {<<c, r>> : r \in Outputs(m[1])}
               /\ \A r \in Outputs(m[1]) : Result(Line(k), c, r, m, N)
               /\ Settled(k, c, k.q[t][i].waits["comm"])
               /\ \A j \in Queued(k, "cur") : Makes(k, j, c) =>
                    \/ t = "cur" /\ j < i
                    \/ j <= k.q[t][i].waits["cur"] \/ Reaches(k, j, k.q[t][i].waits["comm"])
    <3>1. i \in Queued(g, t) /\ k.q[t][i] = g.q[t][i]
      BY <2>2, TrailsFields
    <3>2. /\ g.q[t][i].reads = {<<c, r>> : r \in Outputs(m[1])}
          /\ \A r \in Outputs(m[1]) : Result(Line(g), c, r, m, N)
          /\ Settled(g, c, g.q[t][i].waits["comm"])
          /\ \A j \in Queued(g, "cur") : Makes(g, j, c) =>
               \/ t = "cur" /\ j < i
               \/ j <= g.q[t][i].waits["cur"] \/ Reaches(g, j, g.q[t][i].waits["comm"])
      BY <2>1, <2>2, <3>1 DEF Used
    <3> QED BY <1>1, <1>2, <1>4, <1>5, <1>6, <3>1, <3>2
  <2>3. Used(k, c, m, N)
    BY <2>2 DEF Used
  <2> QED BY <1>1, <1>4, <2>1, <2>3
<1> QED BY <1>7, <1>8, <1>9, <1>10 DEF Sound

\* The buffers wait for the same producers.
LEMMA TrailsFacts ==
  ASSUME NEW g \in Hosts, NEW k, NEW s, NEW op, Trails(g, k, s, op), NEW vl
  PROVE  \A x : x[1] \notin op.writes \/ op.kind # "produce"
                => (x \in Facts(g, vl) <=> x \in Facts(k, vl))
<1> TAKE x
<1> HAVE x[1] \notin op.writes \/ op.kind # "produce"
<1>1. /\ \A i \in Queued(k, "cur") :
              \/ i \in Queued(g, "cur") /\ k.q["cur"][i] = g.q["cur"][i]
              \/ k.q["cur"][i] = op
      /\ \A i \in Queued(g, "cur") : i \in Queued(k, "cur") /\ k.q["cur"][i] = g.q["cur"][i]
  BY TrailsFields
<1>2. Pending(k, x[1]) <=> Pending(g, x[1])
  BY <1>1 DEF Pending
<1> QED BY <1>2 DEF Facts

\* What runs where.
LEMMA TrailsSides ==
  ASSUME NEW g \in Hosts, NEW k, NEW s, NEW op, Trails(g, k, s, op), NEW cs, Sides(g, cs),
         \/ op.kind = "release"
         \/ op.kind = "use" /\ op.writes = {} /\ \A b \in op.reads : cs[b[1]].pc = "used"
         \/ /\ s = "cur" /\ op.kind = "produce" /\ op.reads = {}
            /\ \E c \in Calls : cs[c].pc # "new" /\ op.writes = {<<c, "in">>}
  PROVE  Sides(k, cs)
<1>1. \A t \in {"cur", "side"} : \A i \in Queued(k, t) :
              \/ i \in Queued(g, t) /\ k.q[t][i] = g.q[t][i]
              \/ t = s /\ i = Len(g.q[s]) + 1 /\ k.q[t][i] = op
  BY TrailsFields
<1>2. Line(k) = Line(g) /\ k.pairs = g.pairs
  BY TrailsFields DEF Trails
<1>3. ASSUME NEW i \in Queued(k, "cur"), k.q["cur"][i].kind = "produce"
      PROVE  /\ k.q["cur"][i].reads = {}
             /\ \E c \in Calls : cs[c].pc # "new" /\ k.q["cur"][i].writes = {<<c, "in">>}
  <2>1. CASE i \in Queued(g, "cur") /\ k.q["cur"][i] = g.q["cur"][i]
    BY <1>3, <2>1 DEF Sides
  <2>2. CASE k.q["cur"][i] = op
    BY <1>3, <2>2
  <2> QED BY <1>1, <2>1, <2>2
<1>4. ASSUME NEW t \in {"cur", "side"}, NEW i \in Queued(k, t)
      PROVE  /\ k.q[t][i].kind \in {"use", "release"} \/ (t = "cur" /\ k.q[t][i].kind = "produce")
             /\ k.q[t][i].kind = "use" =>
                  /\ k.q[t][i].writes = {}
                  /\ \A b \in k.q[t][i].reads : cs[b[1]].pc = "used"
  <2>1. CASE i \in Queued(g, t) /\ k.q[t][i] = g.q[t][i]
    BY <1>4, <2>1 DEF Sides
  <2>2. CASE t = s /\ k.q[t][i] = op
    BY <1>4, <2>2
  <2> QED BY <1>1, <2>1, <2>2
<1>5. /\ \A i \in 1..Len(Line(k)) : Line(k)[i].kind \in {"copy", "library", "release"}
      /\ \A p \in k.pairs : p[1][1] = p[2][1] /\ p[1][2] \in UserRoles
  BY <1>2 DEF Sides
<1> QED BY <1>3, <1>4, <1>5 DEF Sides

\* Enqueue on a caller's stream.
LEMMA EnqueueTrails ==
  ASSUME NEW g \in Hosts, NEW s \in {"cur", "side"}, NEW op \in OpSet
  PROVE  Trails(g, Enqueue(g, s, op), s, Stamped(g, s, op))
<1> DEFINE k == Enqueue(g, s, op)
<1>1. s \in Streams /\ s # "comm"
  BY StreamNames
<1>2. k \in Hosts /\ Aside(g, k)
  BY <1>1, EnqueueAside
<1>3. /\ \A t \in Streams \ {s} : k.q[t] = g.q[t]
      /\ Len(k.q[s]) = Len(g.q[s]) + 1
      /\ \A i \in Queued(g, s) : k.q[s][i] = g.q[s][i]
      /\ k.q[s][Len(g.q[s]) + 1] = Stamped(g, s, op)
  BY <1>1, EnqueuePositions
<1>4. k.waits["comm"] = g.waits["comm"]
  BY <1>1, StreamNames DEF Enqueue, Hosts
<1> HIDE DEF k
<1>5. Trails(g, k, s, Stamped(g, s, op))
  BY <1>1, <1>2, <1>3, <1>4, StreamNames DEF Trails, Aside
<1> QED BY <1>5 DEF k

-----------------------------------------------------------------------------
(* Freeing.                                                                *)

\* Only the owner waits for more.
LEMMA UsersFoldWaits ==
  ASSUME NEW g \in Hosts, NEW b \in Bufs, NEW S \in SUBSET Streams
  PROVE  LET k == UsersFold(g, b, S)
         IN /\ g.waits["comm"]["cur"] <= k.waits["comm"]["cur"]
            /\ Owner(b) # "comm" => k.waits["comm"] = g.waits["comm"]
<1> DEFINE Good(k) == /\ g.waits["comm"]["cur"] <= k.waits["comm"]["cur"]
                      /\ Owner(b) # "comm" => k.waits["comm"] = g.waits["comm"]
           R == {x \in Hosts \X SUBSET S : Good(x[1])}
<1>1. g.waits["comm"]["cur"] \in Nat
  BY HostTypes, StreamNames
<1>2. <<g, {}>> \in R
  BY <1>1
<1>3. ASSUME NEW s \in SUBSET S, NEW t \in S, NEW k \in Hosts, t \notin s, <<k, s>> \in R
      PROVE  <<WaitStream(k, Owner(b), t), s \cup {t}>> \in R
  <2> DEFINE n == WaitStream(k, Owner(b), t)
  <2>1. Good(k)
    BY <1>3
  <2>2. /\ n \in Hosts
        /\ \A u \in Streams : k.waits[Owner(b)][u] <= n.waits[Owner(b)][u]
    BY OwnerType, WaitStreamFields
  <2>3. "comm" # Owner(b) => n.waits["comm"] = k.waits["comm"]
    BY StreamNames DEF WaitStream, WaitFor, Hosts
  <2>4. n.waits["comm"]["cur"] \in Nat /\ k.waits["comm"]["cur"] \in Nat
    BY <2>2, HostTypes, StreamNames
  <2> HIDE DEF n
  <2>5. Good(n)
    BY <1>1, <2>1, <2>2, <2>3, <2>4, StreamNames
  <2>6. s \cup {t} \in SUBSET S
    OBVIOUS
  <2> HIDE DEF Good
  <2>7. <<n, s \cup {t}>> \in R
    BY <2>2, <2>5, <2>6
  <2> QED BY <2>7 DEF n
<1> HIDE DEF R
<1>4. <<UsersFold(g, b, S), S>> \in R
  BY <1>2, <1>3, UsersFoldKept
<1> QED BY <1>4 DEF R

\* A further operation on the caller's streams, of nobody's.
LEMMA FineTrails ==
  ASSUME NEW g \in Hosts, NEW k, NEW s, NEW op, Trails(g, k, s, op), op.kind = "release",
         NEW cs, NEW vl, NEW rf, Fine(g, cs, vl, rf)
  PROVE  Fine(k, cs, vl, rf)
<1>1. \A x : x \in Facts(g, vl) <=> x \in Facts(k, vl)
  BY TrailsFacts
<1>2. Facts(k, vl) = Facts(g, vl)
  BY <1>1
<1>3. Sides(k, cs)
  BY TrailsSides DEF Fine
<1>4. ASSUME NEW c \in Calls PROVE Sound(k, c, cs[c], Mode(cs, c), Facts(k, vl), rf)
  <2>1. Unmade(op, c) /\ ~Consumes(op, c)
    BY DEF Unmade, Consumes
  <2>2. Sound(g, c, cs[c], Mode(cs, c), Facts(g, vl), rf)
    BY DEF Fine
  <2>3. Sound(k, c, cs[c], Mode(cs, c), Facts(g, vl), rf)
    BY <2>1, <2>2, TrailsSound
  <2> QED BY <1>2, <2>3
<1> QED BY <1>3, <1>4 DEF Fine

\* The facts depend on the current stream only.
LEMMA SameFacts ==
  ASSUME NEW g, NEW k, k.q["cur"] = g.q["cur"]
  PROVE  \A vl : Facts(k, vl) = Facts(g, vl)
BY DEF Facts, Pending, Queued

\* Bookkeeping, and waits that only grow.
LEMMA FineSame ==
  ASSUME NEW g \in Hosts, NEW k \in Hosts, k.q = g.q, k.group = g.group, k.pairs = g.pairs,
         g.waits["comm"]["cur"] <= k.waits["comm"]["cur"],
         NEW cs, NEW vl, NEW rf, Fine(g, cs, vl, rf)
  PROVE  Fine(k, cs, vl, rf)
<1>1. Orders(g, k)
  BY OrdersSame
<1>2. Line(k) = Line(g)
  BY DEF Line
<1>3. Facts(k, vl) = Facts(g, vl)
  BY SameFacts
<1>4. Len(Line(k)) = Len(Line(g)) /\ \A i \in 1..Len(Line(g)) : Alike(Line(k)[i], Line(g)[i])
  BY <1>2 DEF Alike
<1>5. Sides(k, cs)
  BY <1>2 DEF Fine, Sides, Queued
<1>6. ASSUME NEW c \in Calls PROVE Sound(k, c, cs[c], Mode(cs, c), Facts(k, vl), rf)
  <2>1. Sound(g, c, cs[c], Mode(cs, c), Facts(g, vl), rf)
    BY DEF Fine
  <2>2. SamePairs(g, k, c)
    BY DEF SamePairs
  <2>3. Sound(k, c, cs[c], Mode(cs, c), Facts(g, vl), rf)
    BY <1>1, <1>4, <2>1, <2>2, SoundSame
  <2> QED BY <1>3, <2>3
<1> QED BY <1>5, <1>6 DEF Fine

\* A release is an operation that writes its buffer.
LEMMA ReleaseType ==
  ASSUME NEW b \in Bufs
  PROVE  /\ Release(b) \in OpSet /\ Release(b).kind = "release"
         /\ Release(b).reads = {} /\ Release(b).writes = {b}
<1>1. "release" \in OpKinds /\ {} \in SUBSET Bufs /\ {b} \in SUBSET Bufs
  BY DEF OpKinds
<1> QED BY <1>1, OpType DEF Release

\* Releasing an internal buffer that is held by no block: nothing behind it on
\* the comm stream reads it.
LEMMA ReleaseFine ==
  ASSUME NEW g \in Hosts, Deferred(g), NEW b \in Bufs, b \notin Held(g), Owner(b) = "comm",
         NEW cs, NEW vl, NEW rf, Fine(g, cs, vl, rf)
  PROVE  Fine(Enqueue(g, "comm", Release(b)), cs, vl, rf)
<1> DEFINE op == Release(b)
           k == Enqueue(g, "comm", op)
           x == Len(g.q["comm"]) + 1
<1>1. op \in OpSet /\ op.kind = "release" /\ op.reads = {} /\ op.writes = {b}
  BY ReleaseType
<1> HIDE DEF op
<1>2. /\ k \in Hosts /\ Orders(g, k) /\ Aside(g, k)
      /\ Inserted(Line(g), Line(k), x, op)
  BY <1>1, EnqueueInserted
<1>3. /\ k.pairs = g.pairs /\ k.q["cur"] = g.q["cur"]
  BY <1>2 DEF Aside, Orders
<1> HIDE DEF k
<1>4. x > Len(g.q["comm"]) /\ Len(g.q["comm"]) \in Nat
  BY HostTypes, StreamNames
<1>5. Facts(k, vl) = Facts(g, vl)
  BY <1>3, SameFacts
<1>6. Sides(g, cs)
  BY DEF Fine
<1>7. op.kind \in {"copy", "library", "release"}
  BY <1>1
<1>8. Sides(k, cs)
  BY <1>2, <1>3, <1>6, <1>7, SidesInserted
<1>9. ASSUME NEW i \in x..Len(Line(g)) PROVE Line(g)[i].reads \cap op.writes = {}
  <2>1. i \in 1..Len(Line(g)) /\ i > Len(g.q["comm"])
    BY <1>4, LineFields
  <2>2. /\ i - Len(g.q["comm"]) \in 1..Len(g.group)
        /\ Line(g)[i] = g.group[i - Len(g.q["comm"])]
    BY <2>1, LineFields
  <2>3. Line(g)[i] \in GroupOps(g)
    BY <2>2 DEF GroupOps
  <2>4. Works(Line(g)[i], Held(g))
    BY <2>3 DEF Deferred
  <2> QED BY <1>1, <2>4 DEF Works, Touches
<1>10. ASSUME NEW c \in Calls PROVE Sound(k, c, cs[c], Mode(cs, c), Facts(k, vl), rf)
  <2>1. Sound(g, c, cs[c], Mode(cs, c), Facts(g, vl), rf)
    BY DEF Fine
  <2>2. SamePairs(g, k, c)
    BY <1>3 DEF SamePairs
  <2>3. ~Of(op, c)
    BY <1>1 DEF Of
  <2>4. Needed(g, c) \cap op.writes = {}
    <3>1. \A p \in g.pairs : p[2] \in Held(g)
      BY DEF Held
    <3>2. \A r \in UserRoles : <<c, r>> # b
      BY BufFacts
    <3> QED BY <1>1, <3>1, <3>2 DEF Needed
  <2>5. \A i \in x..Len(Line(g)) : Of(Line(g)[i], c) /\ Shape(Line(g)[i], c)
                                    => Line(g)[i].reads \cap op.writes = {}
    BY <1>9
  <2> HIDE DEF x
  <2>6. Sound(k, c, cs[c], Mode(cs, c), Facts(g, vl), rf)
    BY <1>2, <1>4, <2>1, <2>2, <2>3, <2>4, <2>5, SoundInserted
  <2> QED BY <1>5, <2>6
<1>11. Fine(k, cs, vl, rf)
  BY <1>8, <1>10 DEF Fine
<1> QED BY <1>11 DEF k, op

\* Freeing a buffer no block holds.
LEMMA FreeFine ==
  ASSUME NEW g \in Hosts, Deferred(g), NEW b \in Bufs, b \notin Held(g),
         NEW cs, NEW vl, NEW rf, Fine(g, cs, vl, rf)
  PROVE  Fine(Free(g, b), cs, vl, rf)
<1> DEFINE k0 == UsersFold(g, b, g.users[b])
           op == Release(b)
<1>1. Free(g, b) = Enqueue(k0, Owner(b), op)
  BY DEF Free, UsersFold, Release
<1>2. g.users[b] \in SUBSET Streams
  BY HostTypes
<1>3. k0 \in Hosts /\ k0.q = g.q /\ Aside(g, k0)
  BY <1>2, UsersFoldFields
<1>4. /\ g.waits["comm"]["cur"] <= k0.waits["comm"]["cur"]
  BY <1>2, UsersFoldWaits
<1> HIDE DEF k0
<1>5. k0.group = g.group /\ k0.pairs = g.pairs
  BY <1>3 DEF Aside
<1>6. Fine(k0, cs, vl, rf)
  BY <1>3, <1>4, <1>5, FineSame
<1>7. Deferred(k0) /\ b \notin Held(k0)
  <2>1. Held(k0) = Held(g) /\ GroupOps(k0) = GroupOps(g)
    BY <1>3, HeldAside
  <2> QED BY <1>5, <2>1 DEF Deferred
<1>8. CASE Owner(b) = "comm"
  BY <1>1, <1>3, <1>6, <1>7, <1>8, ReleaseFine
<1>9. CASE Owner(b) # "comm"
  <2>1. Owner(b) = "cur"
    BY <1>9 DEF Owner
  <2>2. op \in OpSet /\ op.kind = "release"
    BY ReleaseType
  <2> HIDE DEF op
  <2> DEFINE s == "cur"
             k == Enqueue(k0, s, op)
             st == Stamped(k0, s, op)
  <2>3. s \in {"cur", "side"} /\ s \in Streams
    BY StreamNames
  <2> HIDE DEF s
  <2>4. Trails(k0, k, s, st)
    BY <1>3, <2>2, <2>3, EnqueueTrails
  <2>5. st.kind = "release"
    BY <1>3, <2>2, <2>3, StampedFields
  <2> HIDE DEF k, st
  <2>6. Fine(k, cs, vl, rf)
    BY <1>3, <1>6, <2>4, <2>5, FineTrails
  <2> QED BY <1>1, <2>1, <2>6 DEF k, s
<1> QED BY <1>8, <1>9

\* The frees at the end of a host step keep what is sound.
LEMMA FreeAllAside ==
  ASSUME NEW g \in Hosts, NEW S \in SUBSET Bufs
  PROVE  FreeAll(g, S) \in Hosts /\ Aside(g, FreeAll(g, S))
<1> DEFINE R == {x \in Hosts \X SUBSET S : Aside(g, x[1])}
<1>1. <<g, {}>> \in R
  BY DEF Aside
<1>2. ASSUME NEW s \in SUBSET S, NEW b \in S, NEW k \in Hosts, b \notin s, <<k, s>> \in R
      PROVE  <<Free(k, b), s \cup {b}>> \in R
  <2>1. Free(k, b) \in Hosts /\ Aside(k, Free(k, b))
    BY FreeFields
  <2>2. Aside(g, Free(k, b))
    BY <1>2, <2>1 DEF Aside
  <2>3. s \cup {b} \in SUBSET S
    OBVIOUS
  <2> QED BY <2>1, <2>2, <2>3
<1> HIDE DEF R
<1>3. FreeAll(g, S) \in Hosts /\ <<FreeAll(g, S), S>> \in R
  BY <1>1, <1>2, FreeAllKept
<1> QED BY <1>3 DEF R

\* Freeing all that nobody refers to.
LEMMA FreeAllFine ==
  ASSUME NEW g \in Hosts, Deferred(g), NEW S \in SUBSET Bufs, S \cap Held(g) = {},
         NEW cs, NEW vl, NEW rf, Fine(g, cs, vl, rf)
  PROVE  Fine(FreeAll(g, S), cs, vl, rf)
<1> DEFINE Good(k) == Aside(g, k) /\ Fine(k, cs, vl, rf)
           R == {x \in Hosts \X SUBSET S : Good(x[1])}
<1>1. <<g, {}>> \in R
  BY DEF Aside
<1>2. ASSUME NEW s \in SUBSET S, NEW b \in S, NEW k \in Hosts, b \notin s, <<k, s>> \in R
      PROVE  <<Free(k, b), s \cup {b}>> \in R
  <2>0. Aside(g, k) /\ Fine(k, cs, vl, rf)
    BY <1>2
  <2>1. Free(k, b) \in Hosts /\ Aside(k, Free(k, b))
    BY FreeFields
  <2>2. Aside(g, Free(k, b))
    BY <2>0, <2>1 DEF Aside
  <2>4. Deferred(k) /\ b \notin Held(k)
    <3>1. Held(k) = Held(g) /\ GroupOps(k) = GroupOps(g) /\ k.pairs = g.pairs
      BY <2>0, HeldAside DEF Aside
    <3> QED BY <3>1 DEF Deferred
  <2>5. Fine(Free(k, b), cs, vl, rf)
    BY <2>0, <2>4, FreeFine
  <2>3. s \cup {b} \in SUBSET S
    OBVIOUS
  <2>6. Good(Free(k, b))
    BY <2>2, <2>5
  <2> HIDE DEF Good
  <2> QED BY <2>1, <2>3, <2>6
<1> HIDE DEF R
<1>3. <<FreeAll(g, S), S>> \in R
  BY <1>1, <1>2, FreeAllKept
<1> QED BY <1>3 DEF R

\* A host step's end: the streams' invariant of the state it leaves says what the
\* block still holds.
LEMMA HostFine ==
  ASSUME NEW g \in Hosts, NEW alive \in SUBSET Bufs, NEW kept, NEW cs, NEW vl,
         Fine(g, cs, vl, kept), Host(g, alive, kept), Deferred(h')
  PROVE  Fine(h', cs, vl, kept)
<1> DEFINE dead == alive \ (kept \cup Held(g))
<1>1. h' = FreeAll(g, dead)
  BY DEF Host, FreeAll
<1>2. dead \in SUBSET Bufs /\ dead \cap Held(g) = {}
  OBVIOUS
<1> HIDE DEF dead
<1>3. Aside(g, h')
  BY <1>1, <1>2, FreeAllAside
<1>4. Deferred(g)
  <2>1. Held(h') = Held(g) /\ GroupOps(h') = GroupOps(g) /\ h'.pairs = g.pairs
    BY <1>3, HeldAside DEF Aside
  <2> QED BY <2>1 DEF Deferred
<1> QED BY <1>1, <1>2, <1>4, FreeAllFine

-----------------------------------------------------------------------------
(* The steps.                                                              *)

\* Only what the buffers of call c hold, and which of them its caller refers to,
\* matters to it.
LEMMA SoundNow ==
  ASSUME NEW g \in Hosts, NEW c, NEW cl, NEW m, NEW N, NEW M, NEW rf, NEW rf2,
         Sound(g, c, cl, m, N, rf),
         \A b, v : b[1] = c /\ v \in Vals /\ <<b, v>> \in N => <<b, v>> \in M,
         \A r : <<c, r>> \in rf2 => <<c, r>> \in rf,
         \A p \in g.pairs : p[1][1] = p[2][1]
  PROVE  Sound(g, c, cl, m, M, rf2)
<1>1. \A l, i, b, v : b[1] = c /\ v \in Vals /\ Holds(l, i, b, v, m, N) => Holds(l, i, b, v, m, M)
  BY HoldsNow
<1>2. \A l, b, v : b[1] = c /\ v \in Vals /\ Ends(l, b, v, m, N) => Ends(l, b, v, m, M)
  BY <1>1 DEF Ends
<1>3. \A l, r : Result(l, c, r, m, N) => Result(l, c, r, m, M)
  BY <1>2, ValueTypes DEF Result
<1>4. ASSUME Flows(Line(g), c, m, N) PROVE Flows(Line(g), c, m, M)
  <2> SUFFICES ASSUME NEW i \in 1..Len(Line(g)), Of(Line(g)[i], c)
               PROVE  /\ Shape(Line(g)[i], c)
                      /\ \A b \in Line(g)[i].reads : Holds(Line(g), i, b, In(Line(g)[i], m), m, M)
    BY DEF Flows
  <2>1. /\ Shape(Line(g)[i], c)
        /\ \A b \in Line(g)[i].reads : Holds(Line(g), i, b, In(Line(g)[i], m), m, N)
    BY <1>4 DEF Flows
  <2>2. \A b \in Line(g)[i].reads : b[1] = c
    BY <2>1 DEF Shape, Touches
  <2>3. In(Line(g)[i], m) \in Vals
    BY ValueTypes
  <2> QED BY <1>1, <2>1, <2>2, <2>3
<1>5. ASSUME Member(g, c, m, N, rf) PROVE Member(g, c, m, M, rf2)
  <2>1. \A p \in g.pairs : p[1][1] = c => p[2][1] = c
    OBVIOUS
  <2>2. \A p : Brings(m, p) \in Vals
    BY ValueTypes DEF Brings
  <2>3. \A p \in g.pairs : p[1][1] = c /\ Back(g, p) =>
          Brings(m, p) \in Expected(m[1], p[1][2]) /\ Ends(Line(g), p[2], Brings(m, p), m, M)
    BY <1>2, <1>5, <2>1, <2>2 DEF Member
  <2> QED BY <1>3, <1>5, <2>3 DEF Member
<1>6. \A ev : Work(g, c, m, N, rf, ev) => Work(g, c, m, M, rf2, ev)
  BY <1>3 DEF Work, Results
<1>7. Used(g, c, m, N) => Used(g, c, m, M)
  BY <1>3 DEF Used
<1> QED BY <1>4, <1>5, <1>6, <1>7 DEF Sound

\* Calls only go on.
LEMMA SidesLater ==
  ASSUME NEW g \in Hosts, NEW cs, NEW cs2, Sides(g, cs),
         \A c \in Calls : cs[c].pc # "new" => cs2[c].pc # "new",
         \A c \in Calls : cs[c].pc = "used" => cs2[c].pc = "used"
  PROVE  Sides(g, cs2)
<1>1. ASSUME NEW s \in {"cur", "side"}, NEW i \in Queued(g, s), NEW b \in g.q[s][i].reads
      PROVE  b[1] \in Calls
  <2>1. s \in Streams
    BY StreamNames
  <2>2. g.q[s][i] \in OpSet
    BY <2>1, HostTypes
  <2>3. b \in Bufs
    BY <2>2 DEF OpSet
  <2> QED BY <2>3, BufFacts
<1> QED BY <1>1 DEF Sides

\* What is settled is settled at every later point.
LEMMA SettledLater ==
  ASSUME NEW g \in Hosts, NEW c, NEW n \in Nat, NEW k \in Nat, n <= k, Settled(g, c, n)
  PROVE  Settled(g, c, k)
<1>1. Len(Line(g)) \in Nat
  BY LineFields
<1> QED BY <1>1 DEF Settled

\* Above all at the end of the comm stream.
LEMMA SettledAll ==
  ASSUME NEW g \in Hosts, NEW c, NEW n, Settled(g, c, n)
  PROVE  Settled(g, c, Len(g.q["comm"]))
BY DEF Settled, Queued

\* What is reached is reached by more operations.
LEMMA ReachesLater ==
  ASSUME NEW g \in Hosts, NEW j, NEW n \in Nat, NEW k \in Nat, n <= k, Reaches(g, j, n)
  PROVE  Reaches(g, j, k)
<1>1. Len(g.q["comm"]) \in Nat
  BY HostTypes, StreamNames
<1> QED BY <1>1 DEF Reaches, Queued

\* Whoever waited for the call may use its results.
LEMMA UseSound ==
  ASSUME NEW g \in Hosts, NEW k, NEW s, NEW op, Trails(g, k, s, op),
         NEW c, NEW cl, NEW m, NEW N, NEW rf, Sound(g, c, cl, m, N, rf), cl.pc = "work",
         cl.event \in [Streams -> Nat],
         op.kind = "use", op.reads = {<<c, r>> : r \in Outputs(m[1])}, op.reads \subseteq rf,
         op.waits \in [Streams -> Nat],
         \A t \in Streams : t # s => cl.event[t] <= op.waits[t],
         \A t \in {"cur", "side"} : \A i \in Queued(g, t) : ~Consumes(g.q[t][i], c),
         NEW cl2, cl2.pc = "used", NEW rf2
  PROVE  Sound(k, c, cl2, m, N, rf2)
<1> DEFINE ev == cl.event
<1>1. /\ Line(k) = Line(g) /\ Queued(k, "comm") = Queued(g, "comm") /\ k.q["comm"] = g.q["comm"]
  BY TrailsFields, SMTT(30) DEF Trails
<1>2. \A j, n : Reaches(k, j, n) = Reaches(g, j, n)
  BY TrailsFields
<1>4. \A n : Settled(k, c, n) = Settled(g, c, n)
  BY TrailsFields
<1>0. Unmade(op, c)
  BY DEF Unmade
<1>5. \A j : Makes(k, j, c) => Makes(g, j, c)
  BY <1>0, TrailsMakes
<1>6. \A j \in Queued(k, "cur") : Makes(k, j, c) => j \in Queued(g, "cur")
  BY <1>5 DEF Makes
<1>7. /\ m[1] \in AllKinds /\ Flows(Line(g), c, m, N) /\ Ahead(g, c)
      /\ Work(g, c, m, N, rf, ev)
  BY DEF Sound
<1>8. Ahead(k, c)
  <3> SUFFICES ASSUME NEW j \in Queued(k, "cur"), NEW i \in Queued(k, "comm"),
                      Makes(k, j, c), Of(k.q["comm"][i], c)
               PROVE  Reaches(k, j, i)
    BY DEF Ahead
  <3>1. j \in Queued(g, "cur") /\ i \in Queued(g, "comm") /\ Makes(g, j, c) /\ Of(g.q["comm"][i], c)
    BY <1>1, <1>5, <1>6
  <3> QED BY <1>2, <1>7, <3>1 DEF Ahead
<1>9. /\ ev["comm"] \in Nat /\ ev["cur"] \in Nat
      /\ op.waits["comm"] \in Nat /\ op.waits["cur"] \in Nat
      /\ ev["comm"] <= op.waits["comm"] /\ (s # "cur" => ev["cur"] <= op.waits["cur"])
  BY StreamNames DEF Trails
<1>10. Settled(g, c, op.waits["comm"]) /\ Settled(k, c, Len(k.q["comm"]))
  <2>1. Settled(g, c, ev["comm"])
    BY <1>7 DEF Work
  <2>2. Settled(g, c, op.waits["comm"])
    <3> HIDE DEF ev
    <3> QED BY <1>9, <2>1, SettledLater
  <2>3. Settled(g, c, Len(g.q["comm"]))
    BY <2>1, SettledAll
  <2> QED BY <1>1, <1>4, <2>2, <2>3
<1>11. \A r \in Outputs(m[1]) : Result(Line(g), c, r, m, N)
  BY <1>7 DEF Work, Results
<1>12. ASSUME NEW j \in Queued(k, "cur"), Makes(k, j, c), NEW i, i = Len(g.q[s]) + 1
       PROVE  \/ s = "cur" /\ j < i
              \/ j <= op.waits["cur"] \/ Reaches(k, j, op.waits["comm"])
  <2>1. Makes(g, j, c) /\ j \in Queued(g, "cur")
    BY <1>5, <1>6, <1>12
  <2>2. j <= ev["cur"] \/ Reaches(g, j, ev["comm"])
    BY <1>7, <2>1 DEF Work, Behind
  <2>3. j \in Nat /\ j <= Len(g.q["cur"]) /\ Len(g.q["cur"]) \in Nat
    BY <2>1, HostTypes, StreamNames DEF Queued
  <2>4. CASE s = "cur"
    BY <1>12, <2>3, <2>4
  <2>5. CASE s # "cur"
    <3>1. CASE j <= ev["cur"]
      BY <1>9, <2>3, <2>5, <3>1
    <3>2. CASE Reaches(g, j, ev["comm"])
      <4> HIDE DEF ev
      <4>1. Reaches(g, j, op.waits["comm"])
        BY <1>9, <3>2, ReachesLater
      <4> QED BY <1>2, <4>1
    <3> QED BY <2>2, <3>1, <3>2
  <2> QED BY <2>4, <2>5
<1>13. Used(k, c, m, N)
  <2> SUFFICES ASSUME NEW t \in {"cur", "side"}, NEW i \in Queued(k, t), Consumes(k.q[t][i], c)
        PROVE  /\ k.q[t][i].reads = {<<c, r>> : r \in Outputs(m[1])}
               /\ \A r \in Outputs(m[1]) : Result(Line(k), c, r, m, N)
               /\ Settled(k, c, k.q[t][i].waits["comm"])
               /\ \A j \in Queued(k, "cur") : Makes(k, j, c) =>
                    \/ t = "cur" /\ j < i
                    \/ j <= k.q[t][i].waits["cur"] \/ Reaches(k, j, k.q[t][i].waits["comm"])
    BY DEF Used
  <2>1. \/ i \in Queued(g, t) /\ k.q[t][i] = g.q[t][i]
        \/ t = s /\ i = Len(g.q[s]) + 1 /\ k.q[t][i] = op
    BY TrailsFields
  <2>2. t = s /\ i = Len(g.q[s]) + 1 /\ k.q[t][i] = op
    BY <2>1
  <2> QED BY <1>1, <1>4, <1>10, <1>11, <1>12, <2>2
<1>14. Flows(Line(k), c, m, N) /\ Settled(k, c, Len(k.q["comm"]))
  BY <1>1, <1>7, <1>10
<1> QED BY <1>7, <1>8, <1>13, <1>14 DEF Sound

\* What was read stays what was expected while used calls stay used.
LEMMA ReadLater ==
  ASSUME NEW sn, NEW cs, NEW cs2, Read(sn, cs),
         \A c \in Calls : cs[c].pc = "used" => cs2[c].pc = "used" /\ cs2[c].kind = cs[c].kind
  PROVE  Read(sn, cs2)
BY DEF Read

\* Work.wait.
LEMMA WaitWorkValue ==
  ASSUME StreamsInv, StreamsInv', ValueInv, NEW c \in Calls, NEW s \in {"cur", "side"},
         WaitWork(c, s)
  PROVE  ValueInv'
<1> DEFINE outs == {<<c, r>> : r \in Outputs(call[c].kind)}
           w == WaitFor(h, s, call[c].event)
           g == RecordStream(w, outs, s)
           op == Op("use", outs, {})
           st == Stamped(g, s, op)
           k == Enqueue(g, s, op)
           rf == refs \ Mine(c, call[c].kind)
           cs == [call EXCEPT ![c].pc = "used", ![c].event = NoWait]
           m == Mode(call, c)
<1>1. /\ call[c].pc = "work" /\ outs \subseteq refs /\ Host(k, live, rf) /\ call' = cs
      /\ lib' = lib /\ val' = val /\ seen' = seen
  BY DEF WaitWork, Waits, deviceVars
<1>2. /\ h \in Hosts /\ call \in [Calls -> CallSet] /\ live \in SUBSET Bufs /\ refs \subseteq live
      /\ Deferred(h')
  BY DEF StreamsInv, HeldInv
<1>3. call[c].event \in [Streams -> Nat] /\ s \in Streams /\ s # "comm" /\ "comm" \in Streams
  BY <1>2, StreamNames DEF CallSet
<1>4. outs \in SUBSET Bufs
  BY <1>1, <1>2
<1>5. /\ w \in Hosts /\ w.q = h.q /\ Aside(h, w)
      /\ \A t \in Streams : t # s => call[c].event[t] <= w.waits[s][t]
      /\ w.waits["comm"] = h.waits["comm"]
  <2>1. w.waits["comm"] = h.waits["comm"]
    BY <1>2, <1>3 DEF WaitFor, Hosts
  <2> QED BY <1>2, <1>3, <2>1, WaitForFields
<1> HIDE DEF w
<1>6. /\ g \in Hosts /\ g.q = w.q /\ Aside(w, g) /\ g.waits = w.waits
  <2>1. g.waits = w.waits
    BY <1>5 DEF RecordStream, Hosts
  <2> QED BY <1>3, <1>4, <1>5, <2>1, RecordStreamFields
<1> HIDE DEF g
<1>7. Fine(g, call, val, refs)
  <2>1. g.q = h.q /\ g.group = h.group /\ g.pairs = h.pairs
    BY <1>5, <1>6 DEF Aside
  <2>2. h.waits["comm"]["cur"] <= g.waits["comm"]["cur"]
    BY <1>2, <1>5, <1>6, HostTypes, StreamNames
  <2> QED BY <1>2, <1>6, <2>1, <2>2, FineSame DEF ValueInv
<1>8. op \in OpSet /\ op.kind = "use" /\ op.reads = outs /\ op.writes = {}
  <2>1. "use" \in OpKinds /\ {} \in SUBSET Bufs
    BY DEF OpKinds
  <2> QED BY <1>4, <2>1, OpType
<1> HIDE DEF op
<1>9. /\ Trails(g, k, s, st)
      /\ st.kind = "use" /\ st.reads = outs /\ st.writes = {} /\ st.waits = g.waits[s]
  BY <1>3, <1>6, <1>8, EnqueueTrails, StampedFields
<1> HIDE DEF k, st
<1>10. /\ cs[c].pc = "used" /\ cs[c].kind = call[c].kind
       /\ \A d \in Calls \ {c} : cs[d] = call[d]
  BY <1>2 DEF CallSet
<1>11. \A d \in Calls : Mode(cs, d) = Mode(call, d)
  BY <1>10 DEF Mode
<1>12. Sides(k, cs)
  <2> HIDE DEF cs
  <2>0. \A d \in Calls : /\ call[d].pc = "used" => cs[d].pc = "used"
                         /\ call[d].pc # "new" => cs[d].pc # "new"
    BY <1>1, <1>10
  <2>1. Sides(g, cs)
    <3>1. Sides(g, call) /\ g \in Hosts
      BY <1>6, <1>7 DEF Fine
    <3>2. \A d \in Calls : call[d].pc # "new" => cs[d].pc # "new"
      BY <2>0
    <3>3. \A d \in Calls : call[d].pc = "used" => cs[d].pc = "used"
      BY <2>0
    <3> QED BY <3>1, <3>2, <3>3, SidesLater
  <2>2. \A b \in st.reads : cs[b[1]].pc = "used"
    BY <1>9, <1>10
  <2> QED BY <1>6, <1>9, <2>1, <2>2, TrailsSides
<1>13. Facts(k, val) = Facts(g, val)
  <2>1. \A x : x \in Facts(g, val) <=> x \in Facts(k, val)
    BY <1>6, <1>9, TrailsFacts
  <2> QED BY <2>1
<1> HIDE DEF cs
<1>14. Sides(g, call)
  BY <1>7 DEF Fine
<1>15. Sound(k, c, cs[c], m, Facts(g, val), rf)
  <2>1. Sound(g, c, call[c], m, Facts(g, val), refs)
    BY <1>7 DEF Fine
  <2>2. st.reads = {<<c, r>> : r \in Outputs(m[1])} /\ st.reads \subseteq refs
    BY <1>1, <1>9 DEF Mode
  <2>3. st.waits \in [Streams -> Nat] /\ \A t \in Streams : t # s => call[c].event[t] <= st.waits[t]
    <3>1. g.waits[s] \in [Streams -> Nat]
      BY <1>3, <1>6 DEF Hosts
    <3> QED BY <1>5, <1>6, <1>9, <3>1
  <2>4. \A t \in {"cur", "side"} : \A i \in Queued(g, t) : ~Consumes(g.q[t][i], c)
    BY <1>1, <1>14 DEF Sides, Consumes
  <2> HIDE DEF m, rf
  <2> QED BY <1>1, <1>3, <1>6, <1>9, <1>10, <2>1, <2>2, <2>3, <2>4, UseSound
<1>16. ASSUME NEW d \in Calls, d # c PROVE Sound(k, d, cs[d], Mode(cs, d), Facts(g, val), rf)
  <2>1. Sound(g, d, call[d], Mode(call, d), Facts(g, val), refs)
    BY <1>7 DEF Fine
  <2>2. Unmade(st, d) /\ ~Consumes(st, d)
    BY <1>9, <1>16 DEF Unmade, Consumes
  <2>3. \A p \in g.pairs : p[1][1] = p[2][1]
    BY <1>14 DEF Sides
  <2>4. \A r : <<d, r>> \in rf => <<d, r>> \in refs
    OBVIOUS
  <2> HIDE DEF rf
  <2>5. Sound(g, d, call[d], Mode(call, d), Facts(g, val), rf)
    BY <1>6, <2>1, <2>3, <2>4, SoundNow
  <2>6. Sound(k, d, call[d], Mode(call, d), Facts(g, val), rf)
    BY <1>6, <1>9, <2>2, <2>5, TrailsSound
  <2> QED BY <1>10, <1>11, <1>16, <2>6
<1>17. Fine(k, cs, val, rf)
  BY <1>11, <1>12, <1>13, <1>15, <1>16 DEF Fine
<1>18. k \in Hosts
  BY <1>9 DEF Trails
<1>19. Fine(h', cs, val, rf)
  BY <1>1, <1>2, <1>17, <1>18, HostFine
<1>20. refs' = rf
  BY <1>1 DEF Host
<1>21. Read(seen, cs)
  <2>1. \A d \in Calls : call[d].pc = "used" => cs[d].pc = "used" /\ cs[d].kind = call[d].kind
    BY <1>10
  <2> QED BY <2>1, ReadLater DEF ValueInv
<1>22. Fine(h', call', val', refs') /\ Read(seen', call')
  BY <1>1, <1>19, <1>20, <1>21
<1>23. Fine(h, call, val, refs)' <=> Fine(h', call', val', refs')
  BY <1>1 DEF Fine, Mode
<1> QED BY <1>22, <1>23 DEF ValueInv, Read

\* Nothing is enqueued at first.
LEMMA ValueInitially == Init => ValueInv
<1> SUFFICES ASSUME Init PROVE ValueInv
  OBVIOUS
<1>1. /\ \A s \in Streams : h.q[s] = <<>>
      /\ h.group = <<>> /\ h.pairs = {}
      /\ \A c \in Calls : call[c].pc = "new" /\ seen[c] = {}
  BY DEF Init
<1>2. \A s \in Streams : Queued(h, s) = {}
  BY <1>1 DEF Queued
<1>3. Len(Line(h)) = 0
  BY <1>1, StreamNames DEF Line
<1>4. Sides(h, call)
  BY <1>1, <1>2, <1>3, StreamNames DEF Sides
<1>5. \A c \in Calls : \A m, N, rf : Sound(h, c, call[c], m, N, rf)
  BY <1>1 DEF Sound
<1>6. Read(seen, call)
  BY <1>1 DEF Read
<1> QED BY <1>4, <1>5, <1>6 DEF ValueInv, Fine

\* _start_coalescing.
LEMMA StartBlockValue ==
  ASSUME StreamsInv, ValueInv, StartBlock
  PROVE  ValueInv'
<1>1. h \in Hosts /\ h' = [h EXCEPT !.block = TRUE, !.open = TRUE]
      /\ UNCHANGED <<lib, call, refs, val, seen>>
  BY DEF StartBlock, StreamsInv, deviceVars
<1>2. /\ h' \in Hosts /\ h'.q = h.q /\ h'.group = h.group /\ h'.pairs = h.pairs
      /\ h'.waits = h.waits
  BY <1>1 DEF Hosts
<1>3. h.waits["comm"]["cur"] <= h'.waits["comm"]["cur"]
  BY <1>1, <1>2, HostTypes, StreamNames
<1>4. Fine(h', call, val, refs)
  BY <1>1, <1>2, <1>3, FineSame DEF ValueInv
<1>5. Fine(h, call, val, refs)' <=> Fine(h', call', val', refs')
  BY <1>1 DEF Fine, Mode
<1>6. Fine(h', call', val', refs') <=> Fine(h', call, val, refs)
  BY <1>1 DEF Fine, Mode
<1> QED BY <1>1, <1>4, <1>5, <1>6 DEF ValueInv, Read

\* The line without the group.
LEMMA DroppedLine ==
  ASSUME NEW g \in Hosts, NEW k \in Hosts, k.q = g.q, k.group = <<>>
  PROVE  /\ Len(Line(g)) \in Nat /\ Len(Line(k)) = Len(g.q["comm"]) /\ Len(g.q["comm"]) \in Nat
         /\ Len(Line(k)) <= Len(Line(g))
         /\ \A i \in 1..Len(Line(k)) : /\ i \in 1..Len(Line(g)) /\ i \in Queued(g, "comm")
                                       /\ Line(k)[i] = Line(g)[i]
<1>1. Len(k.group) = 0
  OBVIOUS
<1>2. /\ Len(Line(k)) = Len(g.q["comm"]) + Len(k.group)
      /\ \A i \in Queued(k, "comm") : Line(k)[i] = g.q["comm"][i]
  BY LineFields
<1>3. Len(Line(k)) = Len(g.q["comm"])
  BY <1>1, <1>2, LineFields
<1>4. /\ Len(Line(g)) \in Nat /\ Len(g.q["comm"]) \in Nat /\ Len(g.group) \in Nat
      /\ Len(Line(g)) = Len(g.q["comm"]) + Len(g.group)
      /\ \A i \in Queued(g, "comm") : i \in 1..Len(Line(g)) /\ Line(g)[i] = g.q["comm"][i]
  BY LineFields
<1>5. Len(Line(k)) <= Len(Line(g))
  <2> DEFINE a == Len(Line(k))
             b == Len(Line(g))
             e == Len(g.q["comm"])
             f == Len(g.group)
  <2>1. a = e /\ e \in Nat /\ f \in Nat /\ b = e + f
    BY <1>3, <1>4
  <2> HIDE DEF a, b, e, f
  <2>2. a <= b
    BY <2>1
  <2> QED BY <2>2 DEF a, b
<1>6. \A i \in 1..Len(Line(k)) : i \in Queued(g, "comm") /\ i \in Queued(k, "comm")
  BY <1>3 DEF Queued
<1> QED BY <1>2, <1>3, <1>4, <1>5, <1>6

\* When the group is dropped, nothing of a call outside the block is lost.
LEMMA SoundDropped ==
  ASSUME NEW g \in Hosts, NEW k \in Hosts, k.q = g.q, k.waits = g.waits, k.group = <<>>,
         Unfreed(g), NEW c, NEW cl, cl.pc # "member",
         NEW m, NEW N, NEW rf, Sound(g, c, cl, m, N, rf)
  PROVE  Sound(k, c, cl, m, N, rf)
<1> DEFINE x == Len(g.q["comm"]) + 1
<1>1. /\ Len(Line(g)) \in Nat /\ Len(Line(k)) = Len(g.q["comm"]) /\ Len(g.q["comm"]) \in Nat
      /\ Len(Line(k)) <= Len(Line(g))
      /\ \A i \in 1..Len(Line(k)) : /\ i \in 1..Len(Line(g)) /\ i \in Queued(g, "comm")
                                    /\ Line(k)[i] = Line(g)[i]
  BY DroppedLine
<1>2. /\ Queued(k, "comm") = Queued(g, "comm") /\ Queued(k, "cur") = Queued(g, "cur")
      /\ \A j, n : Reaches(k, j, n) = Reaches(g, j, n)
      /\ \A j : Makes(k, j, c) = Makes(g, j, c)
  BY DEF Queued, Reaches, Makes
<1>3. \A n : Settled(g, c, n) => Settled(k, c, n)
  BY <1>1, <1>2 DEF Settled
<1>4. ASSUME NEW i \in 1..Len(Line(k)), NEW b, NEW v, Holds(Line(g), i, b, v, m, N)
      PROVE  Holds(Line(k), i, b, v, m, N)
  <2>1. \A n \in 1..(i - 1) : Alike(Line(g)[n], Line(k)[n])
    BY <1>1 DEF Alike
  <2>2. i \in Nat
    OBVIOUS
  <2> QED BY <1>4, <2>1, <2>2, HoldsAlike
<1>5. ASSUME Flows(Line(g), c, m, N) PROVE Flows(Line(k), c, m, N)
  BY <1>1, <1>4, <1>5 DEF Flows
<1>6. ASSUME NEW n, Settled(g, c, n), NEW b, b[1] = c, NEW v, Ends(Line(g), b, v, m, N)
      PROVE  Ends(Line(k), b, v, m, N)
  <2>1. ASSUME NEW i \in x..Len(Line(g)) PROVE b \notin Line(g)[i].writes
    <3>1. i \in 1..Len(Line(g)) /\ i > Len(g.q["comm"])
      BY <1>1
    <3>2. i - Len(g.q["comm"]) \in 1..Len(g.group) /\ Line(g)[i] = g.group[i - Len(g.q["comm"])]
      BY <3>1, LineFields
    <3>3. Line(g)[i] \in GroupOps(g)
      BY <3>2 DEF GroupOps
    <3>4. Line(g)[i].kind # "release"
      BY <3>3 DEF Unfreed
    <3>5. ~Of(Line(g)[i], c)
      BY <1>1, <1>6, <3>1 DEF Settled, Queued
    <3> QED BY <1>6, <3>4, <3>5 DEF Of, Touches
  <2>2. x \in 1..(Len(Line(g)) + 1) /\ x \in Nat
    BY <1>1
  <2>3. Holds(Line(g), x, b, v, m, N)
    <3> HIDE DEF x
    <3> QED BY <1>1, <1>6, <2>1, <2>2, EndsBefore
  <2>4. \A j \in 1..(x - 1) : Alike(Line(g)[j], Line(k)[j])
    BY <1>1 DEF Alike
  <2>5. Holds(Line(k), x, b, v, m, N)
    <3> HIDE DEF x
    <3> QED BY <2>2, <2>3, <2>4, HoldsAlike
  <2> QED BY <1>1, <2>5 DEF Ends
<1>7. ASSUME NEW n, Settled(g, c, n), NEW r, Result(Line(g), c, r, m, N)
      PROVE  Result(Line(k), c, r, m, N)
  <2>1. <<c, r>>[1] = c
    OBVIOUS
  <2> QED BY <1>6, <1>7, <2>1 DEF Result
<1>8. ASSUME Ahead(g, c) PROVE Ahead(k, c)
  BY <1>2, <1>8 DEF Ahead
<1>9. ASSUME cl.pc = "work" PROVE Work(k, c, m, N, rf, cl.event)
  <2>1. Work(g, c, m, N, rf, cl.event)
    BY <1>9 DEF Sound
  <2>2. Settled(g, c, cl.event["comm"])
    BY <2>1 DEF Work
  <2>3. Results(Line(k), c, m, N, rf)
    BY <1>7, <2>1, <2>2 DEF Work, Results
  <2>4. Behind(k, c, cl.event)
    BY <1>2, <2>1 DEF Work, Behind
  <2> QED BY <1>3, <2>2, <2>3, <2>4 DEF Work
<1>10. ASSUME cl.pc = "used" PROVE Settled(k, c, Len(k.q["comm"])) /\ Used(k, c, m, N)
  <2>1. Settled(g, c, Len(g.q["comm"])) /\ Used(g, c, m, N)
    BY <1>10 DEF Sound
  <2>2. \A r : Result(Line(g), c, r, m, N) => Result(Line(k), c, r, m, N)
    BY <1>7, <2>1
  <2>3. \A t : Queued(k, t) = Queued(g, t)
    BY DEF Queued
  <2>4. Used(k, c, m, N)
    BY <1>2, <1>3, <2>1, <2>2, <2>3 DEF Used
  <2> QED BY <1>3, <2>1, <2>4
<1> QED BY <1>5, <1>8, <1>9, <1>10 DEF Sound

\* The group dropped when no call is left in the block.
LEMMA FineDropped ==
  ASSUME NEW g \in Hosts, NEW k \in Hosts, k.q = g.q, k.waits = g.waits, k.group = <<>>,
         k.pairs = {}, Unfreed(g), NEW cs, NEW vl, NEW rf, Fine(g, cs, vl, rf),
         \A c \in Calls : cs[c].pc # "member"
  PROVE  Fine(k, cs, vl, rf)
<1>1. Facts(k, vl) = Facts(g, vl)
  BY SameFacts
<1>2. ASSUME NEW c \in Calls PROVE Sound(k, c, cs[c], Mode(cs, c), Facts(k, vl), rf)
  <2>1. Sound(g, c, cs[c], Mode(cs, c), Facts(g, vl), rf) /\ cs[c].pc # "member"
    BY DEF Fine
  <2>2. Sound(k, c, cs[c], Mode(cs, c), Facts(g, vl), rf)
    BY <2>1, SoundDropped
  <2> QED BY <1>1, <2>2
<1>3. Sides(k, cs)
  <2>1. Sides(g, cs)
    BY DEF Fine
  <2>2. \A i \in 1..Len(Line(k)) : i \in 1..Len(Line(g)) /\ Line(k)[i] = Line(g)[i]
    BY DroppedLine
  <2>3. \A t : Queued(k, t) = Queued(g, t)
    BY DEF Queued
  <2>4. \A i \in 1..Len(Line(k)) : Line(k)[i].kind \in {"copy", "library", "release"}
    BY <2>1, <2>2 DEF Sides
  <2> QED BY <2>1, <2>3, <2>4 DEF Sides
<1> QED BY <1>2, <1>3 DEF Fine

\* _end_coalescing changes the members, and no other call.
LEMMA MembersEnd ==
  ASSUME StreamsInv, NEW pc \in {"work", "raised"}, NEW event \in [Streams -> Nat]
  PROVE  /\ Leaving(Members(pc, event), pc)
         /\ \A d \in Calls : call[d].pc = "member" => Members(pc, event)[d].event = event
BY DEF StreamsInv, Members, Leaving, CallSet

\* After it no call is a member, and each call has the mode it had.
LEMMA EndsLater ==
  ASSUME NEW pc \in {"work", "raised"}, NEW cs, Leaving(cs, pc)
  PROVE  /\ \A c \in Calls : call[c].pc # "new" => cs[c].pc # "new"
         /\ \A c \in Calls : call[c].pc = "used" => cs[c].pc = "used" /\ cs[c].kind = call[c].kind
         /\ \A c \in Calls : cs[c].pc # "member"
         /\ \A c \in Calls : Mode(cs, c) = Mode(call, c)
BY DEF Leaving, Mode

\* Nothing is sound of a call that raised.
LEMMA RaisedFine ==
  ASSUME NEW g \in Hosts, NEW cs, NEW vl, NEW rf, Fine(g, call, vl, rf), Leaving(cs, "raised")
  PROVE  Fine(g, cs, vl, rf)
<1>1. Sides(g, cs)
  <2>1. Sides(g, call)
    BY DEF Fine
  <2>2. \A c \in Calls : call[c].pc # "new" => cs[c].pc # "new"
    BY EndsLater
  <2>3. \A c \in Calls : call[c].pc = "used" => cs[c].pc = "used"
    BY EndsLater
  <2> QED BY <2>1, <2>2, <2>3, SidesLater
<1>2. ASSUME NEW c \in Calls PROVE Sound(g, c, cs[c], Mode(cs, c), Facts(g, vl), rf)
  <2>1. CASE call[c].pc = "member"
    <3>1. cs[c].pc = "raised"
      BY <2>1 DEF Leaving
    <3> QED BY <3>1 DEF Sound
  <2>2. CASE call[c].pc # "member"
    <3>1. cs[c] = call[c] /\ Mode(cs, c) = Mode(call, c)
      BY <2>2, EndsLater DEF Leaving
    <3> QED BY <3>1 DEF Fine
  <2> QED BY <2>1, <2>2
<1> QED BY <1>1, <1>2 DEF Fine

\* ncclGroupEnd fails.
LEMMA EndBlockFailsValue ==
  ASSUME StreamsInv, StreamsInv', ValueInv, EndBlockFails
  PROVE  ValueInv'
<1> DEFINE k == Dropped(Cleared(h))
           cs == Members("raised", NoWait)
<1>1. /\ Host(k, live, refs) /\ call' = cs /\ lib' = lib /\ val' = val /\ seen' = seen
  BY DEF EndBlockFails, deviceVars
<1>2. h \in Hosts /\ live \in SUBSET Bufs /\ Deferred(h) /\ Deferred(h')
  BY DEF StreamsInv, HeldInv
<1>3. /\ k \in Hosts /\ k.q = h.q /\ k.waits = h.waits /\ k.group = <<>> /\ k.pairs = {}
  <2>1. k.waits = h.waits
    BY <1>2 DEF Dropped, Cleared, Hosts
  <2> QED BY <1>2, <2>1, DroppedFields
<1>4. Leaving(cs, "raised")
  BY MembersEnd, NoWaitType
<1> HIDE DEF k, cs
<1>5. Fine(h, cs, val, refs)
  BY <1>2, <1>4, RaisedFine DEF ValueInv
<1>6. \A c \in Calls : cs[c].pc # "member"
  BY <1>4, EndsLater
<1>7. Fine(k, cs, val, refs)
  <2>1. Unfreed(h)
    BY <1>2 DEF Deferred, Works, Unfreed
  <2> QED BY <2>1, <1>2, <1>3, <1>5, <1>6, FineDropped
<1>8. Fine(h', cs, val, refs)
  BY <1>1, <1>2, <1>3, <1>7, HostFine
<1>9. refs' = refs
  BY <1>1 DEF Host
<1>10. Read(seen, cs)
  <2>1. \A d \in Calls : call[d].pc = "used" => cs[d].pc = "used" /\ cs[d].kind = call[d].kind
    BY <1>4, EndsLater
  <2> QED BY <2>1, ReadLater DEF ValueInv
<1>11. Fine(h', call', val', refs') /\ Read(seen', call')
  BY <1>1, <1>8, <1>9, <1>10
<1>12. Fine(h, call, val, refs)' <=> Fine(h', call', val', refs')
  BY <1>1 DEF Fine, Mode
<1> QED BY <1>11, <1>12 DEF ValueInv, Read

\* The block closed and its group submitted.
LEMMA ResumedIs ==
  ASSUME NEW g \in Hosts
  PROVE  LET k == Resumed(g)
         IN /\ k \in Hosts /\ SameLine(g, k)
            /\ k.group = <<>> /\ k.block = FALSE /\ k.pairs = {}
<1> DEFINE c == Cleared(g)
           e == GroupEnd(c)
           k == Record(e, g.records)
<1>1. /\ c \in Hosts /\ c.q = g.q /\ c.group = g.group /\ c.block = FALSE /\ c.pairs = {}
      /\ c.waits = g.waits
  <2>1. c.waits = g.waits
    BY DEF Cleared, Hosts
  <2> QED BY <2>1, ClearedFields
<1> HIDE DEF c
<1>2. Orders(g, c) /\ Line(c) = Line(g)
  <2>1. g.waits["comm"]["cur"] <= c.waits["comm"]["cur"]
    BY <1>1, HostTypes, StreamNames
  <2> QED BY <1>1, <2>1, OrdersSame DEF Line
<1>3. /\ e \in Hosts /\ Orders(c, e) /\ e.group = <<>>
      /\ e.pairs = c.pairs /\ e.block = c.block
      /\ Len(Line(e)) = Len(Line(c))
      /\ \A i \in 1..Len(Line(c)) : Alike(Line(e)[i], Line(c)[i])
  BY <1>1, GroupEndLine
<1> HIDE DEF e
<1>4. Orders(g, e)
  BY <1>1, <1>2, <1>3, OrdersTrans
<1>5. g.records \in SUBSET Bufs
  BY DEF Hosts
<1>6. /\ k \in Hosts /\ k.q = e.q /\ k.waits = e.waits /\ k.group = e.group
      /\ k.pairs = e.pairs /\ k.block = e.block
  BY <1>3, <1>5, RecordSame
<1> HIDE DEF k
<1>7. Orders(e, k) /\ Line(k) = Line(e)
  <2>1. e.waits["comm"]["cur"] <= k.waits["comm"]["cur"]
    BY <1>3, <1>6, HostTypes, StreamNames
  <2> QED BY <1>3, <1>6, <2>1, OrdersSame DEF Line
<1>8. Orders(g, k)
  BY <1>3, <1>4, <1>6, <1>7, OrdersTrans
<1>9. SameLine(g, k)
  BY <1>2, <1>3, <1>7, <1>8 DEF SameLine
<1> QED BY <1>1, <1>3, <1>6, <1>9 DEF Resumed, k, e, c

\* What a line ends with does not depend on the waits.
LEMMA SameEnds ==
  ASSUME NEW g \in Hosts, NEW k \in Hosts, SameLine(g, k), NEW b, NEW v, NEW m, NEW N,
         Ends(Line(g), b, v, m, N)
  PROVE  Ends(Line(k), b, v, m, N)
<1> DEFINE i == Len(Line(g)) + 1
<1>1. Len(Line(g)) \in Nat /\ i \in Nat /\ i - 1 = Len(Line(g))
  BY LineFields
<1>2. \A j \in 1..Len(Line(g)) : Alike(Line(g)[j], Line(k)[j])
  BY DEF SameLine, Alike
<1>3. Holds(Line(g), i, b, v, m, N)
  BY DEF Ends
<1>4. \A j \in 1..(i - 1) : Alike(Line(g)[j], Line(k)[j])
  BY <1>1, <1>2
<1> HIDE DEF i
<1>5. Holds(Line(k), i, b, v, m, N)
  BY <1>1, <1>3, <1>4, HoldsAlike
<1> QED BY <1>5 DEF SameLine, Ends, i

\* What runs where is the same too.
LEMMA SameSides ==
  ASSUME NEW g \in Hosts, NEW k \in Hosts, SameLine(g, k), NEW cs, Sides(g, cs), k.pairs = {}
  PROVE  Sides(k, cs)
<1>1. k.q["cur"] = g.q["cur"] /\ k.q["side"] = g.q["side"]
  BY DEF SameLine, Orders
<1>2. Queued(k, "cur") = Queued(g, "cur") /\ Queued(k, "side") = Queued(g, "side")
  BY <1>1 DEF Queued
<1>3. \A i \in 1..Len(Line(k)) : Line(k)[i].kind \in {"copy", "library", "release"}
  BY DEF SameLine, Alike, Sides
<1>4. \A s \in {"cur", "side"} : k.q[s] = g.q[s] /\ Queued(k, s) = Queued(g, s)
  BY <1>1, <1>2
<1> QED BY <1>3, <1>4 DEF Sides

\* A member of the block has all that is copied back ready.
LEMMA MemberHalf ==
  ASSUME NEW g \in Hosts, NEW k \in Hosts, SameLine(g, k), k.group = <<>>,
         NEW d \in Calls, NEW m, NEW N, NEW rf, NEW cl, cl.pc = "member",
         Sound(g, d, cl, m, N, rf), Backs(Differ(g.pairs))
  PROVE  Half(k, d, m, N, Ended(k, d, m, N), Differ(g.pairs), {})
<1> DEFINE A == Ended(k, d, m, N)
           Q == Differ(g.pairs)
           B == {}
<1>1. Flows(Line(g), d, m, N) /\ Ahead(g, d) /\ Member(g, d, m, N, rf)
  BY DEF Sound
<1>2. Carry(g, k, d, m, N, B)
  BY CarrySame DEF SameLine
<1>3. Cov(g, d)
  BY <1>1 DEF Member, Cov
<1> HIDE DEF B
<1>4. Flows(Line(k), d, m, N)
  BY <1>1, <1>2, CarryFlows
<1>5. Ahead(k, d)
  BY <1>1, <1>2, <1>3, CarryAhead DEF Cov
<1>6. Cov(k, d)
  <2>1. Orders(g, k)
    BY DEF SameLine
  <2> QED BY <1>3, <2>1, CovLater
<1>7. Within(k, d, {}, {})
  BY DEF Within
<1>8. \A a \in A : a[2] \in Vals /\ Ends(Line(k), <<d, a[1]>>, a[2], m, N)
  BY DEF Ended
<1>9. Part(k, d, m, N, A, {}, {})
  <2> HIDE DEF A
  <2> QED BY <1>4, <1>5, <1>7, <1>8 DEF Part
<1>10. ASSUME NEW p \in Q, p[1][1] = d PROVE <<p[2][2], Brings(m, p)>> \in A
  <2>1. p \in g.pairs /\ Back(g, p)
    BY DEF Differ, Back
  <2>2. Ends(Line(g), p[2], Brings(m, p), m, N)
    BY <1>1, <1>10, <2>1 DEF Member
  <2>3. p[2] \in Bufs /\ p[2][1] = d
    BY <1>10 DEF Backs
  <2>4. p[2] = <<d, p[2][2]>> /\ p[2][2] \in Roles
    BY <2>3, BufFacts
  <2>5. Brings(m, p) \in Vals
    BY ValueTypes DEF Brings
  <2>6. Ends(Line(k), p[2], Brings(m, p), m, N)
    BY <2>2, SameEnds
  <2> QED BY <2>4, <2>5, <2>6 DEF Ended
<1> HIDE DEF A, Q
<1>11. Half(k, d, m, N, A, Q, {})
  BY <1>6, <1>9, <1>10 DEF Half
<1> QED BY <1>11 DEF A, Q

\* A Work made when the group is empty stands for all that its call enqueued.
LEMMA WorkStands ==
  ASSUME NEW k \in Hosts, k.group = <<>>, NEW d, Cov(k, d), NEW cl, cl.event = Issued(k, "comm")
  PROVE  Settled(k, d, cl.event["comm"]) /\ Behind(k, d, cl.event)
<1> DEFINE ev == cl.event
<1>1. ev["comm"] = Len(k.q["comm"]) /\ ev["cur"] = k.waits["comm"]["cur"]
  <2>1. k.waits["comm"] \in [Streams -> Nat]
    BY StreamNames DEF Hosts
  <2>2. "comm" \in Streams /\ "cur" \in Streams /\ "cur" # "comm"
    BY StreamNames
  <2> QED BY <2>1, <2>2 DEF Issued
<1> HIDE DEF ev
<1>2. Settled(k, d, ev["comm"])
  <2>1. Len(k.group) = 0
    OBVIOUS
  <2>2. Len(Line(k)) = Len(k.q["comm"]) + Len(k.group) /\ Len(k.q["comm"]) \in Nat
    BY LineFields
  <2>3. Len(Line(k)) = Len(k.q["comm"])
    BY <2>1, <2>2
  <2> QED BY <1>1, <2>2, <2>3 DEF Settled, Queued
<1>3. Behind(k, d, ev)
  BY <1>1 DEF Behind, Cov, Covered
<1> QED BY <1>2, <1>3 DEF ev

\* Its copies back made, the call's Work stands for all of it.
LEMMA HalfWork ==
  ASSUME NEW g \in Hosts, NEW g2 \in Hosts, SameLine(g, g2), NEW k \in Hosts, k.group = <<>>,
         NEW d \in Calls, NEW m, NEW N, NEW rf, NEW cl, cl.pc = "member",
         Sound(g, d, cl, m, N, rf),
         Half(k, d, m, N, Ended(g2, d, m, N), Differ(g.pairs), Differ(g.pairs)),
         NEW cl2, cl2.pc = "work", cl2.event = Issued(k, "comm")
  PROVE  Sound(k, d, cl2, m, N, rf)
<1> DEFINE A0 == Ended(g2, d, m, N)
           Q == Differ(g.pairs)
           ev == cl2.event
<1>1. m[1] \in AllKinds /\ Member(g, d, m, N, rf)
  BY DEF Sound
<1>2. PICK A :
        /\ Part(k, d, m, N, A, {}, {}) /\ Cov(k, d)
        /\ \A p \in Q : p[1][1] = d =>
             \E q \in Q : q[1] = p[1] /\ <<p[1][2], Brings(m, q)>> \in A
        /\ \A a \in A0 : (\A p \in Q : p[1] # <<d, a[1]>>) => a \in A
  BY DEF Half
<1>3. /\ Flows(Line(k), d, m, N) /\ Ahead(k, d)
      /\ \A a \in A : a[2] \in Vals /\ Ends(Line(k), <<d, a[1]>>, a[2], m, N)
  BY <1>2 DEF Part
<1>4. \A p \in Q : p \in g.pairs /\ Back(g, p)
  BY DEF Differ, Back
<1>5. ASSUME NEW r \in Outputs(m[1]), <<d, r>> \in rf PROVE Result(Line(k), d, r, m, N)
  <2>1. CASE \E p \in Q : p[1] = <<d, r>>
    <3>1. PICK p \in Q : p[1] = <<d, r>>
      BY <2>1
    <3>2. p[1][1] = d /\ p[1][2] = r
      BY <3>1
    <3>3. PICK q \in Q : q[1] = p[1] /\ <<r, Brings(m, q)>> \in A
      BY <1>2, <3>2
    <3>4. q[1][1] = d /\ q[1][2] = r
      BY <3>2, <3>3
    <3>5. Brings(m, q) \in Expected(m[1], r)
      BY <1>1, <1>4, <3>4 DEF Member
    <3>6. Ends(Line(k), <<d, r>>, Brings(m, q), m, N)
      BY <1>3, <3>3
    <3> QED BY <3>5, <3>6 DEF Result
  <2>2. CASE ~\E p \in Q : p[1] = <<d, r>>
    <3>1. ~\E p \in g.pairs : Back(g, p) /\ p[1] = <<d, r>>
      BY <2>2 DEF Back, Differ
    <3>2. Result(Line(g), d, r, m, N)
      BY <1>1, <1>5, <3>1 DEF Member
    <3>3. PICK v \in Expected(m[1], r) : Ends(Line(g), <<d, r>>, v, m, N)
      BY <3>2 DEF Result
    <3>4. Ends(Line(g2), <<d, r>>, v, m, N)
      BY <3>3, SameEnds
    <3>5. r \in Roles /\ v \in Vals
      BY <1>1, <3>3, OutputRoles, ValueTypes, RoleFacts
    <3>6. <<r, v>> \in A0
      BY <3>4, <3>5 DEF Ended
    <3>7. <<r, v>> \in A
      <4> HIDE DEF A0, Q
      <4>1. \A p \in Q : p[1] # <<d, <<r, v>>[1]>>
        BY <2>2
      <4> QED BY <1>2, <3>6, <4>1
    <3>8. Ends(Line(k), <<d, r>>, v, m, N)
      BY <1>3, <3>7
    <3> QED BY <3>3, <3>8 DEF Result
  <2> QED BY <2>1, <2>2
<1> HIDE DEF ev
<1>6. cl2.event = ev
  BY DEF ev
<1>7. Settled(k, d, ev["comm"]) /\ Behind(k, d, ev)
  BY <1>2, <1>6, WorkStands
<1>9. Work(k, d, m, N, rf, ev)
  BY <1>5, <1>7 DEF Work, Results
<1> QED BY <1>1, <1>3, <1>9 DEF Sound, ev

\* The pairs of a block are copies back.
LEMMA DeferredBacks ==
  ASSUME NEW g \in Hosts, Dense(g), NEW cs, Sides(g, cs)
  PROVE  Backs(Differ(g.pairs)) /\ g.pairs \in SUBSET (Bufs \X Bufs)
<1>1. g.pairs \in SUBSET (Bufs \X Bufs)
  BY DEF Hosts
<1>2. ASSUME NEW p \in Differ(g.pairs)
      PROVE  /\ p[1] \in Bufs /\ p[2] \in Bufs /\ p[1][1] = p[2][1]
             /\ p[1][2] \in UserRoles /\ p[2][2] \in Internal
  <2>1. p \in g.pairs /\ p[1] # p[2] /\ p[1] \in Bufs /\ p[2] \in Bufs
    BY <1>1 DEF Differ
  <2>2. Owner(p[2]) = "comm"
    BY <2>1 DEF Dense
  <2>3. p[2][2] \in Internal
    BY <2>1, <2>2, BufFacts DEF Internal
  <2> QED BY <2>1, <2>3 DEF Sides
<1> QED BY <1>1, <1>2 DEF Backs

\* The end of a block, in terms of the copies back.
LEMMA BlockEndIs ==
  ASSUME NEW g \in Hosts
  PROVE  BlockEnd(g) = RecordStream(CopyBack(Resumed(g), g.pairs), {p[1] : p \in g.pairs}, "comm")
<1>1. Resumed(g).block = FALSE
  BY ResumedIs
<1> QED BY <1>1 DEF BlockEnd, Finish, Resumed

\* Whatever is sound of the calls outside the block is not concerned.
LEMMA ResumedSound ==
  ASSUME NEW g \in Hosts, NEW d, NEW cl, NEW m, NEW N, NEW rf, Sound(g, d, cl, m, N, rf),
         \A p \in g.pairs : p[1][1] # d
  PROVE  Sound(Resumed(g), d, cl, m, N, rf)
<1> DEFINE k == Resumed(g)
<1>1. k \in Hosts /\ SameLine(g, k) /\ k.pairs = {}
  BY ResumedIs
<1> HIDE DEF k
<1>2. SamePairs(g, k, d)
  BY <1>1 DEF SamePairs
<1>3. Sound(k, d, cl, m, N, rf)
  BY <1>1, <1>2, SoundSame DEF SameLine
<1> QED BY <1>3 DEF k

\* What a block held is of its members.
LEMMA PairsOfMembers ==
  ASSUME NEW g, NEW al, NEW cs, HeldAlive(g, al, cs)
  PROVE  \A p \in g.pairs : cs[p[1][1]].pc = "member"
BY DEF HeldAlive, Held

\* Operations on the comm stream leave the current one as it was.
LEMMA ExtendsCur ==
  ASSUME NEW g \in Hosts, NEW k \in Hosts, NEW T, Extends(g, k, "comm", T)
  PROVE  k.q["cur"] = g.q["cur"]
<1> DEFINE a == g.q["cur"]
           b == k.q["cur"]
<1>1. a \in Seq(OpSet) /\ b \in Seq(OpSet) /\ Len(a) \in Nat /\ Len(b) \in Nat
  BY HostTypes, StreamNames
<1>2. Len(a) <= Len(b) /\ (\A i \in 1..Len(a) : b[i] = a[i])
      /\ \A i \in 1..Len(b) : i \in 1..Len(a)
  BY StreamNames DEF Extends, Queued
<1> HIDE DEF a, b
<1>3. Len(a) = Len(b)
  <2>1. CASE Len(b) = 0
    BY <1>1, <1>2, <2>1
  <2>2. CASE Len(b) # 0
    BY <1>1, <1>2, <2>2
  <2> QED BY <2>1, <2>2
<1>4. a = b
  BY <1>1, <1>2, <1>3, SeqEqual
<1> QED BY <1>4 DEF a, b

\* The copies back at a block's end, and what is sound then: members is who was
\* in it, those of D, which become Works; nobody of a block that raised.
LEMMA BlockEndFine ==
  ASSUME NEW g \in Hosts, Dense(g), NEW cs, NEW vl, NEW rf, Fine(g, cs, vl, rf),
         \A p \in g.pairs : cs[p[1][1]].pc = "member" \/ Idle(cs, p[1][1]),
         NEW cs2,
         \A d \in Calls : IF cs[d].pc = "member"
                          THEN /\ cs2[d].pc = "work" /\ cs2[d].kind = cs[d].kind
                               /\ cs2[d].event = Issued(BlockEnd(g), "comm")
                          ELSE cs2[d] = cs[d]
  PROVE  BlockEnd(g) \in Hosts /\ Fine(BlockEnd(g), cs2, vl, rf)
<1> DEFINE g2 == Resumed(g)
           P == g.pairs
           k == CopyBack(g2, P)
           e == BlockEnd(g)
           N == Facts(g, vl)
           D == {d \in Calls : cs[d].pc = "member"}
           A0 == [d \in Calls |-> Ended(g2, d, Mode(cs, d), N)]
           z == [calls |-> cs2, now |-> N, refs |-> rf]
           Q == Differ(P)
<1>1. g2 \in Hosts /\ SameLine(g, g2) /\ g2.group = <<>> /\ g2.pairs = {}
  BY ResumedIs
<1>2. Sides(g, cs) /\ \A d \in Calls : Sound(g, d, cs[d], Mode(cs, d), N, rf)
  BY DEF Fine
<1>3. Backs(Q) /\ P \in SUBSET (Bufs \X Bufs)
  BY <1>2, DeferredBacks
<1>4. e = RecordStream(k, {p[1] : p \in P}, "comm")
  BY BlockEndIs
<1>5. \A d \in Calls : Mode(cs2, d) = Mode(cs, d)
  BY DEF Mode
<1>6. z.calls = cs2 /\ z.now = N /\ z.refs = rf
  OBVIOUS
<1>7. \A d \in D : A0[d] = Ended(g2, d, Mode(cs, d), N)
  OBVIOUS
<1>8. \A d \in Calls : d \in D <=> cs[d].pc = "member"
  OBVIOUS
<1>9. CopyBack(g2, P) = k
  OBVIOUS
<1>10. Resumed(g) = g2
  OBVIOUS
<1>11. Facts(g, vl) = N
  OBVIOUS
<1>12. Differ(g.pairs) = Q
  OBVIOUS
<1>13. \A p \in Q : p \in P
  BY DEF Differ
<1>14. \A p \in P : p[1][1] \in Calls
  BY <1>3, BufFacts
<1> HIDE DEF A0, z, k, e, N, g2, Q, D
<1>15. Sides(g2, cs2)
  <2>1. Sides(g2, cs)
    BY <1>1, <1>2, SameSides
  <2>2. \A c \in Calls : cs[c].pc # "new" => cs2[c].pc # "new"
    OBVIOUS
  <2>3. \A c \in Calls : cs[c].pc = "used" => cs2[c].pc = "used"
    OBVIOUS
  <2> QED BY <1>1, <2>1, <2>2, <2>3, SidesLater
<1>16. Returning(g2, g2, z, D, A0, Q, {})
  <2>1. ASSUME NEW d \in Calls, d \in D
        PROVE  Half(g2, d, Mode(cs2, d), N, A0[d], Q, {})
    <3>1. cs[d].pc = "member" /\ Sound(g, d, cs[d], Mode(cs, d), N, rf)
      BY <1>2, <1>8, <2>1
    <3>2. Half(g2, d, Mode(cs, d), N, Ended(g2, d, Mode(cs, d), N), Q, {})
      BY <1>1, <1>3, <1>12, <3>1, MemberHalf
    <3> QED BY <1>5, <1>7, <2>1, <3>2
  <2>2. ASSUME NEW d \in Calls, d \notin D
        PROVE  Sound(g2, d, cs2[d], Mode(cs2, d), N, rf)
    <3>1. cs2[d] = cs[d] /\ Mode(cs2, d) = Mode(cs, d) /\ cs[d].pc # "member"
      BY <1>5, <1>8, <2>2
    <3>2. CASE Idle(cs, d)
      BY <3>1, <3>2 DEF Idle, Sound
    <3>3. CASE ~Idle(cs, d)
      <4>1. \A p \in g.pairs : p[1][1] # d
        BY <3>1, <3>3
      <4>2. Sound(g, d, cs[d], Mode(cs, d), N, rf)
        BY <1>2
      <4>3. Sound(g2, d, cs[d], Mode(cs, d), N, rf)
        BY <1>10, <4>1, <4>2, ResumedSound
      <4> QED BY <3>1, <4>3
    <3> QED BY <3>2, <3>3
  <2>3. Aside(g2, g2)
    BY DEF Aside
  <2> QED BY <1>1, <1>6, <1>15, <2>1, <2>2, <2>3 DEF Returning
<1>17. Returning(k, g2, z, D, A0, Q, Q)
  <2>1. \A p \in Differ(P) : p[1][1] \in D \/ Idle(z.calls, p[1][1])
    <3>1. SUFFICES ASSUME NEW p \in Q PROVE p[1][1] \in D \/ Idle(cs2, p[1][1])
      BY <1>6, <1>12
    <3>2. p[1][1] \in Calls /\ (cs[p[1][1]].pc = "member" \/ Idle(cs, p[1][1]))
      BY <1>13, <1>14
    <3>3. CASE cs[p[1][1]].pc = "member"
      BY <1>8, <3>2, <3>3
    <3>4. CASE Idle(cs, p[1][1]) /\ cs[p[1][1]].pc # "member"
      BY <3>2, <3>4 DEF Idle
    <3> QED BY <3>2, <3>3, <3>4
  <2>2. Backs(Differ(P)) /\ Returning(g2, g2, z, D, A0, Differ(P), {})
    BY <1>3, <1>12, <1>16
  <2>3. Returning(CopyBack(g2, P), g2, z, D, A0, Differ(P), Differ(P))
    BY <1>1, <1>3, <2>1, <2>2, CopyBackReturns
  <2> QED BY <1>9, <1>12, <2>3
<1>18. k \in Hosts /\ k.group = <<>> /\ k.pairs = {} /\ Sides(k, cs2)
  BY <1>1, <1>6, <1>17 DEF Returning, Aside
<1>19. /\ e \in Hosts /\ e.q = k.q /\ e.waits = k.waits /\ e.group = k.group
       /\ e.pairs = k.pairs
  BY <1>4, <1>18, RecordStreamSame
<1>20. Issued(e, "comm") = Issued(k, "comm")
  BY <1>19 DEF Issued
<1>21. ASSUME NEW d \in Calls PROVE Sound(k, d, cs2[d], Mode(cs2, d), N, rf)
  <2>1. CASE d \in D
    <3>1. cs[d].pc = "member" /\ Sound(g, d, cs[d], Mode(cs, d), N, rf)
      BY <1>2, <1>8, <2>1
    <3>2. cs2[d].pc = "work" /\ cs2[d].event = Issued(k, "comm")
      BY <1>20, <3>1 DEF e
    <3>3. Half(k, d, Mode(cs, d), N, Ended(g2, d, Mode(cs, d), N), Q, Q)
      BY <1>5, <1>6, <1>7, <1>17, <2>1 DEF Returning
    <3>4. Sound(k, d, cs2[d], Mode(cs, d), N, rf)
      BY <1>1, <1>12, <1>18, <3>1, <3>2, <3>3, HalfWork
    <3> QED BY <1>5, <3>4
  <2>2. CASE d \notin D
    BY <1>6, <1>17, <2>2 DEF Returning
  <2> QED BY <2>1, <2>2
<1>22. k.q["cur"] = g.q["cur"]
  <2>1. k \in Grown(g2, Bufs)
    <3>1. \A p \in P : p[1] \in Bufs /\ p[2] \in Bufs
      BY <1>3
    <3> QED BY <1>1, <1>3, <1>9, <3>1, CopyBackGrows
  <2>2. k.q["cur"] = g2.q["cur"]
    BY <1>1, <1>18, <2>1, ExtendsCur DEF Grown
  <2> QED BY <1>1, <2>2 DEF SameLine, Orders
<1>23. Facts(k, vl) = N
  BY <1>11, <1>22, SameFacts
<1>24. Fine(k, cs2, vl, rf)
  BY <1>18, <1>21, <1>23 DEF Fine
<1>25. Fine(e, cs2, vl, rf)
  <2>1. k.waits["comm"]["cur"] <= e.waits["comm"]["cur"]
    <3>1. k.waits["comm"]["cur"] \in Nat
      BY <1>18, HostTypes, StreamNames
    <3> QED BY <1>19, <3>1
  <2> QED BY <1>18, <1>19, <1>24, <2>1, FineSame
<1> QED BY <1>19, <1>25 DEF e

\* _end_coalescing.
LEMMA EndBlockValue ==
  ASSUME StreamsInv, StreamsInv', ValueInv, EndBlock
  PROVE  ValueInv'
<1> DEFINE e == BlockEnd(h)
           cs == Members("work", Issued(e, "comm"))
<1>1. Host(e, live, refs) /\ call' = cs /\ lib' = lib /\ val' = val /\ seen' = seen
  BY DEF EndBlock, BlockEnd, deviceVars
<1>2. h \in Hosts /\ live \in SUBSET Bufs /\ Deferred(h) /\ Deferred(h')
      /\ HeldAlive(h, live, call)
  BY DEF StreamsInv, HeldInv
<1>3. e \in Hosts
  <2>1. \A op \in GroupOps(h) : Works(op, Held(h))
    BY <1>2 DEF Deferred
  <2> QED BY <1>2, <2>1, BlockEndFields
<1>4. Issued(e, "comm") \in [Streams -> Nat]
  BY <1>3, IssuedType, StreamNames
<1>5. Leaving(cs, "work") /\ \A d \in Calls : call[d].pc = "member" => cs[d].event = Issued(e, "comm")
  BY <1>4, MembersEnd
<1> HIDE DEF cs
<1>6. Fine(e, cs, val, refs)
  <2>1. Fine(h, call, val, refs)
    BY DEF ValueInv
  <2>2. \A p \in h.pairs : call[p[1][1]].pc = "member" \/ Idle(call, p[1][1])
    BY <1>2, PairsOfMembers
  <2>3. \A d \in Calls : IF call[d].pc = "member"
                         THEN /\ cs[d].pc = "work" /\ cs[d].kind = call[d].kind
                              /\ cs[d].event = Issued(BlockEnd(h), "comm")
                         ELSE cs[d] = call[d]
    BY <1>5 DEF Leaving
  <2>4. Dense(h)
    BY <1>2 DEF Deferred, Dense
  <2> QED BY <1>2, <2>1, <2>2, <2>3, <2>4, BlockEndFine
<1> HIDE DEF e
<1>7. Fine(h', cs, val, refs)
  BY <1>1, <1>2, <1>3, <1>6, HostFine
<1>8. refs' = refs
  BY <1>1 DEF Host
<1>9. Read(seen, cs)
  <2>1. \A d \in Calls : call[d].pc = "used" => cs[d].pc = "used" /\ cs[d].kind = call[d].kind
    BY <1>5, EndsLater
  <2> QED BY <2>1, ReadLater DEF ValueInv
<1>10. Fine(h', call', val', refs') /\ Read(seen', call')
  BY <1>1, <1>7, <1>8, <1>9
<1>11. Fine(h, call, val, refs)' <=> Fine(h', call', val', refs')
  BY <1>1 DEF Fine, Mode
<1> QED BY <1>10, <1>11 DEF ValueInv, Read

\* Nothing on the line touches the buffers of a call that did not begin.
LEMMA NewLine ==
  ASSUME StreamsInv, NEW c \in Calls, call[c].pc = "new"
  PROVE  \A i \in 1..Len(Line(h)) : \A b \in Touches(Line(h)[i]) : b[1] # c
<1>1. /\ h \in Hosts /\ HeldAlive(h, live, call) /\ Deferred(h) /\ NewUntouched(h, live, call)
  BY DEF StreamsInv, HeldInv, QueueInv
<1> SUFFICES ASSUME NEW i \in 1..Len(Line(h)), NEW b \in Touches(Line(h)[i]), b[1] = c
             PROVE  FALSE
  OBVIOUS
<1>2. Line(h)[i] \in OpSet
  <2>1. Line(h) \in Seq(OpSet)
    BY <1>1, LineFields
  <2> QED BY <2>1
<1>3. b \in Bufs /\ IsNew(call, b)
  BY <1>2 DEF OpSet, Touches, IsNew
<1>4. CASE i \in Queued(h, "comm")
  <2>1. Line(h)[i] = h.q["comm"][i]
    BY <1>1, <1>4, LineFields
  <2> QED BY <1>1, <1>3, <1>4, <2>1, StreamNames DEF NewUntouched
<1>5. CASE i \notin Queued(h, "comm")
  <2>0. Len(h.q["comm"]) \in Nat /\ Len(Line(h)) \in Nat
    BY <1>1, LineFields
  <2>1. i > Len(h.q["comm"])
    BY <1>5, <2>0 DEF Queued
  <2>2. i - Len(h.q["comm"]) \in 1..Len(h.group) /\ Line(h)[i] = h.group[i - Len(h.q["comm"])]
    BY <1>1, <2>1, LineFields
  <2>3. Line(h)[i] \in GroupOps(h)
    BY <2>2 DEF GroupOps
  <2>4. b \in Held(h)
    BY <1>1, <2>3 DEF Deferred, Works
  <2>5. call[b[1]].pc = "member"
    BY <1>1, <2>4 DEF HeldAlive
  <2> QED BY <2>5
<1> QED BY <1>4, <1>5

\* The caller's producer is of no other call.
LEMMA ProducedOthers ==
  ASSUME StreamsInv, ValueInv, NEW c \in Calls, NEW kind, call[c].pc = "new",
         NEW z, Entering(z.calls, c, kind), z.now = Facts(Produced(c, kind), val),
         \A d \in Calls \ {c} : \A r : <<d, r>> \in z.refs => <<d, r>> \in refs
  PROVE  LET p == Produced(c, kind)
         IN /\ p \in Hosts /\ Others(p, c, z) /\ Line(p) = Line(h)
            /\ Aside(h, p) /\ p.q["comm"] = h.q["comm"]
            /\ kind # "recv" => <<<<c, "in">>, "input">> \in z.now
<1> DEFINE p == Produced(c, kind)
           in == <<c, "in">>
           op == Op("produce", {}, {in})
           st == Stamped(h, "cur", op)
           cs == z.calls
           N == Facts(h, val)
<1>1. h \in Hosts /\ "cur" \in Streams /\ "comm" \in Streams
  BY StreamNames DEF StreamsInv
<1>2. in \in Bufs /\ in[1] = c
  BY DEF Bufs, Roles, UserRoles
<1>3. Sides(h, call) /\ \A d \in Calls : Sound(h, d, call[d], Mode(call, d), N, refs)
  BY DEF ValueInv, Fine
<1>4. Sides(h, cs)
  <2>1. \A d \in Calls : call[d].pc # "new" => cs[d].pc # "new"
    BY DEF Entering
  <2>2. \A d \in Calls : call[d].pc = "used" => cs[d].pc = "used"
    BY DEF Entering
  <2> HIDE DEF cs
  <2> QED BY <1>1, <1>3, <2>1, <2>2, SidesLater
<1>5. \A d \in Calls \ {c} : Mode(cs, d) = Mode(call, d) \/ Idle(cs, d)
  BY DEF Entering, Mode, Idle
<1>6. \A d \in Calls \ {c} : cs[d] = call[d] \/ Idle(cs, d)
  BY DEF Entering, Idle
<1>7. \A q \in h.pairs : q[1][1] = q[2][1]
  BY <1>3 DEF Sides
<1>8. z.calls = cs
  OBVIOUS
<1>9. cs[c].pc # "new"
  BY DEF Entering
<1>10. CASE kind = "recv"
  <2>1. p = h
    BY <1>10 DEF Produced
  <2>2. z.now = N
    BY <2>1
  <2> HIDE DEF cs, N
  <2>3. ASSUME NEW d \in Calls \ {c} PROVE Sound(h, d, cs[d], Mode(cs, d), N, z.refs)
    <3>1. CASE Idle(cs, d)
      BY <3>1 DEF Idle, Sound
    <3>2. CASE ~Idle(cs, d)
      <4>1. cs[d] = call[d] /\ Mode(cs, d) = Mode(call, d)
        BY <1>5, <1>6, <3>2
      <4>2. Sound(h, d, call[d], Mode(call, d), N, refs) /\ \A r : <<d, r>> \in z.refs => <<d, r>> \in refs
        BY <1>3
      <4>3. Sound(h, d, call[d], Mode(call, d), N, z.refs)
        BY <1>1, <1>7, <4>2, SoundNow
      <4> QED BY <4>1, <4>3
    <3> QED BY <3>1, <3>2
  <2>4. Others(h, c, z)
    BY <1>4, <1>8, <2>2, <2>3 DEF Others
  <2> QED BY <1>1, <1>10, <2>1, <2>4 DEF Aside
<1>11. CASE kind # "recv"
  <2>1. p = Enqueue(h, "cur", op)
    BY <1>11 DEF Produced
  <2>2. /\ op \in OpSet /\ op.kind = "produce" /\ op.reads = {} /\ op.writes = {in}
    <3>1. "produce" \in OpKinds /\ {} \in SUBSET Bufs /\ {in} \in SUBSET Bufs
      BY <1>2 DEF OpKinds
    <3> QED BY <3>1, OpType
  <2> HIDE DEF op
  <2>3. /\ Trails(h, p, "cur", st) /\ st.kind = "produce" /\ st.reads = {} /\ st.writes = {in}
    BY <1>1, <2>1, <2>2, EnqueueTrails, StampedFields
  <2>4. p \in Hosts /\ Aside(h, p)
    BY <1>1, <2>1, <2>2, EnqueueAside
  <2> HIDE DEF st
  <2>5. Line(p) = Line(h) /\ p.q["comm"] = h.q["comm"] /\ p.pairs = h.pairs
    BY <1>1, <2>3, <2>4, TrailsFields DEF Trails
  <2>6. Sides(p, cs)
    <3>1. \E d \in Calls : cs[d].pc # "new" /\ st.writes = {<<d, "in">>}
      BY <1>9, <2>3
    <3> HIDE DEF cs
    <3> QED BY <1>1, <1>4, <2>3, <3>1, TrailsSides
  <2>7. z.now = Facts(p, val)
    OBVIOUS
  <2> HIDE DEF p, N
  <2>8. ASSUME NEW d \in Calls \ {c} PROVE Sound(p, d, cs[d], Mode(cs, d), z.now, z.refs)
    <3> HIDE DEF cs
    <3>1. CASE Idle(cs, d)
      BY <3>1 DEF Idle, Sound
    <3>2. CASE ~Idle(cs, d)
      <4>1. cs[d] = call[d] /\ Mode(cs, d) = Mode(call, d)
        BY <1>5, <1>6, <3>2
      <4>2. Sound(h, d, call[d], Mode(call, d), N, refs) /\ \A r : <<d, r>> \in z.refs => <<d, r>> \in refs
        BY <1>3
      <4>3. Unmade(st, d) /\ ~Consumes(st, d)
        BY <2>3 DEF Unmade, Consumes
      <4>4. Sound(p, d, call[d], Mode(call, d), N, refs)
        BY <1>1, <2>3, <4>2, <4>3, TrailsSound
      <4>5. \A b, v : b[1] = d /\ v \in Vals /\ <<b, v>> \in N => <<b, v>> \in z.now
        <5> SUFFICES ASSUME NEW b, NEW v, b[1] = d, <<b, v>> \in N PROVE <<b, v>> \in z.now
          OBVIOUS
        <5>1. b \notin st.writes
          BY <1>2, <2>3
        <5>2. <<b, v>> \in Facts(h, val) /\ <<b, v>>[1] = b
          BY DEF N
        <5> QED BY <1>1, <2>3, <2>7, <5>1, <5>2, TrailsFacts
      <4>6. \A q \in p.pairs : q[1][1] = q[2][1]
        BY <1>7, <2>5
      <4>7. Sound(p, d, call[d], Mode(call, d), z.now, z.refs)
        BY <2>4, <4>2, <4>4, <4>5, <4>6, SoundNow
      <4> QED BY <4>1, <4>7
    <3> QED BY <3>1, <3>2
  <2>9. Others(p, c, z)
    BY <1>8, <2>6, <2>8 DEF Others
  <2>10. <<in, "input">> \in z.now
    <3>1. Len(h.q["cur"]) \in Nat
      BY <1>1, HostTypes
    <3>2. Len(h.q["cur"]) + 1 \in Queued(p, "cur") /\ p.q["cur"][Len(h.q["cur"]) + 1] = st
      BY <2>3, <3>1 DEF Trails, Queued
    <3>3. Pending(p, in)
      BY <2>3, <3>2 DEF Pending
    <3>4. "input" \in Vals
      BY DEF Vals
    <3> QED BY <1>2, <2>7, <3>3, <3>4 DEF Facts
  <2> QED BY <2>4, <2>5, <2>9, <2>10 DEF p
<1> QED BY <1>10, <1>11

\* A collective begins, in the state g: the producer is enqueued, and the open
\* block is as h has it or is hidden from the method (Partly).
LEMMA Begin ==
  ASSUME StreamsInv, ValueInv, NEW c \in Calls, NEW kind, call[c].pc = "new",
         NEW z, Entering(z.calls, c, kind), z.now = Facts(Produced(c, kind), val),
         \A d \in Calls \ {c} : \A r : <<d, r>> \in z.refs => <<d, r>> \in refs,
         NEW g \in Hosts, g.q = Produced(c, kind).q, g.waits = Produced(c, kind).waits,
         g.group = h.group, g.pairs = h.pairs, g.block = z.block, z.pairs = h.pairs,
         NEW G, Closed(g, z, G)
  PROVE  Starting(g, c, z, Given0(kind), kind, G)
<1> DEFINE p == Produced(c, kind)
           A == Given0(kind)
           m == Mode(z.calls, c)
<1>1. /\ p \in Hosts /\ Others(p, c, z) /\ Line(p) = Line(h)
      /\ Aside(h, p) /\ p.q["comm"] = h.q["comm"]
      /\ kind # "recv" => <<<<c, "in">>, "input">> \in z.now
  BY ProducedOthers
<1>2. g.q = p.q /\ g.waits = p.waits /\ g.group = p.group /\ g.pairs = p.pairs
  BY <1>1 DEF Aside
<1>3. strided \in BOOLEAN /\ lib \in {"nccl", "mojoccl"} /\ h \in Hosts
  BY KindsAre DEF StreamsInv
<1>4. \A i \in 1..Len(Line(h)) : \A b \in Touches(Line(h)[i]) : b[1] # c
  BY NewLine
<1>5. z.calls[c].kind = kind
  BY DEF Entering
<1> HIDE DEF p
<1>6. Line(g) = Line(h)
  BY <1>1, <1>2 DEF Line
<1>7. Orders(p, g)
  <2>1. p.waits["comm"]["cur"] \in Nat
    BY <1>1, HostTypes, StreamNames
  <2>2. p.waits["comm"]["cur"] <= g.waits["comm"]["cur"]
    BY <1>2, <2>1
  <2> QED BY <1>1, <1>2, <2>2, OrdersSame
<1>8. Others(g, c, z)
  <2>1. Len(Line(g)) = Len(Line(p))
    BY <1>1, <1>6
  <2>2. \A i \in 1..Len(Line(p)) : Alike(Line(g)[i], Line(p)[i])
    BY <1>1, <1>6 DEF Alike
  <2> QED BY <1>1, <1>2, <1>7, <2>1, <2>2, OthersSame
<1>9. Len(Line(g)) \in Nat
  BY LineFields
<1>10. \A i \in 1..Len(Line(g)) : ~Of(Line(g)[i], c)
  BY <1>4, <1>6 DEF Of
<1>11. Flows(Line(g), c, m, z.now)
  BY <1>10 DEF Flows
<1>12. Ahead(g, c)
  <2>1. \A i \in Queued(g, "comm") : i \in 1..Len(Line(g)) /\ Line(g)[i] = g.q["comm"][i]
    BY LineFields
  <2> QED BY <1>10, <2>1 DEF Ahead
<1>13. Within(g, c, {}, {})
  <2> SUFFICES ASSUME NEW i \in 1..Len(g.group), NEW b \in g.group[i].reads \cup g.group[i].writes
               PROVE  b[1] # c
    BY DEF Within
  <2>1. Line(g)[Len(g.q["comm"]) + i] = g.group[i]
    BY LineFields
  <2>2. Len(g.q["comm"]) + i \in 1..Len(Line(g))
    <3> DEFINE u == Len(g.q["comm"])
               v == Len(g.group)
               w == Len(Line(g))
    <3>1. u \in Nat /\ v \in Nat /\ w = u + v /\ i \in 1..v
      BY LineFields
    <3> HIDE DEF u, v, w
    <3>2. u + i \in 1..w
      BY <3>1
    <3> QED BY <3>2 DEF u, w
  <2> QED BY <1>4, <1>6, <2>1, <2>2 DEF Touches
<1>14. ASSUME NEW a \in A
       PROVE  a[2] \in Vals /\ Ends(Line(g), <<c, a[1]>>, a[2], m, z.now)
  <2>1. kind # "recv" /\ a = <<"in", "input">>
    BY DEF Given0
  <2>2. a[1] = "in" /\ a[2] = "input"
    BY <2>1
  <2>3. <<<<c, "in">>, "input">> \in z.now
    BY <1>1, <2>1
  <2>4. Clear(Line(g), Len(Line(g)) + 1, <<c, "in">>)
    <3>1. \A i \in 1..Len(Line(g)) : <<c, "in">> \notin Line(g)[i].writes
      <4>1. <<c, "in">>[1] = c
        OBVIOUS
      <4> QED BY <1>4, <1>6, <4>1 DEF Touches
    <3> QED BY <1>9, <3>1 DEF Clear
  <2>5. "input" \in Vals
    BY DEF Vals
  <2> QED BY <2>2, <2>3, <2>4, <2>5 DEF Ends, Holds
<1>15. Part(g, c, m, z.now, A, {}, {})
  BY <1>11, <1>12, <1>13, <1>14 DEF Part
<1>16. Begun(g, c, z, A)
  BY <1>8, <1>15 DEF Begun, Doing
<1>17. kind = "recv" \/ <<"in", "input">> \in A
  BY DEF Given0
<1> QED BY <1>3, <1>5, <1>16, <1>17 DEF Starting

\* A collective that returned is sound: in the open block, or a Work.
LEMMA GivenSound ==
  ASSUME NEW k, NEW c \in Calls, NEW z, Given(k, c, z), Mode(z.calls, c)[1] \in AllKinds,
         z.calls[c].pc = IF z.block THEN "member" ELSE "work",
         ~z.block => k.group = <<>> /\ z.calls[c].event = Issued(k, "comm"),
         \A p \in z.pairs : p[1][1] # c
  PROVE  Sound(k, c, z.calls[c], Mode(z.calls, c), z.now, z.refs)
<1> DEFINE m == Mode(z.calls, c)
           N == z.now
<1>1. PICK P : Delivers(k, c, z, P) /\ (z.block \/ P = {})
  BY DEF Given
<1>2. /\ k \in Hosts /\ k.pairs = z.pairs \cup P
      /\ Flows(Line(k), c, m, N) /\ Ahead(k, c) /\ Cov(k, c)
      /\ \A p \in P : p[1] # p[2] =>
          Brings(m, p) \in Expected(m[1], p[1][2]) /\ Ends(Line(k), p[2], Brings(m, p), m, N)
      /\ \A r \in Outputs(m[1]) :
          (\E p \in P : p[1] # p[2] /\ p[1] = <<c, r>>) \/ Result(Line(k), c, r, m, N)
  BY <1>1 DEF Delivers
<1>3. CASE z.block
  <2>1. \A p \in k.pairs : p[1][1] = c => p \in P
    BY <1>2
  <2>2. \A p \in P : p[1] # p[2] => Back(k, p)
    BY <1>2 DEF Back
  <2>3. \A p \in k.pairs : Back(k, p) => p[1] # p[2]
    BY DEF Back
  <2>4. Member(k, c, m, N, z.refs)
    <3>1. \A p \in k.pairs : p[1][1] = c /\ Back(k, p) =>
            Brings(m, p) \in Expected(m[1], p[1][2]) /\ Ends(Line(k), p[2], Brings(m, p), m, N)
      BY <1>2, <2>1, <2>3
    <3>2. \A r \in Outputs(m[1]) : <<c, r>> \in z.refs =>
            (\E p \in k.pairs : Back(k, p) /\ p[1] = <<c, r>>) \/ Result(Line(k), c, r, m, N)
      BY <1>2, <2>2
    <3>3. \A j \in Queued(k, "cur") : Makes(k, j, c) => Covered(k, j)
      BY <1>2 DEF Cov
    <3> QED BY <3>1, <3>2, <3>3 DEF Member
  <2> QED BY <1>2, <1>3, <2>4 DEF Sound
<1>4. CASE ~z.block
  <2>1. P = {}
    BY <1>1, <1>4
  <2>2. Results(Line(k), c, m, N, z.refs)
    BY <1>2, <2>1 DEF Results
  <2>3. Settled(k, c, z.calls[c].event["comm"]) /\ Behind(k, c, z.calls[c].event)
    BY <1>2, <1>4, WorkStands
  <2>4. Work(k, c, m, N, z.refs, z.calls[c].event)
    BY <2>2, <2>3 DEF Work
  <2> QED BY <1>2, <1>4, <2>4 DEF Sound
<1> QED BY <1>3, <1>4

\* A collective that returns.
LEMMA CallValue ==
  ASSUME StreamsInv, StreamsInv', ValueInv, NEW c \in Calls, NEW kind \in Kinds,
         NEW kept \in Kept(c, kind), Call(c, kind, kept)
  PROVE  ValueInv'
<1> DEFINE p == Produced(c, kind)
           al == live \cup Mine(c, kind) \cup Local(c, kind)
           k == Method(kind, p, h.open, c)
           N == Facts(p, val)
           rf == refs \cup kept
           z == [calls |-> call', now |-> N, refs |-> rf, block |-> h.block, pairs |-> h.pairs]
<1>1. kind \in AllKinds /\ strided \in BOOLEAN
  BY KindsAre DEF StreamsInv
<1>2. /\ call[c].pc = "new" /\ Host(k, al, rf)
      /\ call' = [call EXCEPT ![c] =
                   [pc |-> IF h.open THEN "member" ELSE "work", kind |-> kind,
                    event |-> Issued(k, "comm")]]
      /\ lib' = lib /\ val' = val /\ seen' = seen
  BY DEF Call, Begins, deviceVars
<1>3. /\ h \in Hosts /\ call \in [Calls -> CallSet] /\ live \in SUBSET Bufs
      /\ Blocks(h) /\ HeldAlive(h, live, call) /\ Deferred(h')
  BY DEF StreamsInv, HeldInv
<1>4. /\ call'[c].pc = (IF h.open THEN "member" ELSE "work") /\ call'[c].kind = kind
      /\ call'[c].event = Issued(k, "comm")
      /\ \A d \in Calls \ {c} : call'[d] = call[d]
  BY <1>2, <1>3
<1>5. Entering(call', c, kind)
  BY <1>4 DEF Entering
<1>6. \A d \in Calls \ {c} : \A r : <<d, r>> \in rf => <<d, r>> \in refs
  BY DEF Kept
<1>7. al \in SUBSET Bufs
  BY <1>1, <1>3, OwnBufs, LocalBufs
<1>8. /\ z.calls = call' /\ z.now = N /\ z.refs = rf /\ z.block = h.block /\ z.pairs = h.pairs
  OBVIOUS
<1>9. h.open \in BOOLEAN /\ h.block = h.open /\ (~h.open => h.group = <<>>)
  BY <1>3 DEF Hosts, Blocks
<1>10. N = Facts(p, val)
  OBVIOUS
<1> HIDE DEF z, N, rf, al
<1>11. p \in Hosts /\ Aside(h, p)
  BY <1>2, <1>5, <1>6, <1>8, ProducedOthers DEF N
<1>12. Starting(p, c, z, Given0(kind), kind, h.open)
  <2>1. p.group = h.group /\ p.pairs = h.pairs /\ p.block = h.block
    BY <1>11 DEF Aside
  <2>2. Closed(p, z, h.open)
    BY <1>8, <1>9, <2>1 DEF Closed
  <2>3. p.q = Produced(c, kind).q /\ p.waits = Produced(c, kind).waits
    OBVIOUS
  <2>4. Entering(z.calls, c, kind) /\ z.now = Facts(Produced(c, kind), val)
    BY <1>5, <1>8, <1>10
  <2>5. \A d \in Calls \ {c} : \A r : <<d, r>> \in z.refs => <<d, r>> \in refs
    BY <1>6, <1>8
  <2>6. p.block = z.block /\ z.pairs = h.pairs
    BY <1>8, <2>1
  <2> HIDE DEF p
  <2> QED BY <1>2, <1>11, <2>1, <2>2, <2>3, <2>4, <2>5, <2>6, Begin
<1> HIDE DEF p
<1>13. Given(k, c, z)
  BY <1>1, <1>12, MethodGives
<1>14. /\ k \in Hosts /\ k.q["cur"] = p.q["cur"] /\ (h.open \/ k.group = <<>>)
  <2>1. p.open = h.open /\ p.group = h.group
    BY <1>11 DEF Aside
  <2>2. h.open \/ (p.group = <<>> /\ p.open = FALSE)
    BY <1>9, <2>1
  <2>3. Collects(p, k, h.open, c, kind)
    BY <1>1, <1>9, <1>11, <2>2, MethodCollects
  <2> HIDE DEF k
  <2>4. k \in Hosts /\ Extends(p, k, "comm", Own(c, kind)) /\ (h.open \/ k.group = p.group)
    BY <2>3 DEF Collects, Issues
  <2> QED BY <1>11, <2>2, <2>4, ExtendsCur
<1> HIDE DEF k
<1>15. Facts(k, val) = N
  BY <1>10, <1>14, SameFacts
<1>16. Sound(k, c, call'[c], Mode(call', c), N, rf)
  <2>1. Mode(z.calls, c)[1] \in AllKinds
    BY <1>1, <1>4, <1>8 DEF Mode
  <2>2. z.calls[c].pc = IF z.block THEN "member" ELSE "work"
    BY <1>4, <1>8, <1>9
  <2>3. ~z.block => k.group = <<>> /\ z.calls[c].event = Issued(k, "comm")
    BY <1>4, <1>8, <1>9, <1>14
  <2>4. \A q \in z.pairs : q[1][1] # c
    BY <1>2, <1>3, <1>8, PairsOfMembers
  <2>5. Sound(k, c, z.calls[c], Mode(z.calls, c), z.now, z.refs)
    BY <1>13, <2>1, <2>2, <2>3, <2>4, GivenSound
  <2> QED BY <1>8, <2>5
<1>17. Others(k, c, z)
  BY <1>13 DEF Given, Delivers
<1>18. Fine(k, call', val, rf)
  BY <1>8, <1>15, <1>16, <1>17 DEF Fine, Others
<1>19. Fine(h', call', val, rf)
  BY <1>2, <1>3, <1>7, <1>14, <1>18, HostFine
<1>20. refs' = rf
  BY <1>2 DEF Host
<1>21. Read(seen, call')
  <2>1. \A d \in Calls : call[d].pc = "used" => call'[d].pc = "used" /\ call'[d].kind = call[d].kind
    BY <1>2, <1>4
  <2> QED BY <2>1, ReadLater DEF ValueInv
<1>22. Fine(h', call', val', refs') /\ Read(seen', call')
  BY <1>2, <1>19, <1>20, <1>21
<1>23. Fine(h, call, val, refs)' <=> Fine(h', call', val', refs')
  BY <1>2 DEF Fine, Mode
<1> QED BY <1>22, <1>23 DEF ValueInv, Read

\* A collective that raises after its first operation, and takes the open block
\* with it.
LEMMA CallRaisesValue ==
  ASSUME StreamsInv, StreamsInv', ValueInv, NEW c \in Calls, NEW kind \in Kinds,
         NEW ends \in BOOLEAN, CallRaises(c, kind, ends)
  PROVE  ValueInv'
<1> DEFINE p == Produced(c, kind)
           al == live \cup Mine(c, kind) \cup Local(c, kind)
           p1 == [p EXCEPT !.block = TRUE]
           m == Method(kind, p1, h.open, c)
           k == Partly(p, h.open, c, kind)
           g == AbortCoalescing(k, ends)
           N == Facts(p, val)
           z == [calls |-> call', now |-> N, refs |-> refs, block |-> TRUE, pairs |-> h.pairs]
<1>1. kind \in AllKinds /\ strided \in BOOLEAN
  BY KindsAre DEF StreamsInv
<1>2. /\ call[c].pc = "new" /\ Host(g, al, refs)
      /\ call' = [d \in Calls |-> IF h.block /\ call[d].pc = "member"
                                  THEN [call[d] EXCEPT !.pc = "raised"]
                                  ELSE Raised(c, kind)[d]]
      /\ lib' = lib /\ val' = val /\ seen' = seen
  BY DEF CallRaises, Begins, deviceVars
<1>3. /\ h \in Hosts /\ call \in [Calls -> CallSet] /\ live \in SUBSET Bufs
      /\ Blocks(h) /\ HeldAlive(h, live, call) /\ Deferred(h) /\ Deferred(h')
  BY DEF StreamsInv, HeldInv
<1>4. /\ call'[c].pc = "raised" /\ call'[c].kind = kind
      /\ \A d \in Calls \ {c} : \/ call'[d] = call[d] /\ ~(h.block /\ call[d].pc = "member")
                                \/ call[d].pc = "member" /\ call'[d].pc = "raised"
  <2>1. /\ Raised(c, kind)[c].pc = "raised" /\ Raised(c, kind)[c].kind = kind
        /\ \A d \in Calls \ {c} : Raised(c, kind)[d] = call[d]
    BY <1>3 DEF Raised
  <2>2. \A d \in Calls : [call[d] EXCEPT !.pc = "raised"].pc = "raised"
    BY <1>3 DEF CallSet
  <2> QED BY <1>2, <2>1, <2>2
<1>5. Entering(call', c, kind)
  BY <1>4 DEF Entering
<1>6. al \in SUBSET Bufs
  BY <1>1, <1>3, OwnBufs, LocalBufs
<1>7. /\ z.calls = call' /\ z.now = N /\ z.refs = refs /\ z.block = TRUE /\ z.pairs = h.pairs
  OBVIOUS
<1>8. h.open \in BOOLEAN /\ h.block = h.open /\ (~h.open => h.group = <<>>)
  BY <1>3 DEF Hosts, Blocks
<1>9. N = Facts(p, val)
  OBVIOUS
<1> HIDE DEF z, al
<1>10. p \in Hosts /\ Aside(h, p)
  BY <1>2, <1>5, <1>7, ProducedOthers
<1> HIDE DEF N
<1>11. k = [m EXCEPT !.block = p.block, !.records = p.records, !.pairs = p.pairs]
  BY DEF Partly
<1>12. /\ p1 \in Hosts /\ p1.q = p.q /\ p1.waits = p.waits /\ p1.group = h.group
       /\ p1.open = h.open /\ p1.pairs = h.pairs /\ p1.block = TRUE
  BY <1>10 DEF Hosts, Aside
<1> HIDE DEF k, p1
<1>13. Starting(p1, c, z, Given0(kind), kind, h.open)
  <2>1. Closed(p1, z, h.open)
    BY <1>7 DEF Closed
  <2>2. p1.q = Produced(c, kind).q /\ p1.waits = Produced(c, kind).waits
    BY <1>12
  <2>3. Entering(z.calls, c, kind) /\ z.now = Facts(Produced(c, kind), val)
    BY <1>5, <1>7, <1>9
  <2>4. \A d \in Calls \ {c} : \A r : <<d, r>> \in z.refs => <<d, r>> \in refs
    BY <1>7
  <2>5. p1.block = z.block /\ z.pairs = h.pairs
    BY <1>7, <1>12
  <2> HIDE DEF p
  <2> QED BY <1>2, <1>12, <2>1, <2>2, <2>3, <2>4, <2>5, Begin
<1> HIDE DEF p
<1>14. Given(m, c, z)
  BY <1>1, <1>13, MethodGives
<1>15. /\ m \in Hosts /\ m.q["cur"] = p.q["cur"] /\ Unfreed(m)
  <2>1. h.open \/ (p1.group = <<>> /\ p1.open = FALSE)
    BY <1>8, <1>12
  <2>2. Collects(p1, m, h.open, c, kind)
    BY <1>1, <1>8, <1>12, <2>1, MethodCollects
  <2> HIDE DEF m
  <2>3. /\ m \in Hosts /\ Extends(p1, m, "comm", Own(c, kind))
        /\ \E D : \A op \in GroupOps(m) : op \in GroupOps(p1) \/ Works(op, D)
    BY <2>2 DEF Collects, Issues
  <2>4. GroupOps(p1) = GroupOps(h)
    BY <1>12 DEF GroupOps
  <2>5. Unfreed(m)
    BY <1>3, <2>3, <2>4 DEF Unfreed, Deferred, Works
  <2> QED BY <1>12, <2>3, <2>5, ExtendsCur
<1> HIDE DEF m
<1>16. PICK P : Delivers(m, c, z, P)
  BY <1>14 DEF Given
<1>17. /\ m.pairs = h.pairs \cup P /\ Others(m, c, z)
       /\ \A x \in P : x[1][1] = c /\ x[2][1] = c
  BY <1>7, <1>16 DEF Delivers
<1>18. /\ k \in Hosts /\ k.q = m.q /\ k.waits = m.waits /\ k.group = m.group
       /\ k.block = h.block /\ k.pairs = h.pairs
  <2>1. p.block = h.block /\ p.pairs = h.pairs
    BY <1>10 DEF Aside
  <2>2. p.block \in BOOLEAN /\ p.records \in SUBSET Bufs /\ p.pairs \in SUBSET (Bufs \X Bufs)
    BY <1>10 DEF Hosts
  <2> QED BY <1>11, <1>15, <2>1, <2>2 DEF Hosts
<1>19. Sides(h, call)
  BY DEF ValueInv, Fine
<1>20. Others(k, c, z)
  <2>1. \A x : x[1][1] # c => (x \in m.pairs <=> x \in k.pairs)
    BY <1>17, <1>18
  <2>2. \A x \in k.pairs : x[1][1] = x[2][1] /\ x[1][2] \in UserRoles
    BY <1>18, <1>19 DEF Sides
  <2> QED BY <1>15, <1>17, <1>18, <2>1, <2>2, OthersPairs
<1>21. Facts(k, val) = N
  BY <1>9, <1>15, <1>18, SameFacts
<1>22. Fine(k, call', val, refs)
  <2>1. Sound(k, c, call'[c], Mode(call', c), N, refs)
    BY <1>4 DEF Sound
  <2> QED BY <1>7, <1>20, <1>21, <2>1 DEF Fine, Others
<1>23. g \in Hosts /\ Fine(g, call', val, refs)
  <2>1. CASE ~h.block
    <3>1. g = k
      BY <1>18, <2>1 DEF AbortCoalescing
    <3> QED BY <1>18, <1>22, <3>1
  <2>2. CASE h.block /\ ends
    <3>1. g = BlockEnd(k)
      BY <1>18, <2>2 DEF AbortCoalescing, BlockEnd
    <3>2. \A d \in Calls : call'[d].pc # "member"
      BY <1>4, <2>2
    <3>3. Dense(k)
      BY <1>3, <1>18 DEF Deferred, Dense
    <3>4. \A x \in k.pairs : call'[x[1][1]].pc = "member" \/ Idle(call', x[1][1])
      <4> SUFFICES ASSUME NEW x \in k.pairs PROVE Idle(call', x[1][1])
        OBVIOUS
      <4>1. x \in h.pairs /\ h.pairs \in SUBSET (Bufs \X Bufs)
        BY <1>3, <1>18 DEF Hosts
      <4>2. x[1][1] \in Calls
        BY <4>1, BufFacts
      <4>3. call[x[1][1]].pc = "member"
        BY <1>3, <4>1, PairsOfMembers
      <4>4. call'[x[1][1]].pc = "raised"
        BY <1>2, <1>4, <2>2, <4>2, <4>3
      <4> QED BY <4>4 DEF Idle
    <3> HIDE DEF g
    <3> DEFINE cs == call'
    <3>5. cs = call'
      OBVIOUS
    <3> HIDE DEF cs
    <3>6. BlockEnd(k) \in Hosts /\ Fine(BlockEnd(k), cs, val, refs)
      <4>1. \A d \in Calls : IF cs[d].pc = "member"
                          THEN /\ cs[d].pc = "work" /\ cs[d].kind = cs[d].kind
                               /\ cs[d].event = Issued(BlockEnd(k), "comm")
                          ELSE cs[d] = cs[d]
        BY <3>2, <3>5
      <4> QED BY <1>18, <1>22, <3>3, <3>4, <3>5, <4>1, BlockEndFine
    <3> QED BY <3>1, <3>5, <3>6
  <2>3. CASE h.block /\ ~ends
    <3>1. g = Dropped(Cleared(k))
      BY <1>18, <2>3 DEF AbortCoalescing
    <3>2. g \in Hosts /\ g.q = k.q /\ g.group = <<>> /\ g.pairs = {}
      BY <1>18, <3>1, DroppedFields
    <3>3. g.waits = k.waits
      BY <1>18, <3>1 DEF Dropped, Cleared, Hosts
    <3>4. Unfreed(k)
      BY <1>15, <1>18 DEF Unfreed, GroupOps
    <3>5. \A d \in Calls : call'[d].pc # "member"
      BY <1>4, <2>3
    <3> HIDE DEF g
    <3> DEFINE cs == call'
    <3>6. cs = call'
      OBVIOUS
    <3> HIDE DEF cs
    <3>7. Fine(g, cs, val, refs)
      BY <1>18, <1>22, <3>2, <3>3, <3>4, <3>5, <3>6, FineDropped
    <3> QED BY <3>2, <3>6, <3>7
  <2> QED BY <2>1, <2>2, <2>3
<1>24. Fine(h', call', val, refs)
  <2> HIDE DEF g
  <2> QED BY <1>2, <1>3, <1>6, <1>23, HostFine
<1>25. refs' = refs
  BY <1>2 DEF Host
<1>26. Read(seen, call')
  <2>1. \A d \in Calls : call[d].pc = "used" => call'[d].pc = "used" /\ call'[d].kind = call[d].kind
    BY <1>2, <1>4
  <2> QED BY <2>1, ReadLater DEF ValueInv
<1>27. Fine(h', call', val', refs') /\ Read(seen', call')
  BY <1>2, <1>24, <1>25, <1>26
<1>28. Fine(h, call, val, refs)' <=> Fine(h', call', val', refs')
  BY <1>2 DEF Fine, Mode
<1> QED BY <1>27, <1>28 DEF ValueInv, Read

(* Executing the head of a stream.                                         *)

\* Execute shifts its stream.
LEMMA ExecuteShifts ==
  ASSUME StreamsInv, NEW s \in Streams, Execute(s)
  PROVE  Shifted(h, h', s)
<1>1. h \in Hosts
  BY DEF StreamsInv
<1> QED BY <1>1, ExecuteFields DEF Shifted, Aside, Alike

\* Passed moves the points of s one down.
LEMMA DownPassed ==
  ASSUME NEW s \in Streams, NEW point \in [Streams -> Nat]
  PROVE  \A t \in Streams : Passed(s, point)[t] = Down(s, t, point[t]) /\ Passed(s, point)[t] \in Nat
BY PassedType DEF Down

\* Whatever is at a point is behind the point, later too.
LEMMA DownBehind ==
  ASSUME NEW s, NEW t, NEW i \in Nat, NEW n \in Nat, Was(s, t, i) <= n
  PROVE  i <= Down(s, t, n) /\ Down(s, t, n) \in Nat
BY DEF Down, Was

\* The positions of the line.
LEMMA ShiftLine ==
  ASSUME NEW g, NEW k, NEW s, Shifted(g, k, s)
  PROVE  /\ Len(Line(g)) = Was(s, "comm", Len(Line(k)))
         /\ \A i \in 1..Len(Line(k)) :
              /\ Was(s, "comm", i) \in 1..Len(Line(g))
              /\ Alike(Line(k)[i], Line(g)[Was(s, "comm", i)])
              /\ i \in Queued(k, "comm") <=> Was(s, "comm", i) \in Queued(g, "comm")
         /\ s = "comm" => 1 \in 1..Len(Line(g)) /\ Line(g)[1] = g.q["comm"][1]
<1> DEFINE u == Len(g.q["comm"])
           v == Len(k.q["comm"])
           w == Len(g.group)
           a == Len(Line(g))
           b == Len(Line(k))
           W(i) == Was(s, "comm", i)
<1>1. g \in Hosts /\ k \in Hosts /\ "comm" \in Streams
  BY StreamNames DEF Shifted
<1>2. u \in Nat /\ v \in Nat /\ w \in Nat /\ a = u + w /\ b = v + w
  BY <1>1, LineFields DEF Shifted
<1>3. u = W(v)
  BY <1>1 DEF Shifted
<1>4. \A i \in 1..v : Line(k)[i] = k.q["comm"][i] /\ Alike(k.q["comm"][i], g.q["comm"][W(i)])
  BY <1>1, LineFields DEF Shifted, Queued
<1>5. \A i \in 1..u : Line(g)[i] = g.q["comm"][i]
  BY <1>1, LineFields DEF Queued
<1>6. \A i \in 1..w : Line(k)[v + i] = k.group[i] /\ Line(g)[u + i] = g.group[i]
  BY <1>1, LineFields DEF Shifted
<1>7. k.group = g.group
  BY DEF Shifted
<1>8. 1 \in Queued(g, s)
  BY DEF Shifted
<1>9. Queued(k, "comm") = 1..v /\ Queued(g, "comm") = 1..u
  BY DEF Queued
<1> HIDE DEF u, v, w, a, b
<1>10. a = W(b)
  BY <1>2, <1>3 DEF Was
<1>11. ASSUME NEW i \in 1..b
       PROVE  /\ W(i) \in 1..a /\ Alike(Line(k)[i], Line(g)[W(i)])
              /\ i \in 1..v <=> W(i) \in 1..u
  <2>1. W(i) \in 1..a /\ (i \in 1..v <=> W(i) \in 1..u)
    BY <1>2, <1>3 DEF Was
  <2>2. CASE i \in 1..v
    BY <1>4, <1>5, <2>1, <2>2
  <2>3. CASE i \notin 1..v
    <3>1. i - v \in 1..w /\ v + (i - v) = i /\ u + (i - v) = W(i)
      BY <1>2, <1>3, <2>3 DEF Was
    <3>2. Line(k)[i] = k.group[i - v] /\ Line(g)[W(i)] = g.group[i - v]
      BY <1>6, <3>1
    <3> QED BY <1>7, <2>1, <3>2 DEF Alike
  <2> QED BY <2>2, <2>3
<1>12. s = "comm" => 1 \in 1..a /\ Line(g)[1] = g.q["comm"][1]
  BY <1>2, <1>5, <1>8, <1>9
<1> QED BY <1>9, <1>10, <1>11, <1>12 DEF a, b

\* A producer still to run was there.
LEMMA ShiftMakes ==
  ASSUME NEW g, NEW k, NEW s, Shifted(g, k, s), NEW c, NEW j, Makes(k, j, c)
  PROVE  Makes(g, Was(s, "cur", j), c) /\ j \in Nat /\ j > 0 /\ Was(s, "cur", j) \in Nat
<1>1. j \in Queued(k, "cur") /\ "cur" \in Streams
  BY StreamNames DEF Makes
<1>2. j \in Nat /\ j > 0
  BY <1>1 DEF Queued
<1>3. Makes(g, Was(s, "cur", j), c)
  BY <1>1 DEF Makes, Shifted, Alike
<1> QED BY <1>2, <1>3 DEF Was

\* What reached it still does.
LEMMA ShiftReaches ==
  ASSUME NEW g, NEW k, NEW s, Shifted(g, k, s), NEW j \in Nat, j > 0, NEW n \in Nat,
         Reaches(g, Was(s, "cur", j), n)
  PROVE  Reaches(k, j, Down(s, "comm", n))
<1>1. PICK x \in Queued(g, "comm") : x <= n /\ Was(s, "cur", j) <= g.q["comm"][x].waits["cur"]
  BY DEF Reaches
<1>2. /\ g \in Hosts /\ k \in Hosts /\ s \in Streams /\ "comm" \in Streams /\ "cur" \in Streams
  BY StreamNames DEF Shifted
<1>3. g.q["comm"][x].waits \in [Streams -> Nat] /\ x \in Nat /\ x > 0
  <2>1. g.q["comm"][x] \in OpSet
    BY <1>1, <1>2, HostTypes
  <2> QED BY <1>1, <2>1 DEF OpSet, Queued
<1>4. Was(s, "cur", j) \in Nat /\ Was(s, "cur", j) > 0
  BY DEF Was
<1>5. ~(s = "comm" /\ x = 1)
  <2> SUFFICES ASSUME s = "comm", x = 1 PROVE FALSE
    OBVIOUS
  <2>1. g.q["comm"][x].waits["cur"] = 0
    BY <1>2 DEF Shifted, NoWait
  <2> QED BY <1>1, <1>4, <2>1
<1> DEFINE i == IF s = "comm" THEN x - 1 ELSE x
<1>6. i \in Queued(k, "comm") /\ Was(s, "comm", i) = x /\ i <= Down(s, "comm", n) /\ i \in Nat
  <2> DEFINE u == Len(g.q["comm"])
             v == Len(k.q["comm"])
  <2>1. u = Was(s, "comm", v) /\ u \in Nat /\ v \in Nat /\ x \in 1..u
    BY <1>1, <1>2, HostTypes DEF Shifted, Queued
  <2> HIDE DEF u, v
  <2>2. i \in 1..v
    BY <1>3, <1>5, <2>1 DEF Was
  <2> QED BY <1>1, <1>3, <1>5, <2>2 DEF Was, Down, Queued, v
<1>7. k.q["comm"][i].waits = Passed(s, g.q["comm"][x].waits)
  BY <1>2, <1>6 DEF Shifted
<1>8. j <= k.q["comm"][i].waits["cur"]
  <2> DEFINE w == g.q["comm"][x].waits
  <2>1. Passed(s, w)["cur"] = Down(s, "cur", w["cur"]) /\ w["cur"] \in Nat
    BY <1>2, <1>3, DownPassed
  <2>2. Was(s, "cur", j) <= w["cur"]
    BY <1>1
  <2> HIDE DEF w
  <2>3. j <= Down(s, "cur", w["cur"])
    BY <2>1, <2>2, DownBehind
  <2> QED BY <1>7, <2>1, <2>3 DEF w
<1> HIDE DEF i
<1> QED BY <1>6, <1>8 DEF Reaches

\* What was done by a point still is.
LEMMA ShiftSettled ==
  ASSUME NEW g, NEW k, NEW s, Shifted(g, k, s), NEW c, NEW n \in Nat, Settled(g, c, n)
  PROVE  Settled(k, c, Down(s, "comm", n))
<1> SUFFICES ASSUME NEW i \in 1..Len(Line(k)), Of(Line(k)[i], c)
             PROVE  i <= Down(s, "comm", n) /\ i \in Queued(k, "comm")
  BY DEF Settled
<1> DEFINE x == Was(s, "comm", i)
<1>1. /\ x \in 1..Len(Line(g)) /\ Alike(Line(k)[i], Line(g)[x])
      /\ i \in Queued(k, "comm") <=> x \in Queued(g, "comm")
  BY ShiftLine
<1>2. Of(Line(g)[x], c)
  BY <1>1, AlikeShape
<1>3. x <= n /\ x \in Queued(g, "comm")
  BY <1>1, <1>2 DEF Settled
<1>4. i \in Nat
  BY <1>1
<1> QED BY <1>1, <1>3, <1>4, DownBehind

\* None of a call's operations passes its producer.
LEMMA ShiftAhead ==
  ASSUME NEW g, NEW k, NEW s, Shifted(g, k, s), NEW c, Ahead(g, c)
  PROVE  Ahead(k, c)
<1> SUFFICES ASSUME NEW j \in Queued(k, "cur"), NEW i \in Queued(k, "comm"),
                    Makes(k, j, c), Of(k.q["comm"][i], c)
             PROVE  Reaches(k, j, i)
  BY DEF Ahead
<1> DEFINE y == Was(s, "cur", j)
           x == Was(s, "comm", i)
<1>1. Makes(g, y, c) /\ j \in Nat /\ j > 0
  BY ShiftMakes
<1>2. x \in Queued(g, "comm") /\ Alike(k.q["comm"][i], g.q["comm"][x]) /\ i \in Nat /\ i > 0
  BY StreamNames DEF Shifted, Queued
<1>3. Of(g.q["comm"][x], c)
  BY <1>2, AlikeShape
<1>4. y \in Queued(g, "cur")
  BY <1>1 DEF Makes
<1>5. Reaches(g, y, x)
  BY <1>1, <1>2, <1>3, <1>4 DEF Ahead
<1>6. x \in Nat /\ Down(s, "comm", x) = i
  BY <1>2 DEF Was, Down
<1> HIDE DEF x
<1>7. Reaches(k, j, Down(s, "comm", x))
  BY <1>1, <1>5, <1>6, ShiftReaches
<1> QED BY <1>6, <1>7

\* The comm stream still goes behind the producer.
LEMMA ShiftCov ==
  ASSUME NEW g, NEW k, NEW s, Shifted(g, k, s), NEW c, Cov(g, c)
  PROVE  Cov(k, c)
<1> SUFFICES ASSUME NEW j \in Queued(k, "cur"), Makes(k, j, c) PROVE Covered(k, j)
  BY DEF Cov
<1> DEFINE y == Was(s, "cur", j)
           n == Len(g.q["comm"])
           w == g.waits["comm"]
<1>1. Makes(g, y, c) /\ j \in Nat /\ j > 0
  BY ShiftMakes
<1>2. g \in Hosts /\ k \in Hosts /\ s \in Streams /\ "comm" \in Streams /\ "cur" \in Streams
  BY StreamNames DEF Shifted
<1>3. n \in Nat /\ Len(k.q["comm"]) \in Nat /\ w \in [Streams -> Nat]
  BY <1>2, HostTypes DEF Hosts
<1>4. Down(s, "comm", n) = Len(k.q["comm"])
  BY <1>2, <1>3, SMTT(30) DEF Shifted, Was, Down
<1>5. Covered(g, y)
  BY <1>1 DEF Cov, Makes
<1>6. CASE Reaches(g, y, n)
  <2> HIDE DEF n
  <2>1. Reaches(k, j, Down(s, "comm", n))
    BY <1>1, <1>3, <1>6, ShiftReaches
  <2> QED BY <1>4, <2>1 DEF Covered
<1>7. CASE y <= w["cur"]
  <2>1. k.waits["comm"] = Passed(s, w)
    BY <1>2 DEF Shifted
  <2>2. Passed(s, w)["cur"] = Down(s, "cur", w["cur"]) /\ w["cur"] \in Nat
    BY <1>2, <1>3, DownPassed
  <2>3. j <= Down(s, "cur", w["cur"])
    <3> HIDE DEF w
    <3> QED BY <1>1, <1>7, <2>2, DownBehind
  <2> QED BY <2>1, <2>2, <2>3 DEF Covered
<1> QED BY <1>5, <1>6, <1>7 DEF Covered

\* A point that was behind the producer still is.
LEMMA ShiftPoint ==
  ASSUME NEW g, NEW k, NEW s, Shifted(g, k, s), NEW j \in Nat, j > 0,
         NEW ev \in [Streams -> Nat],
         Was(s, "cur", j) <= ev["cur"] \/ Reaches(g, Was(s, "cur", j), ev["comm"])
  PROVE  j <= Passed(s, ev)["cur"] \/ Reaches(k, j, Passed(s, ev)["comm"])
<1>1. s \in Streams /\ "comm" \in Streams /\ "cur" \in Streams
  BY StreamNames DEF Shifted
<1> DEFINE a == ev["cur"]
           b == ev["comm"]
           a2 == Passed(s, ev)["cur"]
           b2 == Passed(s, ev)["comm"]
<1>2. a \in Nat /\ b \in Nat /\ a2 = Down(s, "cur", a) /\ b2 = Down(s, "comm", b)
  BY <1>1, DownPassed
<1> HIDE DEF a, b, a2, b2
<1>3. CASE Was(s, "cur", j) <= a
  BY <1>2, <1>3, DownBehind DEF a2
<1>4. CASE Reaches(g, Was(s, "cur", j), b)
  BY <1>2, <1>4, ShiftReaches DEF b2
<1> QED BY <1>3, <1>4 DEF a, b

\* A point behind the producer stays behind it.
LEMMA ShiftBehind ==
  ASSUME NEW g, NEW k, NEW s, Shifted(g, k, s), NEW c, NEW ev \in [Streams -> Nat],
         Behind(g, c, ev)
  PROVE  Behind(k, c, Passed(s, ev))
<1> SUFFICES ASSUME NEW j \in Queued(k, "cur"), Makes(k, j, c)
             PROVE  j <= Passed(s, ev)["cur"] \/ Reaches(k, j, Passed(s, ev)["comm"])
  BY DEF Behind
<1> DEFINE y == Was(s, "cur", j)
<1>1. Makes(g, y, c) /\ j \in Nat /\ j > 0
  BY ShiftMakes
<1>2. y <= ev["cur"] \/ Reaches(g, y, ev["comm"])
  BY <1>1 DEF Behind, Makes
<1> QED BY <1>1, <1>2, ShiftPoint

\* What was left somewhere on the line still is.
LEMMA ShiftHolds ==
  ASSUME NEW g, NEW k, NEW s, Shifted(g, k, s), NEW c, NEW m, NEW N, NEW M, NEW U,
         Keeps(g, s, c, m, N, M, U),
         NEW i \in Nat, i > 0, i <= Len(Line(k)) + 1, NEW b, b[1] = c, b \notin U, NEW v \in Vals,
         Holds(Line(g), Was(s, "comm", i), b, v, m, N)
  PROVE  Holds(Line(k), i, b, v, m, M)
<1> DEFINE l == Line(g)
           n == Line(k)
<1>1. \A x \in 1..(i - 1) : Alike(n[x], l[Was(s, "comm", x)])
  <2>1. Len(n) \in Nat
    BY LineFields DEF Shifted
  <2> QED BY <2>1, ShiftLine
<1>2. CASE s = "comm"
  <2>1. \A x \in 1..(i - 1) : Alike(n[x], l[x + 1])
    BY <1>1, <1>2 DEF Was
  <2>2. Holds(l, i + 1, b, v, m, N)
    BY <1>2 DEF Was
  <2>3. b \in l[1].writes => (Out(l[1], m) = v => <<b, v>> \in M)
    BY <1>2 DEF Keeps
  <2>4. b \notin l[1].writes => (<<b, v>> \in N => <<b, v>> \in M)
    BY <1>2 DEF Keeps
  <2> HIDE DEF l, n
  <2>5. Holds(n, i, b, v, m, M)
    BY <2>1, <2>2, <2>3, <2>4, HoldsShift
  <2> QED BY <2>5 DEF n
<1>3. CASE s # "comm"
  <2>1. \A x \in 1..(i - 1) : Alike(l[x], n[x])
    BY <1>1, <1>3 DEF Was, Alike
  <2>2. Holds(l, i, b, v, m, N)
    BY <1>3 DEF Was
  <2>3. <<b, v>> \in N => <<b, v>> \in M
    BY <1>3 DEF Keeps
  <2> HIDE DEF l, n
  <2>4. Holds(n, i, b, v, m, N)
    BY <2>1, <2>2, HoldsAlike
  <2>5. Holds(n, i, b, v, m, M)
    BY <2>3, <2>4, HoldsNow
  <2> QED BY <2>5 DEF n
<1> QED BY <1>2, <1>3

\* What the line leaves at its end, unless it was freed.
LEMMA ShiftEnds ==
  ASSUME NEW g, NEW k, NEW s, Shifted(g, k, s), NEW c, NEW m, NEW N, NEW M, NEW U,
         Keeps(g, s, c, m, N, M, U),
         NEW b, b[1] = c, b \notin U, NEW v \in Vals, Ends(Line(g), b, v, m, N)
  PROVE  Ends(Line(k), b, v, m, M)
<1> DEFINE w == Len(Line(k))
           a == Len(Line(g))
<1>1. w \in Nat /\ a \in Nat
  BY LineFields DEF Shifted
<1>2. a = Was(s, "comm", w)
  BY ShiftLine
<1> HIDE DEF w, a
<1>3. w + 1 \in Nat /\ w + 1 > 0 /\ Was(s, "comm", w + 1) = a + 1
  BY <1>1, <1>2 DEF Was
<1>4. Holds(Line(g), Was(s, "comm", w + 1), b, v, m, N)
  BY <1>3 DEF Ends, a
<1>5. w + 1 <= Len(Line(k)) + 1
  BY <1>1 DEF w
<1>6. Holds(Line(k), w + 1, b, v, m, M)
  BY <1>3, <1>4, <1>5, ShiftHolds
<1> QED BY <1>6 DEF Ends, w

\* A tensor still ends with what its caller expects.
LEMMA ShiftResult ==
  ASSUME NEW g, NEW k, NEW s, Shifted(g, k, s), NEW c, NEW m, NEW N, NEW M, NEW U,
         Keeps(g, s, c, m, N, M, U), NEW r, <<c, r>> \notin U, Result(Line(g), c, r, m, N)
  PROVE  Result(Line(k), c, r, m, M)
<1>1. PICK v \in Expected(m[1], r) : Ends(Line(g), <<c, r>>, v, m, N)
  BY DEF Result
<1>2. v \in Vals /\ <<c, r>>[1] = c
  BY ValueTypes
<1>3. Ends(Line(k), <<c, r>>, v, m, M)
  BY <1>1, <1>2, ShiftEnds
<1> QED BY <1>3 DEF Result

\* The operations still on the line read what they have to.
LEMMA ShiftFlows ==
  ASSUME NEW g, NEW k, NEW s, Shifted(g, k, s), NEW c, NEW m, NEW N, NEW M, NEW U, NEW rf,
         Keeps(g, s, c, m, N, M, U), Unneeded(g, c, U, rf), Flows(Line(g), c, m, N)
  PROVE  Flows(Line(k), c, m, M)
<1> SUFFICES ASSUME NEW i \in 1..Len(Line(k)), Of(Line(k)[i], c)
             PROVE  /\ Shape(Line(k)[i], c)
                    /\ \A b \in Line(k)[i].reads : Holds(Line(k), i, b, In(Line(k)[i], m), m, M)
  BY DEF Flows
<1> DEFINE x == Was(s, "comm", i)
           o == Line(k)[i]
           p == Line(g)[x]
<1>1. x \in 1..Len(Line(g)) /\ Alike(o, p)
  BY ShiftLine
<1>2. Of(p, c) /\ Shape(o, c) = Shape(p, c)
  BY <1>1, AlikeShape
<1>3. Shape(p, c) /\ \A b \in p.reads : Holds(Line(g), x, b, In(p, m), m, N)
  BY <1>1, <1>2 DEF Flows
<1>4. o.reads = p.reads /\ In(o, m) = In(p, m)
  BY <1>1, AlikeOut DEF Alike
<1>5. \A b \in p.reads : b[1] = c /\ b \notin U
  <2>1. \A b \in p.reads : b[1] = c
    BY <1>3 DEF Shape, Touches
  <2> QED BY <1>1, <1>2, <2>1 DEF Unneeded
<1>6. In(p, m) \in Vals
  BY ValueTypes
<1>7. i \in Nat /\ i > 0 /\ i <= Len(Line(k)) + 1
  <2>1. Len(Line(k)) \in Nat
    BY LineFields DEF Shifted
  <2> QED BY <2>1
<1> HIDE DEF o, p
<1>8. ASSUME NEW b \in o.reads PROVE Holds(Line(k), i, b, In(o, m), m, M)
  BY <1>3, <1>4, <1>5, <1>6, <1>7, ShiftHolds
<1> QED BY <1>2, <1>3, <1>8 DEF o

\* The consumers still to run find what they read.
LEMMA ShiftUsed ==
  ASSUME NEW g, NEW k, NEW s, Shifted(g, k, s), NEW c, NEW m, NEW N, NEW M, NEW U, NEW rf,
         Keeps(g, s, c, m, N, M, U), Unneeded(g, c, U, rf), Used(g, c, m, N)
  PROVE  Used(k, c, m, M)
<1> SUFFICES ASSUME NEW t \in {"cur", "side"}, NEW i \in Queued(k, t), Consumes(k.q[t][i], c)
             PROVE
    /\ k.q[t][i].reads = {<<c, r>> : r \in Outputs(m[1])}
    /\ \A r \in Outputs(m[1]) : Result(Line(k), c, r, m, M)
    /\ Settled(k, c, k.q[t][i].waits["comm"])
    /\ \A j \in Queued(k, "cur") : Makes(k, j, c) =>
         \/ t = "cur" /\ j < i
         \/ j <= k.q[t][i].waits["cur"] \/ Reaches(k, j, k.q[t][i].waits["comm"])
  BY DEF Used
<1> DEFINE x == Was(s, t, i)
           w == g.q[t][x].waits
           w2 == k.q[t][i].waits
<1>1. /\ g \in Hosts /\ k \in Hosts /\ s \in Streams /\ t \in Streams
      /\ "comm" \in Streams /\ "cur" \in Streams
  BY StreamNames DEF Shifted
<1>2. x \in Queued(g, t) /\ Alike(k.q[t][i], g.q[t][x]) /\ w2 = Passed(s, w)
  BY <1>1 DEF Shifted
<1>3. w \in [Streams -> Nat]
  <2>1. g.q[t][x] \in OpSet
    BY <1>1, <1>2, HostTypes
  <2> QED BY <2>1 DEF OpSet
<1>4. Consumes(g.q[t][x], c) /\ k.q[t][i].reads = g.q[t][x].reads
  BY <1>2 DEF Consumes, Alike
<1>5. /\ g.q[t][x].reads = {<<c, r>> : r \in Outputs(m[1])}
      /\ \A r \in Outputs(m[1]) : Result(Line(g), c, r, m, N)
      /\ Settled(g, c, w["comm"])
      /\ \A j \in Queued(g, "cur") : Makes(g, j, c) =>
           \/ t = "cur" /\ j < x
           \/ j <= w["cur"] \/ Reaches(g, j, w["comm"])
  BY <1>2, <1>4 DEF Used
<1>6. \A r \in Outputs(m[1]) : <<c, r>> \notin U
  BY <1>2, <1>4, <1>5 DEF Unneeded
<1>7. \A r \in Outputs(m[1]) : Result(Line(k), c, r, m, M)
  BY <1>5, <1>6, ShiftResult
<1>8. Settled(k, c, w2["comm"])
  <2> DEFINE a == w["comm"]
  <2>1. a \in Nat /\ w2["comm"] = Down(s, "comm", a)
    BY <1>1, <1>2, <1>3, DownPassed
  <2> HIDE DEF a
  <2>2. Settled(k, c, Down(s, "comm", a))
    BY <1>5, <2>1, ShiftSettled DEF a
  <2> QED BY <2>1, <2>2
<1>9. ASSUME NEW j \in Queued(k, "cur"), Makes(k, j, c)
      PROVE  \/ t = "cur" /\ j < i
             \/ j <= w2["cur"] \/ Reaches(k, j, w2["comm"])
  <2> DEFINE y == Was(s, "cur", j)
  <2>1. Makes(g, y, c) /\ j \in Nat /\ j > 0 /\ y \in Queued(g, "cur")
    BY <1>9, ShiftMakes DEF Makes
  <2>2. \/ t = "cur" /\ y < x
        \/ y <= w["cur"] \/ Reaches(g, y, w["comm"])
    BY <1>5, <2>1
  <2>3. CASE t = "cur" /\ y < x
    BY <2>1, <2>3 DEF Was, Queued
  <2>4. CASE y <= w["cur"] \/ Reaches(g, y, w["comm"])
    <3> HIDE DEF w, w2
    <3> QED BY <1>2, <1>3, <2>1, <2>4, ShiftPoint
  <2> QED BY <2>2, <2>3, <2>4
<1> QED BY <1>4, <1>5, <1>7, <1>8, <1>9

\* What is sound of a call stays so.
LEMMA ShiftSound ==
  ASSUME NEW g, NEW k, NEW s, Shifted(g, k, s), NEW c, NEW m, NEW N, NEW M, NEW U, NEW rf,
         Keeps(g, s, c, m, N, M, U), Unneeded(g, c, U, rf),
         \A p \in g.pairs : p[1][1] = p[2][1],
         NEW cl, cl.event \in [Streams -> Nat], Sound(g, c, cl, m, N, rf),
         NEW cl2, cl2.pc = cl.pc, cl2.event = Passed(s, cl.event)
  PROVE  Sound(k, c, cl2, m, M, rf)
<1> SUFFICES ASSUME cl.pc \in {"member", "work", "used"}
             PROVE  /\ m[1] \in AllKinds /\ Flows(Line(k), c, m, M) /\ Ahead(k, c)
                    /\ cl.pc = "member" => Member(k, c, m, M, rf)
                    /\ cl.pc = "work" => Work(k, c, m, M, rf, cl2.event)
                    /\ cl.pc = "used" => Settled(k, c, Len(k.q["comm"])) /\ Used(k, c, m, M)
  BY DEF Sound
<1>1. /\ m[1] \in AllKinds /\ Flows(Line(g), c, m, N) /\ Ahead(g, c)
      /\ cl.pc = "member" => Member(g, c, m, N, rf)
      /\ cl.pc = "work" => Work(g, c, m, N, rf, cl.event)
      /\ cl.pc = "used" => Settled(g, c, Len(g.q["comm"])) /\ Used(g, c, m, N)
  BY DEF Sound
<1>2. g \in Hosts /\ k \in Hosts /\ s \in Streams /\ "comm" \in Streams /\ k.pairs = g.pairs
  BY StreamNames DEF Shifted
<1>3. Flows(Line(k), c, m, M)
  BY <1>1, ShiftFlows
<1>4. Ahead(k, c)
  BY <1>1, ShiftAhead
<1>5. \A r : <<c, r>> \in rf /\ Result(Line(g), c, r, m, N) => Result(Line(k), c, r, m, M)
  BY ShiftResult DEF Unneeded
<1>6. ASSUME cl.pc = "member" PROVE Member(k, c, m, M, rf)
  <2>1. Member(g, c, m, N, rf)
    BY <1>1, <1>6
  <2>2. \A p : Back(k, p) = Back(g, p)
    BY <1>2 DEF Back
  <2>3. ASSUME NEW p \in k.pairs, p[1][1] = c, Back(k, p)
        PROVE  Brings(m, p) \in Expected(m[1], p[1][2]) /\ Ends(Line(k), p[2], Brings(m, p), m, M)
    <3>1. Brings(m, p) \in Expected(m[1], p[1][2]) /\ Ends(Line(g), p[2], Brings(m, p), m, N)
      BY <1>2, <2>1, <2>2, <2>3 DEF Member
    <3>2. p[2][1] = c /\ p[2] \notin U /\ Brings(m, p) \in Vals
      BY <1>2, <2>3, ValueTypes DEF Unneeded, Brings
    <3> QED BY <3>1, <3>2, ShiftEnds
  <2>4. Cov(g, c)
    BY <2>1 DEF Member, Cov
  <2>5. Cov(k, c)
    BY <2>4, ShiftCov
  <2>6. \A r \in Outputs(m[1]) : <<c, r>> \in rf =>
       (\E p \in k.pairs : Back(k, p) /\ p[1] = <<c, r>>) \/ Result(Line(k), c, r, m, M)
    BY <1>2, <1>5, <2>1, <2>2 DEF Member
  <2> QED BY <2>3, <2>5, <2>6 DEF Member, Cov
<1>7. ASSUME cl.pc = "work" PROVE Work(k, c, m, M, rf, cl2.event)
  <2>1. Work(g, c, m, N, rf, cl.event)
    BY <1>1, <1>7
  <2>2. Results(Line(k), c, m, M, rf)
    BY <1>5, <2>1 DEF Work, Results
  <2>3. Behind(k, c, cl2.event)
    BY <2>1, ShiftBehind DEF Work
  <2>4. Settled(k, c, cl2.event["comm"])
    <3> DEFINE a == cl.event["comm"]
    <3>1. a \in Nat /\ cl2.event["comm"] = Down(s, "comm", a)
      BY <1>2, DownPassed
    <3>2. Settled(g, c, a)
      BY <2>1 DEF Work
    <3> HIDE DEF a
    <3>3. Settled(k, c, Down(s, "comm", a))
      BY <3>1, <3>2, ShiftSettled
    <3> QED BY <3>1, <3>3
  <2> QED BY <2>2, <2>3, <2>4 DEF Work
<1>8. ASSUME cl.pc = "used" PROVE Settled(k, c, Len(k.q["comm"])) /\ Used(k, c, m, M)
  <2>1. Settled(g, c, Len(g.q["comm"])) /\ Used(g, c, m, N)
    BY <1>1, <1>8
  <2>2. Used(k, c, m, M)
    BY <2>1, ShiftUsed
  <2> DEFINE n == Len(g.q["comm"])
             n2 == Len(k.q["comm"])
  <2>3. n \in Nat /\ n2 \in Nat /\ n = Was(s, "comm", n2)
    BY <1>2, HostTypes DEF Shifted
  <2>4. Settled(g, c, n)
    BY <2>1
  <2> HIDE DEF n, n2
  <2>5. Settled(k, c, Down(s, "comm", n))
    BY <2>3, <2>4, ShiftSettled
  <2>6. Down(s, "comm", n) = n2
    BY <2>3 DEF Down, Was
  <2> QED BY <2>2, <2>5, <2>6 DEF n2
<1> QED BY <1>1, <1>3, <1>4, <1>6, <1>7, <1>8

\* What runs where.
LEMMA ShiftSides ==
  ASSUME NEW g, NEW k, NEW s, Shifted(g, k, s), NEW cs, Sides(g, cs),
         NEW cs2, \A c \in Calls : cs2[c].pc = cs[c].pc
  PROVE  Sides(k, cs2)
<1>1. /\ g \in Hosts /\ k \in Hosts /\ s \in Streams /\ "cur" \in Streams /\ "side" \in Streams
      /\ k.pairs = g.pairs
  BY StreamNames DEF Shifted
<1>2. \A t \in {"cur", "side"} : \A i \in Queued(k, t) :
        Was(s, t, i) \in Queued(g, t) /\ Alike(k.q[t][i], g.q[t][Was(s, t, i)])
  BY <1>1 DEF Shifted
<1>3. ASSUME NEW i \in Queued(k, "cur"), k.q["cur"][i].kind = "produce"
      PROVE  /\ k.q["cur"][i].reads = {}
             /\ \E c \in Calls : cs2[c].pc # "new" /\ k.q["cur"][i].writes = {<<c, "in">>}
  <2> DEFINE o == g.q["cur"][Was(s, "cur", i)]
  <2>1. Was(s, "cur", i) \in Queued(g, "cur") /\ Alike(k.q["cur"][i], o)
    BY <1>2
  <2>2. o.kind = "produce"
    BY <1>3, <2>1 DEF Alike
  <2>3. o.reads = {} /\ \E c \in Calls : cs[c].pc # "new" /\ o.writes = {<<c, "in">>}
    BY <2>1, <2>2 DEF Sides
  <2> HIDE DEF o
  <2> QED BY <2>1, <2>3 DEF Alike
<1>4. ASSUME NEW t \in {"cur", "side"}, NEW i \in Queued(k, t)
      PROVE  /\ k.q[t][i].kind \in {"use", "release"} \/ (t = "cur" /\ k.q[t][i].kind = "produce")
             /\ k.q[t][i].kind = "use" =>
                  /\ k.q[t][i].writes = {}
                  /\ \A b \in k.q[t][i].reads : cs2[b[1]].pc = "used"
  <2> DEFINE o == g.q[t][Was(s, t, i)]
  <2>1. Was(s, t, i) \in Queued(g, t) /\ Alike(k.q[t][i], o)
    BY <1>2
  <2>2. /\ o.kind \in {"use", "release"} \/ (t = "cur" /\ o.kind = "produce")
        /\ o.kind = "use" => o.writes = {} /\ \A b \in o.reads : cs[b[1]].pc = "used"
    BY <2>1 DEF Sides
  <2>3. \A b \in o.reads : b[1] \in Calls
    <3>1. o \in OpSet
      BY <1>1, <2>1, HostTypes
    <3> QED BY <3>1, BufFacts DEF OpSet
  <2> HIDE DEF o
  <2> QED BY <2>1, <2>2, <2>3 DEF Alike
<1>5. \A i \in 1..Len(Line(k)) : Line(k)[i].kind \in {"copy", "library", "release"}
  BY ShiftLine DEF Sides, Alike
<1>6. \A p \in k.pairs : p[1][1] = p[2][1] /\ p[1][2] \in UserRoles
  BY <1>1 DEF Sides
<1> QED BY <1>3, <1>4, <1>5, <1>6 DEF Sides

\* The producers still to run, but for the head.
LEMMA ShiftPending ==
  ASSUME NEW g, NEW k, NEW s, Shifted(g, k, s), NEW b
  PROVE  /\ Pending(k, b) => Pending(g, b)
         /\ Pending(g, b) => \/ Pending(k, b)
                             \/ s = "cur" /\ g.q[s][1].kind = "produce" /\ b \in g.q[s][1].writes
<1>1. g \in Hosts /\ k \in Hosts /\ s \in Streams /\ "cur" \in Streams
  BY StreamNames DEF Shifted
<1>2. ASSUME Pending(k, b) PROVE Pending(g, b)
  <2>1. PICK j \in Queued(k, "cur") : k.q["cur"][j].kind = "produce" /\ b \in k.q["cur"][j].writes
    BY <1>2 DEF Pending
  <2>2. Was(s, "cur", j) \in Queued(g, "cur") /\ Alike(k.q["cur"][j], g.q["cur"][Was(s, "cur", j)])
    BY <1>1 DEF Shifted
  <2> QED BY <2>1, <2>2 DEF Pending, Alike
<1>3. ASSUME Pending(g, b), ~(s = "cur" /\ g.q[s][1].kind = "produce" /\ b \in g.q[s][1].writes)
      PROVE  Pending(k, b)
  <2>1. PICK j \in Queued(g, "cur") : g.q["cur"][j].kind = "produce" /\ b \in g.q["cur"][j].writes
    BY <1>3 DEF Pending
  <2>2. ~(s = "cur" /\ j = 1)
    BY <1>3, <2>1
  <2> DEFINE i == IF s = "cur" THEN j - 1 ELSE j
             u == Len(g.q["cur"])
             v == Len(k.q["cur"])
  <2>3. u \in Nat /\ v \in Nat /\ u = Was(s, "cur", v) /\ j \in 1..u
    BY <1>1, HostTypes DEF Shifted, Queued
  <2>4. Queued(k, "cur") = 1..v
    BY DEF Queued
  <2> HIDE DEF u, v
  <2>5. i \in 1..v /\ Was(s, "cur", i) = j
    BY <2>2, <2>3 DEF Was
  <2>6. Alike(k.q["cur"][i], g.q["cur"][j])
    BY <1>1, <2>4, <2>5 DEF Shifted
  <2> HIDE DEF i
  <2> QED BY <2>1, <2>4, <2>5, <2>6 DEF Pending, Alike
<1> QED BY <1>2, <1>3

\* What the operation does to the buffers.
LEMMA ExecuteVal ==
  ASSUME StreamsInv, NEW s \in Streams, Execute(s)
  PROVE  /\ h.q[s][1] \in OpSet
         /\ \A b \in Bufs : val'[b] = IF b \in h.q[s][1].writes THEN Effect(h.q[s][1]) ELSE val[b]
<1>1. Head(h.q[s]) = h.q[s][1] /\ 1 \in Queued(h, s) /\ h \in Hosts
  BY ExecuteFields DEF StreamsInv
<1>2. val' = [b \in Bufs |-> IF b \in Head(h.q[s]).writes THEN Effect(Head(h.q[s])) ELSE val[b]]
  BY DEF Execute
<1> QED BY <1>1, <1>2, HostTypes

\* What it does not write holds what it held.
LEMMA ExecuteFacts ==
  ASSUME StreamsInv, NEW s \in Streams, Execute(s), NEW b, b \notin h.q[s][1].writes,
         NEW v, <<b, v>> \in Facts(h, val)
  PROVE  <<b, v>> \in Facts(h', val')
<1>1. b \in Bufs /\ v \in Vals /\ IF Pending(h, b) THEN v = "input" ELSE val[b] = v
  BY DEF Facts
<1>2. Pending(h, b) = Pending(h', b)
  <2>1. Shifted(h, h', s)
    BY ExecuteShifts
  <2>2. Pending(h, b) <=> Pending(h', b)
    BY <2>1, ShiftPending
  <2> QED BY <2>2 DEF Pending
<1>3. val'[b] = val[b]
  BY <1>1, ExecuteVal
<1> QED BY <1>1, <1>2, <1>3 DEF Facts

\* What the operation was, and that nothing is left for it to wait for.
LEMMA ExecuteOp ==
  ASSUME StreamsInv, NEW s \in Streams, Execute(s)
  PROVE  /\ Shifted(h, h', s) /\ h \in Hosts /\ h.q[s][1] \in OpSet /\ 1 \in Queued(h, s)
         /\ \A t \in Streams : h.q[s][1].waits[t] = 0
         /\ s = "comm" => 1 \in 1..Len(Line(h)) /\ Line(h)[1] = h.q["comm"][1]
<1>1. Shifted(h, h', s)
  BY ExecuteShifts
<1>2. h.q[s][1].waits = NoWait /\ 1 \in Queued(h, s)
  BY <1>1 DEF Shifted
<1>3. s = "comm" => 1 \in 1..Len(Line(h)) /\ Line(h)[1] = h.q["comm"][1]
  BY <1>1, ShiftLine
<1> QED BY <1>1, <1>2, <1>3, ExecuteVal DEF NoWait, StreamsInv

\* Nothing produces what the head of the comm stream waits for no more.
LEMMA HeadProduced ==
  ASSUME StreamsInv, Sides(h, call), Execute("comm"), NEW c, Sounds(c),
         Of(h.q["comm"][1], c), NEW b, b[1] = c
  PROVE  ~Pending(h, b)
<1> SUFFICES ASSUME Pending(h, b) PROVE FALSE
  OBVIOUS
<1>1. PICK j \in Queued(h, "cur") : h.q["cur"][j].kind = "produce" /\ b \in h.q["cur"][j].writes
  BY DEF Pending
<1>2. PICK d \in Calls : h.q["cur"][j].writes = {<<d, "in">>}
  BY <1>1 DEF Sides
<1>3. d = c /\ b = <<c, "in">>
  BY <1>1, <1>2
<1>4. Makes(h, j, c)
  BY <1>1, <1>3 DEF Makes
<1>5. /\ h.q["comm"][1].waits["cur"] = 0 /\ 1 \in Queued(h, "comm")
  BY StreamNames, ExecuteOp
<1>6. Reaches(h, j, 1)
  BY <1>1, <1>4, <1>5 DEF Sounds, Ahead
<1>7. PICK i \in Queued(h, "comm") : i <= 1 /\ j <= h.q["comm"][i].waits["cur"]
  BY <1>6 DEF Reaches
<1>8. i = 1
  BY <1>7 DEF Queued
<1> QED BY <1>1, <1>5, <1>7, <1>8 DEF Queued

\* The head of the comm stream finds what it has to read, and leaves what it
\* has to write.
LEMMA HeadLeaves ==
  ASSUME StreamsInv, Sides(h, call), Execute("comm"), NEW c, Sounds(c),
         Of(h.q["comm"][1], c), NEW b \in h.q["comm"][1].writes
  PROVE  b[1] = c /\ <<b, Out(h.q["comm"][1], Mode(call, c))>> \in Facts(h', val')
<1> DEFINE op == h.q["comm"][1]
           m == Mode(call, c)
           N == Facts(h, val)
<1>1. op \in OpSet /\ 1 \in 1..Len(Line(h)) /\ Line(h)[1] = op
  BY StreamNames, ExecuteOp
<1>2. Shape(op, c) /\ \A x \in op.reads : Holds(Line(h), 1, x, In(op, m), m, N)
  BY <1>1 DEF Sounds, Flows
<1>3. \A x \in Touches(op) : x[1] = c /\ x \in Bufs
  BY <1>1, <1>2, ShapeTouches
<1>4. \A x \in Touches(op) : ~Pending(h, x)
  BY <1>3, HeadProduced
<1>5. ASSUME NEW x \in op.reads PROVE val[x] = In(op, m)
  <2>1. Holds(Line(h), 1, x, In(op, m), m, N)
    BY <1>2
  <2>2. <<x, In(op, m)>> \in N
    BY <2>1 DEF Holds, Wrote
  <2> QED BY <1>4, <2>2 DEF Facts, Touches
<1>6. Effect(op) = Out(op, m)
  <2>1. CASE op.kind = "library"
    <3>1. In(op, m) = "input" /\ Out(op, m) = "result"
      BY <2>1 DEF In, Out
    <3>2. \A x \in op.reads : val[x] = "input"
      BY <1>5, <3>1
    <3> HIDE DEF op
    <3> QED BY <2>1, <3>1, <3>2 DEF Effect
  <2>2. CASE op.kind # "library"
    <3>1. op.kind = "copy" /\ op.reads # {}
      BY <1>2, <2>2 DEF Shape
    <3>2. (CHOOSE x \in op.reads : TRUE) \in op.reads
      BY <3>1
    <3>3. In(op, m) = Out(op, m)
      BY <2>2 DEF In
    <3>4. val[CHOOSE x \in op.reads : TRUE] = Out(op, m)
      BY <1>5, <3>2, <3>3
    <3> HIDE DEF op
    <3> QED BY <3>1, <3>4 DEF Effect
  <2> QED BY <2>1, <2>2
<1>7. b \in Touches(op)
  BY DEF Touches
<1>8. b \in Bufs /\ b[1] = c /\ ~Pending(h, b)
  BY <1>3, <1>4, <1>7
<1>9. ~Pending(h', b)
  BY <1>8, StreamNames, ExecuteShifts, ShiftPending
<1>10. val'[b] = Out(op, m)
  <2>1. val'[b] = Effect(op)
    BY <1>8, StreamNames, ExecuteVal
  <2> QED BY <1>6, <2>1
<1>11. Out(op, m) \in Vals
  BY ValueTypes
<1> HIDE DEF op, m
<1>12. <<b, Out(op, m)>> \in Facts(h', val')
  BY <1>8, <1>9, <1>10, <1>11 DEF Facts
<1> QED BY <1>8, <1>12 DEF op, m

\* The invariant gives what an execution keeps of a call.
LEMMA ExecuteKept ==
  ASSUME StreamsInv, Sides(h, call), NEW s \in Streams, Execute(s), NEW c, Sounds(c)
  PROVE  Keeps(h, s, c, Mode(call, c), Facts(h, val), Facts(h', val'), Freed(s))
<1> DEFINE m == Mode(call, c)
           N == Facts(h, val)
           M == Facts(h', val')
           op == h.q[s][1]
<1>1. /\ op \in OpSet /\ 1 \in Queued(h, s)
      /\ s = "comm" => 1 \in 1..Len(Line(h)) /\ Line(h)[1] = op
  BY ExecuteOp
<1> SUFFICES ASSUME NEW b, NEW v, b[1] = c, b \notin Freed(s), v \in Vals
             PROVE  IF s = "comm" /\ b \in Line(h)[1].writes
                    THEN Out(Line(h)[1], m) = v => <<b, v>> \in M
                    ELSE <<b, v>> \in N => <<b, v>> \in M
  BY DEF Keeps
<1>2. CASE b \notin op.writes
  BY <1>1, <1>2, ExecuteFacts
<1>3. CASE b \in op.writes /\ s = "comm"
  <2>1. op.kind # "release"
    BY <1>3 DEF Freed, Kind
  <2>2. Of(op, c)
    BY <1>3, <2>1 DEF Of, Touches
  <2>3. <<b, Out(op, m)>> \in M
    BY <1>3, <2>2, HeadLeaves
  <2> QED BY <1>1, <1>3, <2>3
<1>4. CASE b \in op.writes /\ s # "comm"
  <2> SUFFICES ASSUME <<b, v>> \in N PROVE <<b, v>> \in M
    BY <1>4
  <2>1. op.kind # "release"
    BY <1>4 DEF Freed, Kind
  <2>2. s \in {"cur", "side"}
    BY <1>4 DEF Streams
  <2>3. op.kind = "produce" /\ s = "cur"
    BY <1>1, <1>4, <2>1, <2>2 DEF Sides
  <2>4. Pending(h, b)
    BY <1>1, <1>4, <2>3 DEF Pending
  <2>5. b \in Bufs /\ v = "input"
    BY <2>4 DEF Facts
  <2>6. val'[b] = Effect(op)
    BY <1>4, <2>5, ExecuteVal
  <2>7. Effect(op) = "input"
    BY <2>3 DEF Effect
  <2> HIDE DEF op
  <2> QED BY <2>5, <2>6, <2>7 DEF Facts
<1> QED BY <1>2, <1>3, <1>4

\* A release at the head of its stream leaves nothing behind that is still to
\* touch the buffer.
LEMMA FreedUntouched ==
  ASSUME StreamsInv, NEW s \in Streams, Execute(s), NEW b \in Freed(s)
  PROVE  /\ b \in Bufs /\ b \notin live
         /\ \A t \in Streams : \A i \in Queued(h, t) :
              h.q[t][i].kind # "release" /\ b \in Touches(h.q[t][i]) => ~FencedIn(call, b)
         /\ \A op \in GroupOps(h) : b \notin Touches(op)
<1>1. /\ h.q[s][1].kind = "release" /\ b \in h.q[s][1].writes
      /\ 1 \in Queued(h, s) /\ \A t \in Streams : h.q[s][1].waits[t] = 0
  BY ExecuteOp DEF Freed, Kind
<1>2. /\ h \in Hosts /\ Releases(h, live, call) /\ Ordered(h, call)
      /\ Deferred(h) /\ HeldAlive(h, live, call)
  BY DEF StreamsInv, QueueInv, HeldInv
<1>3. b \in Bufs /\ b \notin live
  BY <1>1, <1>2 DEF Releases
<1>4. ASSUME NEW t \in Streams, NEW i \in Queued(h, t), h.q[t][i].kind # "release",
             b \in Touches(h.q[t][i]), FencedIn(call, b)
      PROVE  FALSE
  <2>1. IF s = t THEN i < 1 ELSE i <= h.q[s][1].waits[t]
    BY <1>1, <1>2, <1>3, <1>4 DEF Ordered
  <2>2. Len(h.q[t]) \in Nat
    BY <1>2, HostTypes
  <2>3. i >= 1 /\ i \in Nat
    BY <2>2 DEF Queued
  <2>4. h.q[s][1].waits[t] = 0
    BY <1>1
  <2> QED BY <2>1, <2>3, <2>4
<1>5. \A op \in GroupOps(h) : b \notin Touches(op)
  BY <1>2, <1>3 DEF Deferred, Works, HeldAlive
<1> QED BY <1>3, <1>4, <1>5

\* So nothing a call still needs is freed.
LEMMA ExecuteUnneeded ==
  ASSUME StreamsInv, Sides(h, call), NEW s \in Streams, Execute(s), NEW c, Sounds(c)
  PROVE  Unneeded(h, c, Freed(s), refs)
<1> DEFINE U == Freed(s)
<1>1. /\ h \in Hosts /\ refs \subseteq live /\ \A b \in Held(h) : b \in live
      /\ call[c].pc # "raised" /\ c \in Calls
  BY DEF StreamsInv, HeldInv, HeldAlive, Sounds, Idle
<1>2. \A b \in U : b \in Bufs /\ b \notin live
  BY FreedUntouched
<1>3. ASSUME NEW i \in 1..Len(Line(h)), Of(Line(h)[i], c), NEW b \in Line(h)[i].reads
      PROVE  b \notin U
  <2> SUFFICES ASSUME b \in U PROVE FALSE
    OBVIOUS
  <2>1. Shape(Line(h)[i], c) /\ b \in Touches(Line(h)[i]) /\ Line(h)[i].kind # "release"
    BY <1>3 DEF Sounds, Flows, Touches, Of
  <2>2. b[1] = c
    BY <2>1 DEF Shape, Touches
  <2>3. FencedIn(call, b)
    BY <1>1, <2>2 DEF FencedIn
  <2>4. CASE i \in Queued(h, "comm")
    <3>1. Line(h)[i] = h.q["comm"][i]
      BY <1>1, <2>4, LineFields
    <3> QED BY <2>1, <2>3, <2>4, <3>1, StreamNames, FreedUntouched
  <2>5. CASE i \notin Queued(h, "comm")
    <3> DEFINE u == Len(h.q["comm"])
               w == Len(h.group)
               a == Len(Line(h))
    <3>1. u \in Nat /\ w \in Nat /\ a = u + w /\ i \in 1..a /\ i \notin 1..u
      BY <1>1, <2>5, LineFields DEF Queued
    <3> HIDE DEF u, w, a
    <3>2. i > u
      BY <3>1
    <3>3. i - u \in 1..w /\ Line(h)[i] = h.group[i - u]
      BY <1>1, <3>2, LineFields DEF u, w
    <3>4. Line(h)[i] \in GroupOps(h)
      BY <3>3 DEF GroupOps, w
    <3> QED BY <2>1, <3>4, FreedUntouched
  <2> QED BY <2>4, <2>5
<1>4. \A r : <<c, r>> \in refs => <<c, r>> \notin U
  BY <1>1, <1>2
<1>5. \A p \in h.pairs : p[2] \notin U
  <2>1. \A p \in h.pairs : p[2] \in Held(h)
    BY DEF Held
  <2> QED BY <1>1, <1>2, <2>1
<1>6. ASSUME NEW t \in {"cur", "side"}, NEW i \in Queued(h, t), Consumes(h.q[t][i], c),
             NEW b \in h.q[t][i].reads
      PROVE  b \notin U
  <2> SUFFICES ASSUME b \in U PROVE FALSE
    OBVIOUS
  <2>1. h.q[t][i].kind = "use" /\ b \in Touches(h.q[t][i])
    BY <1>6 DEF Consumes, Touches
  <2>2. call[b[1]].pc = "used"
    BY <1>6, <2>1 DEF Sides
  <2>3. FencedIn(call, b)
    BY <2>2 DEF FencedIn
  <2>4. t \in Streams
    BY DEF Streams
  <2> QED BY <2>1, <2>3, <2>4, FreedUntouched
<1> HIDE DEF U
<1>7. Unneeded(h, c, U, refs)
  BY <1>3, <1>4, <1>5, <1>6 DEF Unneeded
<1> QED BY <1>7 DEF U

\* A consumer reads what its call is expected to leave.
LEMMA UseReads ==
  ASSUME StreamsInv, ValueInv, NEW s \in Streams, Execute(s), h.q[s][1].kind = "use",
         NEW b \in h.q[s][1].reads
  PROVE  /\ b \in Bufs /\ call[b[1]].pc = "used"
         /\ val[b] \in Expected(call[b[1]].kind, b[2])
<1> DEFINE op == h.q[s][1]
           c == b[1]
           m == Mode(call, c)
           N == Facts(h, val)
<1>1. /\ op \in OpSet /\ 1 \in Queued(h, s) /\ h \in Hosts
      /\ \A t \in Streams : op.waits[t] = 0
  BY ExecuteOp
<1>2. Sides(h, call) /\ s \in Streams
  BY DEF ValueInv, Fine
<1>3. s \in {"cur", "side"}
  <2>1. s # "comm"
    <3> SUFFICES ASSUME s = "comm" PROVE FALSE
      OBVIOUS
    <3>1. 1 \in 1..Len(Line(h)) /\ Line(h)[1] = h.q["comm"][1]
      BY ExecuteOp
    <3> QED BY <1>2, <3>1 DEF Sides
  <2> QED BY <2>1 DEF Streams
<1>4. call[c].pc = "used"
  BY <1>1, <1>2, <1>3 DEF Sides
<1>5. b \in Bufs /\ c \in Calls /\ b = <<c, b[2]>>
  <2>1. b \in Bufs
    BY <1>1 DEF OpSet
  <2> QED BY <2>1, BufFacts
<1>6. Consumes(op, c)
  BY DEF Consumes
<1>7. Used(h, c, m, N) /\ m[1] \in AllKinds
  BY <1>4, <1>5 DEF ValueInv, Fine, Sound
<1>8. /\ op.reads = {<<c, r>> : r \in Outputs(m[1])}
      /\ \A r \in Outputs(m[1]) : Result(Line(h), c, r, m, N)
      /\ Settled(h, c, 0)
      /\ \A j \in Queued(h, "cur") : Makes(h, j, c) =>
           (s = "cur" /\ j < 1) \/ j <= 0 \/ Reaches(h, j, 0)
  <2>1. op.waits["comm"] = 0 /\ op.waits["cur"] = 0
    BY <1>1, StreamNames
  <2> HIDE DEF m, N
  <2> QED BY <1>1, <1>3, <1>6, <1>7, <2>1 DEF Used
<1>9. ~Pending(h, b)
  <2> SUFFICES ASSUME Pending(h, b) PROVE FALSE
    OBVIOUS
  <2>1. PICK j \in Queued(h, "cur") : h.q["cur"][j].kind = "produce" /\ b \in h.q["cur"][j].writes
    BY DEF Pending
  <2>2. PICK d \in Calls : h.q["cur"][j].writes = {<<d, "in">>}
    BY <1>2, <2>1 DEF Sides
  <2>3. d = c
    BY <2>1, <2>2
  <2>4. Makes(h, j, c)
    BY <2>1, <2>2, <2>3 DEF Makes
  <2>5. Len(h.q["cur"]) \in Nat /\ Len(h.q["comm"]) \in Nat
    BY <1>1, HostTypes, StreamNames
  <2>6. j \in Nat /\ j >= 1
    BY <2>5 DEF Queued
  <2>7. ~Reaches(h, j, 0)
    BY <2>5 DEF Reaches, Queued
  <2> QED BY <1>8, <2>4, <2>6, <2>7
<1>10. b[2] \in Outputs(m[1])
  <2> HIDE DEF m
  <2>1. PICK r \in Outputs(m[1]) : b = <<c, r>>
    BY <1>8
  <2> QED BY <2>1
<1>11. PICK v \in Expected(m[1], b[2]) : Ends(Line(h), b, v, m, N)
  <2>1. Result(Line(h), c, b[2], m, N)
    BY <1>8, <1>10
  <2> QED BY <1>5, <2>1 DEF Result
<1>12. ASSUME NEW i \in 1..Len(Line(h)) PROVE b \notin Line(h)[i].writes
  <2> SUFFICES ASSUME b \in Line(h)[i].writes PROVE FALSE
    OBVIOUS
  <2>1. ~Of(Line(h)[i], c)
    <3>1. Len(h.q["comm"]) \in Nat
      BY <1>1, HostTypes, StreamNames
    <3> QED BY <1>8, <3>1 DEF Settled, Queued
  <2>2. Line(h)[i].kind = "release"
    BY <2>1 DEF Of, Touches
  <2>3. Owner(b) = "comm"
    <3>1. CASE i \in Queued(h, "comm")
      <4>1. Line(h)[i] = h.q["comm"][i]
        BY <1>1, <3>1, LineFields
      <4>2. Releases(h, live, call)
        BY DEF StreamsInv, QueueInv
      <4> QED BY <2>2, <3>1, <4>1, <4>2, StreamNames DEF Releases
    <3>2. CASE i \notin Queued(h, "comm")
      <4> DEFINE u == Len(h.q["comm"])
                 w == Len(h.group)
                 a == Len(Line(h))
      <4>1. u \in Nat /\ w \in Nat /\ a = u + w /\ i \in 1..a /\ i \notin 1..u
        BY <1>1, <3>2, LineFields DEF Queued
      <4> HIDE DEF u, w, a
      <4>2. i > u
        BY <4>1
      <4>3. i - u \in 1..w /\ Line(h)[i] = h.group[i - u]
        BY <1>1, <4>2, LineFields DEF u, w
      <4>4. Line(h)[i] \in GroupOps(h)
        BY <4>3 DEF GroupOps, w
      <4>5. Deferred(h)
        BY DEF StreamsInv, HeldInv
      <4> QED BY <2>2, <4>4, <4>5 DEF Deferred, Works
    <3> QED BY <3>1, <3>2
  <2>4. b[2] \in UserRoles
    <3>1. Outputs(m[1]) \subseteq {"in", "out", "own"}
      BY <1>7 DEF Outputs, AllKinds
    <3> QED BY <1>10, <3>1 DEF UserRoles
  <2> QED BY <2>3, <2>4, BufFacts
<1>13. <<b, v>> \in N
  <2> DEFINE n == Len(Line(h)) + 1
  <2>1. Holds(Line(h), n, b, v, m, N)
    BY <1>11 DEF Ends
  <2>2. Len(Line(h)) \in Nat
    BY <1>1, LineFields
  <2>3. 1..(n - 1) = 1..Len(Line(h))
    BY <2>2
  <2> HIDE DEF n, N, m
  <2>4. ~Wrote(Line(h), n, b, v, m)
    BY <1>12, <2>3 DEF Wrote
  <2> QED BY <2>1, <2>4 DEF Holds
<1>14. val[b] = v
  BY <1>9, <1>13 DEF Facts
<1>15. m[1] = call[c].kind
  BY DEF Mode
<1> QED BY <1>4, <1>5, <1>11, <1>14, <1>15

\* What the calls are, after an execution.
LEMMA ExecuteCalls ==
  ASSUME StreamsInv, NEW s \in Streams, Execute(s), NEW c \in Calls
  PROVE  /\ call[c].event \in [Streams -> Nat]
         /\ call'[c].pc = call[c].pc /\ call'[c].kind = call[c].kind
         /\ call'[c].event = Passed(s, call[c].event)
<1>1. call[c] \in CallSet
  BY DEF StreamsInv
<1>2. call'[c] = [call[c] EXCEPT !.event = Passed(s, @)]
  BY DEF Execute
<1> QED BY <1>1, <1>2 DEF CallSet

\* The consumers that ran.
LEMMA ExecuteRead ==
  ASSUME StreamsInv, ValueInv, NEW s \in Streams, Execute(s)
  PROVE  Read(seen', call')
<1> DEFINE op == h.q[s][1]
<1>1. seen' = IF op.kind # "use" THEN seen
              ELSE [c \in Calls |-> seen[c] \cup
                      {<<b[2], val[b]>> : b \in {x \in op.reads : x[1] = c}}]
  <2>1. Head(h.q[s]) = op
    BY ExecuteFields
  <2> QED BY <2>1 DEF Execute
<1>2. Read(seen, call)
  BY DEF ValueInv
<1>3. \A c \in Calls : call'[c].pc = call[c].pc /\ call'[c].kind = call[c].kind
  BY ExecuteCalls
<1> SUFFICES ASSUME NEW c \in Calls, seen'[c] # {}
             PROVE  call[c].pc = "used" /\ \A x \in seen'[c] : x[2] \in Expected(call[c].kind, x[1])
  BY <1>3 DEF Read
<1>4. ASSUME NEW x \in seen'[c]
      PROVE  call[c].pc = "used" /\ x[2] \in Expected(call[c].kind, x[1])
  <2>1. CASE x \in seen[c]
    BY <1>2, <2>1 DEF Read
  <2>2. CASE x \notin seen[c]
    <3>1. op.kind = "use" /\ \E b \in op.reads : b[1] = c /\ x = <<b[2], val[b]>>
      BY <1>1, <1>4, <2>2
    <3>2. PICK b \in op.reads : b[1] = c /\ x = <<b[2], val[b]>>
      BY <3>1
    <3>3. call[b[1]].pc = "used" /\ val[b] \in Expected(call[b[1]].kind, b[2])
      BY <3>1, UseReads
    <3> QED BY <3>2, <3>3
  <2> QED BY <2>1, <2>2
<1> QED BY <1>4

\* The device executes the head of a stream.
LEMMA ExecuteValue ==
  ASSUME StreamsInv, ValueInv, NEW s \in Streams, Execute(s)
  PROVE  ValueInv'
<1>1. Shifted(h, h', s) /\ Sides(h, call) /\ \A p \in h.pairs : p[1][1] = p[2][1]
  BY ExecuteShifts DEF ValueInv, Fine, Sides
<1>2. lib' = lib /\ refs' = refs
  BY DEF Execute
<1>3. \A c \in Calls : /\ call[c].event \in [Streams -> Nat]
                       /\ call'[c].pc = call[c].pc /\ call'[c].kind = call[c].kind
                       /\ call'[c].event = Passed(s, call[c].event)
  BY ExecuteCalls
<1>4. Sides(h', call')
  BY <1>1, <1>3, ShiftSides
<1>5. ASSUME NEW c \in Calls
      PROVE  Sound(h', c, call'[c], Mode(call', c), Facts(h', val'), refs)
  <2> DEFINE m == Mode(call, c)
             N == Facts(h, val)
             M == Facts(h', val')
             U == Freed(s)
  <2>1. Sound(h, c, call[c], m, N, refs)
    BY DEF ValueInv, Fine
  <2>2. Mode(call', c) = m
    BY <1>3 DEF Mode
  <2>3. CASE Idle(call, c)
    <3>1. call'[c].pc \notin {"member", "work", "used"}
      BY <1>3, <2>3 DEF Idle
    <3> QED BY <3>1 DEF Sound
  <2>4. CASE ~Idle(call, c)
    <3>1. Sounds(c)
      BY <2>1, <2>4 DEF Sounds, Sound, Idle
    <3>2. Keeps(h, s, c, m, N, M, U)
      BY <1>1, <3>1, ExecuteKept
    <3>3. Unneeded(h, c, U, refs)
      BY <1>1, <3>1, ExecuteUnneeded
    <3> HIDE DEF m, N, M, U
    <3>4. Sound(h', c, call'[c], m, M, refs)
      BY <1>1, <1>3, <2>1, <3>2, <3>3, ShiftSound
    <3> QED BY <2>2, <3>4 DEF M
  <2> QED BY <2>3, <2>4
<1>6. Fine(h', call', val', refs')
  BY <1>2, <1>4, <1>5 DEF Fine
<1>7. Read(seen', call')
  BY ExecuteRead
<1>8. Fine(h, call, val, refs)' <=> Fine(h', call', val', refs')
  BY <1>2 DEF Fine, Mode
<1> QED BY <1>6, <1>7, <1>8 DEF ValueInv, Read

(* Whoever waited for a Work, on whichever stream, and then reads the      *)
(* tensors of its call finds what the collective leaves there: wait's      *)
(* event is behind the call's copies back, those are behind the library's  *)
(* operation, in a block too, and that one is behind the producer of the   *)
(* input; and until the consumer ran nobody overwrites or frees any of it. *)
THEOREM ResultsKept == Spec => []ResultsInOrder
<1>1. StreamsInv /\ StreamsInv' /\ ValueInv /\ [Next]_vars => ValueInv'
  <2> SUFFICES ASSUME StreamsInv, StreamsInv', ValueInv, [Next]_vars PROVE ValueInv'
    OBVIOUS
  <2>1. ASSUME NEW c \in Calls, NEW kind \in Kinds, NEW kept \in Kept(c, kind), Call(c, kind, kept)
        PROVE  ValueInv'
    BY <2>1, CallValue
  <2>2. ASSUME NEW c \in Calls, NEW kind \in Kinds, NEW ends \in BOOLEAN, CallRaises(c, kind, ends)
        PROVE  ValueInv'
    BY <2>2, CallRaisesValue
  <2>3. CASE StartBlock
    BY <2>3, StartBlockValue
  <2>4. CASE EndBlock
    BY <2>4, EndBlockValue
  <2>5. CASE EndBlockFails
    BY <2>5, EndBlockFailsValue
  <2>6. ASSUME NEW c \in Calls, NEW s \in {"cur", "side"}, WaitWork(c, s) PROVE ValueInv'
    BY <2>6, WaitWorkValue
  <2>7. ASSUME NEW s \in Streams, Execute(s) PROVE ValueInv'
    BY <2>7, ExecuteValue
  <2>8. CASE UNCHANGED vars
    <3>1. /\ h' = h /\ call' = call /\ val' = val /\ refs' = refs /\ seen' = seen /\ lib' = lib
      BY <2>8 DEF vars, hostVars, deviceVars
    <3>2. Fine(h, call, val, refs)' <=> Fine(h', call', val', refs')
      BY <3>1 DEF Fine, Mode
    <3>3. Fine(h', call', val', refs') /\ Read(seen', call')
      BY <3>1 DEF ValueInv
    <3> QED BY <3>2, <3>3 DEF ValueInv, Read
  <2> QED BY <2>1, <2>2, <2>3, <2>4, <2>5, <2>6, <2>7, <2>8 DEF Next
<1>2. Init => ValueInv
  BY ValueInitially
<1>3. ValueInv => ResultsInOrder
  BY DEF ValueInv, Read, ResultsInOrder
<1> QED BY <1>1, <1>2, <1>3, Invariance, PTL DEF Spec
==============================================================================
