------------------------------- MODULE MaxOps -------------------------------
(***************************************************************************)
(* The operations of MAX's graph that aten_functions.py lowers to, as far  *)
(* as positions go: an external library, modelled from how the lowerings   *)
(* use it.  A tensor is a shape and the value at each coordinate.  Axes    *)
(* and coordinates count from 0, the way the code writes them; an axis may *)
(* count back from the end.                                                *)
(*                                                                         *)
(* A number is a polynomial in the elements of the call's tensors: a bag   *)
(* of monomials, each a set of elements.  So two tensors are equal exactly *)
(* when they are for every content, and no sum hides a term counted twice. *)
(***************************************************************************)
EXTENDS Integers, SequencesExt

Zero == EmptyBag
Plus(p, q) == p (+) q
Times(p, q) ==
  LET pairs == BagToSet(p) \X BagToSet(q)
      Term(pq) == SetToBag({pq[1] \cup pq[2]})
  IN MapThenFoldSet(Plus, Zero, Term, LAMBDA S : CHOOSE s \in S : TRUE, pairs)
SumOver(f) == 
  MapThenFoldSet(Plus, Zero, LAMBDA i : f[i], LAMBDA S : CHOOSE s \in S : TRUE, DOMAIN f)

Coords(shape) ==
  FoldLeft(LAMBDA acc, n : {Append(i, k) : i \in acc, k \in 0 .. n - 1}, {<<>>}, shape)
Tensor(shape, Value(_)) == [shape |-> shape, at |-> [i \in Coords(shape) |-> Value(i)]]

\* The tensor of the call called `name`: element i is the variable <<name, i>>.
Input(name, shape) == Tensor(shape, LAMBDA i : SetToBag({{<<name, i>>}}))
Fill(shape, value) == Tensor(shape, LAMBDA i : value)
Vector(seq) == Tensor(<<Len(seq)>>, LAMBDA i : seq[i[1] + 1])
Map(t, F(_)) == Tensor(t.shape, LAMBDA i : F(t.at[i]))

Rank(t) == Len(t.shape)
Axis(t, a) == IF a < 0 THEN a + Rank(t) ELSE a
Size(t, a) == t.shape[Axis(t, a) + 1]
Numel(shape) == FoldLeft(LAMBDA acc, n : acc * n, 1, shape)
Offset(i, shape) == FoldLeftDomain(LAMBDA acc, d : acc * shape[d] + i[d], 0, shape)
Ones(n) == [d \in 1 .. n |-> 1]
\* i with k at axis p (counted from 1).
SetAxis(i, p, k) == [d \in DOMAIN i |-> IF d = p THEN k ELSE i[d]]

-----------------------------------------------------------------------------
(* Movement of elements.                                                    *)

\* A dimension of -1 is what the others leave.
MaxReshape(t, shape) ==
  LET known == Numel(SelectSeq(shape, LAMBDA n : n # -1))
      full == [d \in DOMAIN shape |->
                 IF shape[d] = -1 THEN Numel(t.shape) \div known ELSE shape[d]]
      flat == [k \in {Offset(j, t.shape) : j \in DOMAIN t.at} |->
                 t.at[CHOOSE j \in DOMAIN t.at : Offset(j, t.shape) = k]]
  IN Tensor(full, LAMBDA i : flat[Offset(i, full)])

MaxPermute(t, perm) ==
  LET to == [a \in 0 .. Rank(t) - 1 |-> CHOOSE d \in 1 .. Rank(t) : perm[d] = a]
  IN Tensor([d \in 1 .. Rank(t) |-> t.shape[perm[d] + 1]],
            LAMBDA i : t.at[[a \in 1 .. Rank(t) |-> i[to[a - 1]]]])

Swapped(rank, a, b) ==
  [d \in 1 .. rank |-> CASE d = a + 1 -> b [] d = b + 1 -> a [] OTHER -> d - 1]
MaxTranspose(t, a, b) == MaxPermute(t, Swapped(Rank(t), Axis(t, a), Axis(t, b)))

MaxBroadcast(t, shape) ==
  LET off == Len(shape) - Rank(t)
  IN Tensor(shape, LAMBDA i :
       t.at[[d \in 1 .. Rank(t) |-> IF t.shape[d] = 1 THEN 0 ELSE i[d + off]]])

MaxUnsqueeze(t, a) ==
  LET p == (IF a < 0 THEN a + Rank(t) + 1 ELSE a) + 1
  IN Tensor(InsertAt(t.shape, p, 1), LAMBDA i : t.at[RemoveAt(i, p)])

\* Only an axis of size 1 is squeezed.
MaxSqueeze(t, a) ==
  LET p == Axis(t, a) + 1
  IN Tensor(RemoveAt(t.shape, p), LAMBDA i : t.at[InsertAt(i, p, 0)])

\* input[..., start:stop:step, ...] of a bound within the size, which may
\* count back from the end.
MaxSlice(t, a, start, stop, step) ==
  LET p == Axis(t, a) + 1
      lo == IF start < 0 THEN start + t.shape[p] ELSE start
      hi == IF stop < 0 THEN stop + t.shape[p] ELSE stop
      n == (hi - lo + step - 1) \div step
  IN Tensor(SetAxis(t.shape, p, IF n < 0 THEN 0 ELSE n),
            LAMBDA i : t.at[SetAxis(i, p, lo + i[p] * step)])

\* input[..., index, ...]
MaxAt(t, a, index) ==
  LET k == IF index < 0 THEN index + Size(t, a) ELSE index
  IN MaxSqueeze(MaxSlice(t, a, k, k + 1, 1), a)

MaxSplit(t, sizes, a) ==
  LET start(k) == FoldLeft(LAMBDA acc, n : acc + n, 0, SubSeq(sizes, 1, k - 1))
  IN [k \in DOMAIN sizes |-> MaxSlice(t, a, start(k), start(k) + sizes[k], 1)]

MaxConcat(ts, a) ==
  LET p == Axis(ts[1], a) + 1
      before(k) == FoldLeft(LAMBDA acc, u : acc + u.shape[p], 0, SubSeq(ts, 1, k - 1))
      whose(x) == CHOOSE k \in DOMAIN ts : before(k) <= x /\ x < before(k + 1)
  IN Tensor(SetAxis(ts[1].shape, p, before(Len(ts) + 1)),
            LAMBDA i : ts[whose(i[p])].at[SetAxis(i, p, i[p] - before(whose(i[p])))])

MaxStack(ts, a) ==
  LET p == IF a < 0 THEN a + Rank(ts[1]) + 1 ELSE a
  IN MaxConcat([k \in DOMAIN ts |-> MaxUnsqueeze(ts[k], p)], p)

MaxTile(t, repeats) ==
  Tensor([d \in DOMAIN t.shape |-> t.shape[d] * repeats[d]],
         LAMBDA i : t.at[[d \in DOMAIN t.shape |-> i[d] % t.shape[d]]])

\* paddings: before and after, for every axis in order.
MaxPad(t, paddings, mode) ==
  LET n == t.shape
      Source(i) == [d \in DOMAIN n |->
        LET x == i[d] - paddings[2 * d - 1] IN
        CASE mode = "constant" -> x
          [] mode = "edge"     -> IF x < 0 THEN 0 ELSE IF x >= n[d] THEN n[d] - 1 ELSE x
          [] mode = "reflect"  -> IF x < 0 THEN -x ELSE IF x >= n[d] THEN 2 * (n[d] - 1) - x ELSE x]
  IN Tensor([d \in DOMAIN n |-> n[d] + paddings[2 * d - 1] + paddings[2 * d]],
            LAMBDA i : IF Source(i) \in DOMAIN t.at THEN t.at[Source(i)] ELSE Zero)

\* numpy.take: the axis becomes the axes of the index.
MaxGather(t, index, a) ==
  LET p == Axis(t, a)
      k == Rank(index)
  IN Tensor(SubSeq(t.shape, 1, p) \o index.shape \o SubSeq(t.shape, p + 2, Rank(t)),
            LAMBDA i : t.at[SubSeq(i, 1, p) \o <<index.at[SubSeq(i, p + 1, p + k)]>>
                            \o SubSeq(i, p + k + 1, Len(i))])

\* The last axis of `coords` holds coordinates into the axes after `batch`.
MaxGatherNd(t, coords, batch) ==
  LET k == Last(coords.shape)
      m == Rank(coords) - 1
  IN Tensor(Front(coords.shape) \o SubSeq(t.shape, batch + k + 1, Rank(t)),
            LAMBDA i : t.at[SubSeq(i, 1, batch)
                            \o [c \in 1 .. k |-> coords.at[Append(SubSeq(i, 1, m), c - 1)]]
                            \o SubSeq(i, m + 1, Len(i))])

\* Rows of `updates` to the coordinates in the rows of `coords`: added, or
\* stored, where any of several rows may win.
MaxScatterNd(t, updates, coords, adds) ==
  LET k == Last(coords.shape)
      Rows(i) == {r \in 0 .. coords.shape[1] - 1 :
                    \A c \in 1 .. k : coords.at[<<r, c - 1>>] = i[c]}
      New(i, r) == updates.at[<<r>> \o SubSeq(i, k + 1, Len(i))]
  IN Tensor(t.shape, LAMBDA i :
       CASE adds -> Plus(t.at[i], SumOver([r \in Rows(i) |-> New(i, r)]))
         [] Rows(i) # {} -> New(i, CHOOSE r \in Rows(i) : TRUE)
         [] OTHER -> t.at[i])

\* Everything outside the band is zeroed, or with `exclude` what is in it; a
\* bound of -1 leaves that side open.
MaxBandPart(t, lower, upper, exclude) ==
  LET r == Rank(t)
      InBand(i) == /\ lower < 0 \/ i[r - 1] - i[r] <= lower
                   /\ upper < 0 \/ i[r] - i[r - 1] <= upper
  IN Tensor(t.shape, LAMBDA i : IF InBand(i) # exclude THEN t.at[i] ELSE Zero)

Broadcast2(s, u) ==
  LET n == IF Len(s) > Len(u) THEN Len(s) ELSE Len(u)
      Dim(x, d) == IF d > n - Len(x) THEN x[d - n + Len(x)] ELSE 1
  IN [d \in 1 .. n |-> IF Dim(s, d) = 1 THEN Dim(u, d) ELSE Dim(s, d)]

MaxZip(t, u, F(_, _)) ==
  LET shape == Broadcast2(t.shape, u.shape)
      a == MaxBroadcast(t, shape)
      b == MaxBroadcast(u, shape)
  IN Tensor(shape, LAMBDA i : F(a.at[i], b.at[i]))
MaxWhere(c, t, u) ==
  LET shape == Broadcast2(c.shape, Broadcast2(t.shape, u.shape))
      a == MaxBroadcast(c, shape)
      x == MaxBroadcast(t, shape)
      y == MaxBroadcast(u, shape)
  IN Tensor(shape, LAMBDA i : IF a.at[i] THEN x.at[i] ELSE y.at[i])

-----------------------------------------------------------------------------
(* Reductions, selections and products.                                     *)

\* The values along an axis, in order.
Lane(t, i, p) == [k \in 1 .. t.shape[p] |-> t.at[SetAxis(i, p, k - 1)]]

\* The reduced axis stays, with size 1.
MaxReduce(t, a, Op(_)) ==
  LET p == Axis(t, a) + 1
  IN Tensor(SetAxis(t.shape, p, 1), LAMBDA i : Op(Lane(t, i, p)))

MaxCumsum(t, a) ==
  LET p == Axis(t, a) + 1
  IN Tensor(t.shape, LAMBDA i : SumOver(SubSeq(Lane(t, i, p), 1, i[p] + 1)))

\* The value no number compares with.
NaN == 9

\* The k first positions of a lane, stably sorted.  A lane that holds a NaN has
\* no order: what comes out is not even a permutation of it.
Ranked(lane, largest, k) ==
  LET Before(x, y) == \/ IF largest THEN lane[x] > lane[y] ELSE lane[x] < lane[y]
                      \/ lane[x] = lane[y] /\ x < y
  IN IF NaN \in ToSet(lane) THEN [r \in 1 .. k |-> 1]
     ELSE SubSeq(SetToSortSeq(DOMAIN lane, Before), 1, k)

\* top_k or bottom_k along the last axis: values and indices.
MaxTopK(t, k, largest) ==
  LET p == Rank(t)
      shape == SetAxis(t.shape, p, k)
      At(i) == Ranked(Lane(t, SetAxis(i, p, 0), p), largest, k)[i[p] + 1]
  IN <<Tensor(shape, LAMBDA i : t.at[SetAxis(i, p, At(i) - 1)]),
       Tensor(shape, LAMBDA i : At(i) - 1)>>

\* A product over no terms leaves its result uninitialized.
Uninitialized == SetToBag({{<<"uninitialized", <<>>>>}})
MaxMatmul(x, y) ==
  LET m == Last(x.shape)
      wide == IF Rank(x) > Rank(y) THEN x.shape ELSE y.shape
      n == Len(wide)
      Of(t, i, r, c) == t.at[SubSeq(i, 1, Rank(t) - 2) \o <<r, c>>]
  IN Tensor(SubSeq(wide, 1, n - 2) \o <<x.shape[Rank(x) - 1], Last(y.shape)>>, LAMBDA i :
       IF m = 0 THEN Uninitialized
       ELSE SumOver([k \in 0 .. m - 1 |-> Times(Of(x, i, i[n - 1], k), Of(y, i, k, i[n]))]))

\* How many windows of `extent` fit: the floor, or with `ceil` also the one
\* that starts inside the input but does not fit.
Windows(n, before, after, extent, stride, ceil) ==
  LET over == n + before + after - extent
      full == over \div stride + 1
  IN IF ceil /\ over % stride # 0 /\ full * stride < n + before THEN full + 1 ELSE full

\* Input NHWC, filter RSCF, padding before and after H and W.
MaxConv2d(x, w, stride, pad, dilation, groups) ==
  LET out(h, d) == Windows(x.shape[h], pad[2 * d - 1], pad[2 * d],
                           dilation[d] * (w.shape[d] - 1) + 1, stride[d], FALSE)
      perGroup == w.shape[4] \div groups
      Tap(i, t) ==
        LET at == <<i[1], i[2] * stride[1] - pad[1] + t[1] * dilation[1],
                    i[3] * stride[2] - pad[3] + t[2] * dilation[2],
                    (i[4] \div perGroup) * w.shape[3] + t[3]>>
        IN IF at \in DOMAIN x.at THEN Times(x.at[at], w.at[Append(t, i[4])]) ELSE Zero
  IN Tensor(<<x.shape[1], out(2, 1), out(3, 2), w.shape[4]>>,
            LAMBDA i : SumOver([t \in Coords(SubSeq(w.shape, 1, 3)) |-> Tap(i, t)]))

\* Every input element adds its product with the filter to the output; the
\* filter's axes are R, S, output and input channels, and `pad` is cropped.
MaxConv2dTranspose(x, w, stride, pad, dilation, outpad) ==
  LET out(h, d) == (x.shape[h] - 1) * stride[d] - pad[2 * d - 1] - pad[2 * d]
                   + dilation[d] * (w.shape[d] - 1) + outpad[d] + 1
      Lands(i, j, t) ==
        \A d \in 1 .. 2 : j[d + 1] * stride[d] + t[d] * dilation[d] - pad[2 * d - 1] = i[d + 1]
      From(i) == {jt \in Coords(x.shape) \X Coords(SubSeq(w.shape, 1, 2)) :
                    jt[1][1] = i[1] /\ Lands(i, jt[1], jt[2])}
  IN Tensor(<<x.shape[1], out(2, 1), out(3, 2), w.shape[3]>>, LAMBDA i :
       SumOver([jt \in From(i) |-> Times(x.at[jt[1]], w.at[jt[2] \o <<i[4], jt[1][4]>>])]))

\* col2im without padding: row c * kh * kw + r * kw + s of a column is tap
\* (r, s) of channel c.
MaxFold(cols, size, kernel, stride, dilation) ==
  LET kk == kernel[1] * kernel[2]
      across == Windows(size[2], 0, 0, dilation[2] * (kernel[2] - 1) + 1, stride[2], FALSE)
      down == Windows(size[1], 0, 0, dilation[1] * (kernel[1] - 1) + 1, stride[1], FALSE)
      Hits(i) == {t \in Coords(kernel) \X Coords(<<down, across>>) :
                    \A d \in 1 .. 2 : t[2][d] * stride[d] + t[1][d] * dilation[d] = i[d + 2]}
  IN Tensor(<<cols.shape[1], cols.shape[2] \div kk>> \o size, LAMBDA i :
       SumOver([t \in Hits(i) |->
         cols.at[<<i[1], i[2] * kk + t[1][1] * kernel[2] + t[1][2],
                   t[2][1] * across + t[2][2]>>]]))

\* The windows of a pooling over NHWC, as the sets of the inputs in them.
MaxWindows(x, kernel, stride, pad, dilation, ceil) ==
  LET out(h, d) == Windows(x.shape[h], pad[2 * d - 1], pad[2 * d],
                           dilation[d] * (kernel[d] - 1) + 1, stride[d], ceil)
      At(i, t) == <<i[1], i[2] * stride[1] - pad[1] + t[1] * dilation[1],
                    i[3] * stride[2] - pad[3] + t[2] * dilation[2], i[4]>>
  IN Tensor(<<x.shape[1], out(2, 1), out(3, 2), x.shape[4]>>, LAMBDA i :
       {x.at[At(i, t)] : t \in {u \in Coords(kernel) : At(i, u) \in DOMAIN x.at}})
=============================================================================
