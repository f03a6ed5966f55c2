---------------------------- MODULE AtenLowering ----------------------------
(***************************************************************************)
(* aten_functions.py: how ATen operators become operations of MAX's graph, *)
(* as far as which element goes where.  One operator per function, with    *)
(* the function's name; types, devices and dynamic shapes are left out,    *)
(* and what raises is not called.                                          *)
(***************************************************************************)
EXTENDS MaxOps

MaxInt == 1000   \* sys.maxsize: an open end
None == <<>>

-----------------------------------------------------------------------------
(* Views.                                                                   *)

\* The bounds of a slice, as tracing normalized them.
traced_slice_bounds(size, start, end) ==
  LET s == IF start < 0 THEN start + size ELSE start
      e == IF end < 0 THEN end + size ELSE end
      lo == CASE s < 0 -> 0 [] s > size -> size [] OTHER -> s
  IN <<lo, CASE e > size -> size [] e < lo -> lo [] OTHER -> e>>

aten_slice(t, dim, start, end, step) ==
  LET b == traced_slice_bounds(Size(t, dim), start, end)
  IN MaxSlice(t, dim, b[1], b[2], step)

aten_select(t, dim, index) == MaxAt(t, dim, index)

aten_select_scatter(t, src, dim, index) ==
  LET d == Axis(t, dim)
      k == IF index < 0 THEN index + Size(t, d) ELSE index
      along == SetAxis(Ones(Rank(t)), d + 1, Size(t, d))
      mask == MaxBroadcast(Tensor(along, LAMBDA i : i[d + 1] = k), t.shape)
  IN MaxWhere(mask, MaxBroadcast(MaxUnsqueeze(src, d), t.shape), t)

aten_split(t, size, dim) ==
  LET n == Size(t, dim)
      left == IF n % size = 0 THEN <<>> ELSE <<n % size>>
  IN MaxSplit(t, [k \in 1 .. n \div size |-> size] \o left, dim)

aten_split_with_sizes(t, sizes, dim) ==
  LET End(k) == FoldLeft(LAMBDA acc, n : acc + n, 0, SubSeq(sizes, 1, k))
  IN [k \in DOMAIN sizes |-> MaxSlice(t, dim, End(k - 1), End(k), 1)]

aten_unbind(t, dim) ==
  LET d == Axis(t, dim)
      parts == MaxSplit(t, Ones(Size(t, d)), d)
  IN [k \in DOMAIN parts |-> MaxSqueeze(parts[k], d)]

Descending(dims) == SetToSortSeq(dims, LAMBDA a, b : a > b)

\* Highest axis first, so that the others keep their numbers.
aten_squeeze(t, dims) ==
  LET One(acc, d) ==
        LET a == Axis(acc, d)
        IN IF a < Rank(acc) /\ Size(acc, a) = 1 THEN MaxSqueeze(acc, a) ELSE acc
  IN FoldLeft(One, t, Descending(dims))

torch_transpose_equivalent(t, dim0, dim1) ==
  LET a == Axis(t, dim0)
      b == Axis(t, dim1)
  IN IF a = b THEN t ELSE MaxPermute(t, Swapped(Rank(t), a, b))

Rest(t, axes) == SelectSeq([d \in 1 .. Rank(t) |-> d - 1], LAMBDA a : a \notin axes)
Dims(t, axes) == [d \in DOMAIN axes |-> Size(t, axes[d])]

aten_diagonal(t, offset, dim1, dim2) ==
  LET a == dim1 % Rank(t)
      b == dim2 % Rank(t)
      n1 == Size(t, a)
      n2 == Size(t, b)
      rest == Rest(t, {a, b})
      flat == MaxReshape(MaxPermute(t, rest \o <<a, b>>), Dims(t, rest) \o <<n1 * n2>>)
      first == Max({0, -offset})
      length == Max({0, Min({n1 - first, n2 - first - offset})})
  IN MaxGather(flat, Vector([k \in 1 .. length |-> (first + k - 1) * (n2 + 1) + offset]),
               Len(rest))

aten_unfold(t, dimension, size, step) ==
  LET dim == dimension % Rank(t)
      windows == (Size(t, dim) - size) \div step + 1
      index == Tensor(<<windows, size>>, LAMBDA i : i[1] * step + i[2])
      gathered == MaxGather(t, index, dim)
  IN MaxPermute(gathered, Rest(gathered, {dim + 1}) \o <<dim + 1>>)

aten_flip(t, dims) ==
  LET One(acc, d) ==
        LET n == Size(acc, d)
        IN IF n <= 1 THEN acc ELSE MaxGather(acc, Vector([k \in 1 .. n |-> n - k]), d)
  IN FoldLeft(One, t, Reverse(Descending({d % Rank(t) : d \in dims})))

aten_expand(t, size) ==
  LET more == IF Len(size) > Rank(t) THEN Len(size) - Rank(t) ELSE 0
      padded == Ones(more) \o t.shape
  IN MaxBroadcast(t, [d \in DOMAIN size |-> IF size[d] = -1 THEN padded[d] ELSE size[d]])

aten_repeat(t, repeats) ==
  LET more == Len(repeats) - Rank(t)
  IN MaxTile(IF more > 0 THEN MaxReshape(t, Ones(more) \o t.shape) ELSE t, repeats)

\* A 1-D tensor of size 0 is skipped.
aten_cat(ts, dim) ==
  LET filtered == SelectSeq(ts, LAMBDA t : t.shape # <<0>>)
  IN IF filtered = <<>> THEN ts[1] ELSE MaxConcat(filtered, dim)

\* Torch pads the last axis first, MAX every axis in order.
torch_pad_to_max_paddings(rank, pad) ==
  [k \in 1 .. 2 * rank |->
     LET dim == (k - 1) \div 2
         i == rank - 1 - dim
     IN IF i < Len(pad) \div 2 THEN pad[2 * i + ((k - 1) % 2) + 1] ELSE 0]

\* A negative amount crops first.
aten_constant_pad_nd(t, pad) ==
  LET neg(k) == IF pad[k] < 0 THEN -pad[k] ELSE 0
      Crop(acc, i) ==
        LET dim == Rank(t) - 1 - i
        IN MaxSlice(acc, dim, neg(2 * i + 1), Size(acc, dim) - neg(2 * i + 2), 1)
      cropped == FoldLeft(Crop, t, [i \in 1 .. Len(pad) \div 2 |-> i - 1])
  IN MaxPad(cropped, torch_pad_to_max_paddings(Rank(t), [k \in DOMAIN pad |-> pad[k] + neg(k)]),
            "constant")

aten_reflection_pad2d(t, pad) ==
  MaxPad(t, torch_pad_to_max_paddings(Rank(t), pad), "reflect")
aten_replication_pad2d(t, pad) ==
  MaxPad(t, torch_pad_to_max_paddings(Rank(t), pad), "edge")

\* Both clamp the band to the matrix; the far diagonals of a matrix that is
\* not square are clamped to its shorter side.
Bug_FarLimit(t, distance) ==
  LET least == Min({Size(t, -2), Size(t, -1)})
  IN IF distance > least THEN least - 1 ELSE distance
FarLimit(t, distance) ==
  LET least == Min({Size(t, -2), Size(t, -1)})
  IN IF distance >= least THEN least - 1 ELSE distance - 1

aten_tril(t, diagonal) ==
  IF diagonal >= 0
  THEN MaxBandPart(t, -1, Min({diagonal, Size(t, -1) - 1}), FALSE)
  ELSE MaxBandPart(t, FarLimit(t, -diagonal), -1, TRUE)

aten_triu(t, diagonal) ==
  IF diagonal <= 0
  THEN MaxBandPart(t, Min({-diagonal, Size(t, -2) - 1}), -1, FALSE)
  ELSE MaxBandPart(t, -1, FarLimit(t, diagonal), TRUE)

\* Row-major coordinates of a triangle, as a tensor of two rows.
tri_indices_constant(row, col, offset, upper) ==
  LET From(i) == IF upper THEN Max({0, i + offset}) ELSE 0
      To(i) == IF upper THEN col ELSE Min({col, i + offset + 1})
      Row(i) == [k \in 1 .. To(i) - From(i) |-> <<i, From(i) + k - 1>>]
      points == FlattenSeq([i \in 1 .. row |-> Row(i - 1)])
  IN Tensor(<<2, Len(points)>>, LAMBDA i : points[i[2] + 1][i[1] + 1])

\* The length is the ceiling of the quotient, of either sign.
aten_arange(start, end, step) ==
  LET span == IF step > 0 THEN end - start ELSE start - end
      by == IF step > 0 THEN step ELSE -step
  IN Vector([k \in 1 .. -((-span) \div by) |-> start + (k - 1) * step])

-----------------------------------------------------------------------------
(* Indexing.                                                                *)

broadcast_shape(shapes) ==
  LET rank == Max({Len(shapes[k]) : k \in DOMAIN shapes})
      Column(d) == {shapes[k][d - rank + Len(shapes[k])] :
                      k \in {j \in DOMAIN shapes : d > rank - Len(shapes[j])}}
  IN [d \in 1 .. rank |-> Max({1} \cup Column(d))]

\* indices[d] is <<>> for None, or <<index>>.  The axes with an index are next
\* to each other: one block.
aten_index(t, indices) ==
  LET has == {d \in DOMAIN indices : indices[d] # <<>>}
      start == Min(has) - 1
      block == [k \in 1 .. Cardinality(has) |-> indices[start + k][1]]
      shape == broadcast_shape([k \in DOMAIN block |-> block[k].shape])
      stacked == MaxStack([k \in DOMAIN block |-> MaxBroadcast(block[k], shape)], -1)
  IN IF Len(block) = 1 THEN MaxGather(t, block[1], start)
     ELSE MaxGatherNd(t, MaxBroadcast(stacked, SubSeq(t.shape, 1, start) \o stacked.shape), start)

aten_index_select(t, dim, index) == MaxGather(t, index, dim)

\* The row the padding index names is read like any other.
aten_embedding(table, indices) ==
  IF Rank(indices) = 0 THEN MaxSqueeze(MaxGather(table, MaxUnsqueeze(indices, 0), 0), 0)
  ELSE MaxGather(table, indices, 0)

\* Every axis contributes its own coordinate, except `dim`.
dim_coords(t, dim, index) ==
  LET d == dim % Rank(t)
      Iota(a) ==
        LET n == index.shape[a + 1]
            along == SetAxis(Ones(Rank(t)), a + 1, n)
        IN MaxBroadcast(MaxReshape(Vector([k \in 1 .. n |-> k - 1]), along), index.shape)
  IN MaxStack([a \in 1 .. Rank(t) |-> IF a - 1 = d THEN index ELSE Iota(a - 1)], -1)

aten_gather(t, dim, index) == MaxGatherNd(t, dim_coords(t, dim, index), 0)

aten_scatter_add(t, dim, index, src) ==
  MaxScatterNd(t, MaxReshape(src, <<-1>>),
               MaxReshape(dim_coords(t, dim, index), <<-1, Rank(t)>>), TRUE)

aten_index_add(t, dim, index, source) ==
  LET along == SetAxis(Ones(Rank(source)), (dim % Rank(source)) + 1, index.shape[1])
  IN aten_scatter_add(t, dim, MaxBroadcast(MaxReshape(index, along), source.shape), source)

\* One index tensor, on the first axis.
aten_index_put(t, index, values, accumulate) ==
  LET rest == Tail(t.shape)
      flat == MaxReshape(index, <<Numel(index.shape)>>)
      rows == IF Rank(index) = 1 THEN values
              ELSE MaxReshape(MaxBroadcast(values, index.shape \o rest), flat.shape \o rest)
  IN MaxScatterNd(t, MaxBroadcast(rows, flat.shape \o rest), MaxUnsqueeze(flat, -1), accumulate)

aten_put(t, index, source, accumulate) ==
  LET n == Numel(t.shape)
      wrapped == Map(MaxReshape(index, <<-1>>), LAMBDA k : IF k < 0 THEN k + n ELSE k)
      flat == MaxScatterNd(MaxReshape(t, <<n>>), MaxReshape(source, <<-1>>),
                           MaxUnsqueeze(wrapped, -1), accumulate)
  IN MaxReshape(flat, t.shape)

-----------------------------------------------------------------------------
(* Reductions.                                                              *)

\* No axis named means all of them.
AllDims(t, dims) == IF dims = {} THEN 0 .. Rank(t) - 1 ELSE {Axis(t, d) : d \in dims}

Reduced(t, dims, keepdim, Op(_)) ==
  LET order == Descending(AllDims(t, dims))
      kept == FoldLeft(LAMBDA acc, a : MaxReduce(acc, a, Op), t, order)
  IN IF keepdim THEN kept ELSE FoldLeft(LAMBDA acc, a : MaxSqueeze(acc, a), kept, order)

aten_sum(t, dims, keepdim) == Reduced(t, dims, keepdim, SumOver)

\* amax does not look at negative axes: MAX and squeeze read them, the first
\* before anything is squeezed.
aten_amax(t, dims, keepdim) ==
  LET order == Descending(IF dims = {} THEN 0 .. Rank(t) - 1 ELSE dims)
      Largest(lane) == Max({lane[k] : k \in DOMAIN lane})
      kept == FoldLeft(LAMBDA acc, a : MaxReduce(acc, a, Largest), t, order)
  IN IF keepdim THEN kept ELSE FoldLeft(LAMBDA acc, a : MaxSqueeze(acc, a), kept, order)

\* MAX reduces the last axis only, and keeps it with size 1.
aten_argmax(t, dim, keepdim) ==
  LET last == Rank(t) - 1
      d == Axis(t, dim)
      First(lane) == Ranked(lane, TRUE, 1)[1] - 1
      raw == IF d = last THEN MaxReduce(t, last, First)
             ELSE MaxReduce(MaxTranspose(t, d, last), last, First)
      back == CASE d = last -> raw
                [] keepdim -> MaxTranspose(raw, d, last)
                [] OTHER -> MaxTranspose(raw, d, last - 1)
  IN IF keepdim THEN back
     ELSE MaxSqueeze(back, Min({a \in 0 .. last : Size(back, a) = 1}))

aten_cumsum(t, dim) == MaxCumsum(t, dim)

-----------------------------------------------------------------------------
(* Order.                                                                   *)

Inf == 8
Num(b) == IF b THEN 1 ELSE 0

\* MAX selects along the last axis only.  A NaN is handed to it as it is: sort,
\* topk and kthvalue have no answer of their own for one.
select_sorted_k(t, k, axis, largest) ==
  LET last == Rank(t) - 1
      operand == IF axis = last THEN t ELSE MaxTranspose(t, axis, last)
      both == MaxTopK(operand, k, largest)
  IN CASE k = 0 -> [b \in 1 .. 2 |-> MaxSlice(t, axis, 0, 0, 1)]
       [] axis = last -> both
       [] OTHER -> [b \in 1 .. 2 |-> MaxTranspose(both[b], axis, last)]

aten_topk(t, k, dim, largest) == select_sorted_k(t, k, Axis(t, dim), largest)
aten_sort(t, dim, descending) == select_sorted_k(t, Size(t, dim), Axis(t, dim), descending)

kth_smallest(t, k, axis, keepdim) ==
  LET both == select_sorted_k(t, k, axis, FALSE)
      one(u) == aten_slice(u, axis, k - 1, k, 1)
  IN [b \in 1 .. 2 |-> IF keepdim THEN one(both[b]) ELSE MaxSqueeze(one(both[b]), axis)]

aten_kthvalue(t, k, dim, keepdim) == kth_smallest(t, k, Axis(t, dim), keepdim)

\* Two stable passes: the numbers by value, a NaN as the largest, then that
\* order by whether it is one.
\* Mutant: the first pass sorts the NaNs themselves.
Bug_nan_last_order(t, axis) ==
  LET isNan == Map(t, LAMBDA x : Num(x = NaN))
      Order(u) == select_sorted_k(u, Size(t, axis), axis, FALSE)[2]
      ByNan(byValue) ==
        aten_gather(byValue, axis, Order(aten_gather(isNan, axis, byValue)))
      Both(indices) == <<aten_gather(t, axis, indices), indices>>
  IN Both(ByNan(Order(t)))
nan_last_order(t, axis) ==
  LET isNan == Map(t, LAMBDA x : Num(x = NaN))
      key == MaxWhere(Map(isNan, LAMBDA b : b > 0), Fill(t.shape, Inf), t)
      Order(u) == select_sorted_k(u, Size(t, axis), axis, FALSE)[2]
      ByNan(byValue) ==
        aten_gather(byValue, axis, Order(aten_gather(isNan, axis, byValue)))
      Both(indices) == <<aten_gather(t, axis, indices), indices>>
  IN Both(ByNan(Order(key)))

\* The lower of the two middle values; median propagates a NaN, nanmedian takes
\* the numbers only, and integers have none.
median_along(t, dim, keepdim, ignoreNan, float) ==
  LET axis == dim % Rank(t)
      size == Size(t, axis)
      nans == MaxReduce(t, axis, LAMBDA lane : Cardinality({k \in DOMAIN lane : lane[k] = NaN}))
      position == Map(nans, LAMBDA n :
        IF ignoreNan THEN Max({0, size - 1 - n}) \div 2
        ELSE IF n > 0 THEN size - n ELSE (size - 1) \div 2)
      Middle(ordered) == [b \in 1 .. 2 |-> aten_gather(ordered[b], axis, position)]
      Kept(both) == [b \in 1 .. 2 |-> IF keepdim THEN both[b] ELSE MaxSqueeze(both[b], axis)]
  IN Kept(IF float THEN Middle(nan_last_order(t, axis))
          ELSE kth_smallest(t, (size + 1) \div 2, axis, TRUE))

\* Counted, where ATen searches: a NaN counts for no number, and everything
\* counts for a value above all numbers.
searchsorted_impl(sorted, values, right) ==
  LET v == MaxUnsqueeze(values, -1)
      s == IF Rank(sorted) = 1 THEN sorted ELSE MaxUnsqueeze(sorted, -2)
      Above(x, y) == x # NaN /\ y # NaN /\ IF right THEN x > y ELSE x >= y
      Total(lane) == FoldLeft(LAMBDA acc, n : acc + n, 0, lane)
      Count(u) == MaxReduce(u, -1, Total)
      counts == Count(MaxZip(s, v, LAMBDA x, y : Num(~Above(x, y) /\ x # NaN)))
      numeric == Count(Map(s, LAMBDA x : Num(x # NaN)))
      total == Count(Map(s, LAMBDA x : 1))
  IN MaxSqueeze(MaxWhere(MaxZip(counts, numeric, LAMBDA x, y : x = y), total, counts), -1)

aten_isin(elements, tests, invert) ==
  LET e == MaxReshape(elements, <<Numel(elements.shape), 1>>)
      t == MaxReshape(tests, <<1, Numel(tests.shape)>>)
      Some(lane) == Max({lane[k] : k \in DOMAIN lane})
      found == IF Numel(tests.shape) = 0 THEN Fill(e.shape, 0)
               ELSE MaxReduce(MaxZip(e, t, LAMBDA x, y : Num(x = y /\ x # NaN)), -1, Some)
  IN Map(MaxReshape(found, elements.shape), LAMBDA b : (b = 1) # invert)

-----------------------------------------------------------------------------
(* Products and windows.                                                    *)

aten_linear(t, weight, bias) ==
  MaxZip(MaxMatmul(t, MaxTranspose(weight, -1, -2)), bias, Plus)

\* `mask` says which of the three gradients are asked for; both parameter
\* gradients are there when either is.
aten_linear_backward(t, grad, weight, mask) ==
  LET rows == Numel(Front(t.shape))
      input == MaxReshape(t, <<rows, weight.shape[2]>>)
      g == MaxReshape(grad, <<rows, weight.shape[1]>>)
      ofInput == IF weight.shape[1] = 0 THEN Fill(t.shape, Zero)
                 ELSE MaxReshape(MaxMatmul(g, weight), t.shape)
      ofWeight == IF rows = 0 THEN Fill(weight.shape, Zero)
                  ELSE MaxMatmul(MaxTranspose(g, 0, 1), input)
      ofBias == IF rows = 0 \/ ~mask[3] THEN Fill(<<weight.shape[1]>>, Zero)
                ELSE aten_sum(g, {0}, FALSE)
      parameters == mask[2] \/ mask[3]
  IN <<IF mask[1] THEN ofInput ELSE None,
       IF parameters THEN ofWeight ELSE None,
       IF parameters THEN ofBias ELSE None>>

normalize_2d_params(p) ==
  [p EXCEPT !.padding = <<@[1], @[1], @[2], @[2]>>]

Channels(t, groups) == [k \in 1 .. groups |-> t \div groups]

\* A convolution is [stride, padding, dilation, outpad, groups, transposed].
\* A length becomes the height of an image one pixel wide.
Conv(t, w, p) ==
  IF p.transposed
  THEN MaxConv2dTranspose(t, w, p.stride, p.padding, p.dilation, p.outpad)
  ELSE MaxConv2d(t, w, p.stride, p.padding, p.dilation, p.groups)

ConvOne(t, w, p) ==
  IF Rank(t) = 3
  THEN LET q == [p EXCEPT !.stride = <<@[1], 1>>, !.dilation = <<@[1], 1>>,
                          !.padding = <<@[1], @[1], 0, 0>>, !.outpad = <<@[1], 0>>]
           x == MaxPermute(MaxUnsqueeze(t, -1), <<0, 2, 3, 1>>)
           f == MaxPermute(MaxUnsqueeze(w, 2), <<3, 2, 1, 0>>)
       IN MaxSqueeze(MaxPermute(Conv(x, f, q), <<0, 3, 1, 2>>), -1)
  ELSE LET x == MaxPermute(t, <<0, 2, 3, 1>>)
           f == MaxPermute(w, <<2, 3, 1, 0>>)
       IN MaxPermute(Conv(x, f, normalize_2d_params(p)), <<0, 3, 1, 2>>)

\* One bias per output channel.
AddBias(t, bias) == MaxZip(t, MaxReshape(bias, <<1, -1>> \o Ones(Rank(t) - 2)), Plus)

aten_convolution(t, w, bias, p) ==
  IF p.groups # 1 /\ p.transposed
  THEN LET xs == MaxSplit(t, Channels(t.shape[2], p.groups), 1)
           ws == MaxSplit(w, Channels(w.shape[1], p.groups), 0)
           part(k) == ConvOne(xs[k], ws[k], [p EXCEPT !.groups = 1])
       IN AddBias(MaxConcat([k \in DOMAIN xs |-> part(k)], 1), bias)
  ELSE AddBias(ConvOne(t, w, p), bias)

\* A border of no width is not sliced off: u[0:-0] would be empty.
Bug_Cropped(u, a, by) == MaxSlice(u, a, by, 0, 1)
Cropped(u, a, by) == IF by = 0 THEN u ELSE MaxSlice(u, a, by, -by, 1)

\* The gradient of the input: the columns of weight and gradient are folded
\* into the padded image, and the border is cropped.
conv2d_backward_input(grad, t, w, p) ==
  LET kernel == <<w.shape[3], w.shape[4]>>
      cols == MaxReshape(grad, <<grad.shape[1], grad.shape[2], grad.shape[3] * grad.shape[4]>>)
      size == <<t.shape[3] + 2 * p.padding[1], t.shape[4] + 2 * p.padding[2]>>
      ws == MaxSplit(w, Channels(w.shape[1], p.groups), 0)
      gs == MaxSplit(cols, Channels(w.shape[1], p.groups), 1)
      Part(k) ==
        LET m == MaxReshape(ws[k], <<ws[k].shape[1], -1>>)
        IN MaxFold(MaxMatmul(MaxTranspose(m, 0, 1), gs[k]), size, kernel, p.stride, p.dilation)
      padded == MaxConcat([k \in DOMAIN ws |-> Part(k)], 1)
  IN Cropped(Cropped(padded, 2, p.padding[1]), 3, p.padding[2])

\* The gradient of the weight: a convolution of the input by the gradient,
\* with channels as batch, dilation as stride and stride as dilation.
conv2d_backward_weight(grad, t, w, p) ==
  LET x == MaxPermute(t, <<1, 2, 3, 0>>)
      g == MaxPermute(grad, <<2, 3, 0, 1>>)
      q == normalize_2d_params(p)
      xs == MaxSplit(x, Channels(t.shape[2], p.groups), 0)
      gs == MaxSplit(g, Channels(grad.shape[2], p.groups), 3)
      Part(k) ==
        LET c == MaxConv2d(xs[k], gs[k], p.dilation, q.padding, p.stride, 1)
        IN MaxPermute(MaxSlice(MaxSlice(c, 1, 0, w.shape[3], 1), 2, 0, w.shape[4], 1),
                      <<3, 0, 1, 2>>)
  IN MaxConcat([k \in DOMAIN xs |-> Part(k)], 0)

\* The gradients of the input, the weight and the bias.  A length becomes the
\* width of an image of height one.
aten_convolution_backward(grad, t, w, p, mask) ==
  LET long == Rank(t) = 3
      q == IF long THEN [p EXCEPT !.stride = <<1, @[1]>>, !.padding = <<0, @[1]>>,
                                  !.dilation = <<1, @[1]>>]
           ELSE p
      Up(u) == IF long THEN MaxUnsqueeze(u, 2) ELSE u
      Down(u) == IF long THEN MaxSqueeze(u, 2) ELSE u
  IN <<IF mask[1] THEN Down(conv2d_backward_input(Up(grad), Up(t), Up(w), q)) ELSE None,
       IF mask[2] THEN Down(conv2d_backward_weight(Up(grad), Up(t), Up(w), q)) ELSE None,
       IF mask[3] THEN aten_sum(Up(grad), {0, 2, 3}, FALSE) ELSE None>>

\* A pooling, as the windows it averages or takes the largest of.
Pooled(t, kernel, stride, pad, dilation, ceil) ==
  MaxPermute(MaxWindows(MaxPermute(t, <<0, 2, 3, 1>>), kernel, stride, pad, dilation, ceil),
             <<0, 3, 1, 2>>)

aten_avg_pool2d(t, kernel, stride, padding, ceil) ==
  Pooled(t, kernel, stride, <<padding[1], padding[1], padding[2], padding[2]>>, <<1, 1>>, ceil)

aten_max_pool2d(t, kernel, stride, padding, dilation, ceil) ==
  Pooled(t, kernel, stride, <<padding[1], padding[1], padding[2], padding[2]>>, dilation, ceil)

\* The output divides the input.
aten__adaptive_avg_pool2d(t, output) ==
  LET k == <<Size(t, 2) \div output[1], Size(t, 3) \div output[2]>>
  IN Pooled(t, k, k, <<0, 0, 0, 0>>, <<1, 1>>, FALSE)
=============================================================================
