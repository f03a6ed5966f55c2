----------------------------- MODULE AtenCalls -----------------------------
(***************************************************************************)
(* Calls of ATen operators, their lowering, and what ATen says the result  *)
(* is.  A call is chosen at the start, lowered in one step and compared.   *)
(***************************************************************************)
EXTENDS AtenLowering

VARIABLES
  call,   \* the call: an operator, shapes and arguments
  out     \* <<>>, then the tensors the lowering returns

X(c) == Input("x", c.shape)
Y(shape) == Input("y", shape)

-----------------------------------------------------------------------------
(* Views of a tensor of variables.  bound: shapes of two or three axes of   *)
(* at most four elements, every argument around their ends.                 *)

Moves ==
  [op : {"slice"}, shape : {<<2, 3>>}, dim : {1, -2}, start : -4 .. 4,
   end : (-4 .. 4) \cup {MaxInt}, step : 1 .. 2]
  \cup [op : {"select"}, shape : {<<2, 3>>}, dim : {1, -1}, index : -3 .. 2]
  \cup [op : {"select_scatter"}, shape : {<<2, 3>>}, dim : {1, -1}, index : -3 .. 2]
  \cup [op : {"split"}, shape : {<<2, 4>>, <<2, 3>>}, dim : {1, -1}, size : 1 .. 5]
  \cup [op : {"unbind"}, shape : {<<2, 3>>}, dim : -2 .. 1]
  \cup [op : {"transpose"}, shape : {<<2, 3, 1>>}, dim : -3 .. 2, with : -3 .. 2]
  \cup [op : {"diagonal"}, shape : {<<2, 3, 4>>}, dim : {0, -1}, with : {1, -2}, offset : -4 .. 4]
  \cup [op : {"unfold"}, shape : {<<4, 2>>}, dim : {0, -2}, size : 1 .. 4, step : 1 .. 3]
  \cup [op : {"flip"}, shape : {<<2, 3>>}, dims : SUBSET {0, -1}]
  \cup [op : {"squeeze"}, shape : {<<1, 3, 1>>, <<1, 1, 2>>}, dims : SUBSET (0 .. 2) \cup {{d} : d \in -3 .. -1}]
  \cup [op : {"expand"}, shape : {<<1, 3>>}, size : {<<2, 3>>, <<2, -1>>, <<2, -1, 3>>, <<-1, 3>>}]
  \cup [op : {"repeat"}, shape : {<<2, 2>>}, repeats : {<<2, 1>>, <<1, 3>>, <<2, 1, 2>>, <<0, 1>>}]
  \cup [op : {"cat"}, shape : {<<2, 1>>}, more : {<<>>, <<<<0>>>>, <<<<2, 2>>>>, <<<<0>>, <<2, 2>>>>},
        dim : {1, -1}]
  \cup [op : {"constant_pad"}, shape : {<<2, 3>>},
        pad : {<<a, b>> : a, b \in -1 .. 2} \cup {<<1, -1, b, 2>> : b \in -1 .. 1}]
  \cup [op : {"reflection_pad"}, shape : {<<1, 2, 3>>}, pad : {<<a, b, 1, c>> : a \in 0 .. 2, b, c \in 0 .. 1}]
  \cup [op : {"replication_pad"}, shape : {<<1, 2, 3>>}, pad : {<<a, b, 1, c>> : a \in 0 .. 2, b, c \in 0 .. 2}]

Made ==
  [op : {"arange"}, shape : {<<>>}, start : -1 .. 1, end : 1 .. 5, step : 1 .. 3]
  \cup [op : {"arange"}, shape : {<<>>}, start : 1 .. 4, end : -1 .. 1, step : {-2, -1}]
  \cup [op : {"index"}, shape : {<<2, 3, 2>>}, first : 1 .. 2, axes : 1 .. 2, of : {<<2>>, <<2, 2>>},
        narrow : BOOLEAN]
  \cup [op : {"put"}, shape : {<<2, 2>>}, index : {<<0, -1, 2>>, <<1, -4, 3>>}, accumulate : BOOLEAN]
  \cup [op : {"put"}, shape : {<<2, 2>>}, index : {<<3, -1, -1>>, <<0, 0, -4>>}, accumulate : {TRUE}]

Triangles ==
  [op : {"tril", "triu"}, shape : {<<2, 3>>, <<3, 2>>, <<3, 3>>, <<1, 2, 2>>}, diagonal : -4 .. 4]

Windowed ==
  [op : {"avg_pool"}, shape : {<<1, 1, 3, 4>>}, kernel : {<<2, 2>>, <<3, 1>>}, stride : {<<1, 2>>, <<2, 3>>},
   padding : {<<0, 0>>, <<1, 0>>}, dilation : {<<1, 1>>}, ceil : BOOLEAN]
  \cup [op : {"max_pool"}, shape : {<<1, 2, 3, 4>>}, kernel : {<<2, 2>>, <<1, 2>>}, stride : {<<1, 1>>, <<2, 1>>},
        padding : {<<0, 1>>}, dilation : {<<1, 2>>, <<2, 1>>}, ceil : {FALSE}]
  \cup [op : {"adaptive_pool"}, shape : {<<1, 1, 2, 4>>}, output : {<<1, 2>>, <<2, 2>>, <<2, 4>>, <<1, 4>>}]

Up(x) == IF x < 0 THEN 0 ELSE x

\* The positions start, start + step, ... before end, as Python reads them.
Sliced(n, start, end, step) ==
  LET lo == IF start < 0 THEN Up(start + n) ELSE start
      hi == IF end < 0 THEN end + n ELSE end
  IN SetToSortSeq({p \in 0 .. n - 1 : lo <= p /\ p < hi /\ (p - lo) % step = 0}, <)

\* The index tensors of an indexing; the second may have one element only.
Index(shape, seq) == Tensor(shape, LAMBDA i : seq[Offset(i, shape) + 1])
Indices(c) ==
  [d \in 1 .. c.first + c.axes - 1 |->
     CASE d < c.first -> None
       [] d > c.first /\ c.narrow -> <<Vector(<<1>>)>>
       [] OTHER -> <<Tensor(c.of, LAMBDA i : (Offset(i, c.of) + d) % c.shape[d])>>]

\* The window a pooled element looks at.
Looks(c, i, j) ==
  /\ j[1] = i[1] /\ j[2] = i[2]
  /\ \A d \in 1 .. 2 : \E t \in 0 .. c.kernel[d] - 1 :
       j[d + 2] = i[d + 2] * c.stride[d] + t * c.dilation[d] - c.padding[d]

\* The rows and columns a triangle keeps, and those it must not be compared
\* for: the code takes the limit of the shorter side although elements lie
\* beyond it.
KeptPoints(c) ==
  LET r == Len(c.shape)
      Keeps(k) == IF c.op = "tril" THEN k[2] - k[1] <= c.diagonal ELSE k[2] - k[1] >= c.diagonal
  IN {k \in (0 .. c.shape[r - 1] - 1) \X (0 .. c.shape[r] - 1) : Keeps(k)}
Misclamped(c) ==
  LET r == Len(c.shape) IN
  IF c.op = "tril" THEN c.shape[r] < c.shape[r - 1] /\ -c.diagonal > c.shape[r]
  ELSE c.shape[r - 1] < c.shape[r] /\ c.diagonal > c.shape[r - 1]

Laid(c, t) ==
  LET x == X(c)
      n == c.shape
      p == IF "dim" \in DOMAIN c THEN (c.dim % Len(n)) + 1 ELSE 1
  IN
  CASE c.op = "slice" ->
         LET at == Sliced(n[p], c.start, c.end, c.step)
         IN t = <<Tensor(SetAxis(n, p, Len(at)), LAMBDA i : x.at[SetAxis(i, p, at[i[p] + 1])])>>
    [] c.op = "select" ->
         t = <<Tensor(RemoveAt(n, p), LAMBDA i : x.at[InsertAt(i, p, c.index % n[p])])>>
    [] c.op = "select_scatter" ->
         t = <<Tensor(n, LAMBDA i : IF i[p] = c.index % n[p] THEN Y(RemoveAt(n, p)).at[RemoveAt(i, p)]
                                    ELSE x.at[i])>>
    [] c.op = "split" ->
         /\ MaxConcat(t, c.dim) = x
         /\ \A k \in DOMAIN t : t[k].shape[p] = c.size \/ (k = Len(t) /\ t[k].shape[p] \in 1 .. c.size)
    [] c.op = "unbind" ->
         t = [k \in 1 .. n[p] |-> Tensor(RemoveAt(n, p), LAMBDA i : x.at[InsertAt(i, p, k - 1)])]
    [] c.op = "transpose" ->
         LET q == (c.with % Len(n)) + 1
             Flip(i) == SetAxis(SetAxis(i, p, i[q]), q, i[p])
         IN t = <<Tensor(Flip(n), LAMBDA i : x.at[Flip(i)])>>
    [] c.op = "diagonal" ->
         LET q == (c.with % Len(n)) + 1
             other == CHOOSE d \in 1 .. 3 : d \notin {p, q}
             rows == {r \in 0 .. n[p] - 1 : r + c.offset \in 0 .. n[q] - 1}
             At(i) == [d \in 1 .. 3 |-> CASE d = p -> Min(rows) + i[2]
                                          [] d = q -> Min(rows) + i[2] + c.offset
                                          [] OTHER -> i[1]]
         IN t = <<Tensor(<<n[other], Cardinality(rows)>>, LAMBDA i : x.at[At(i)])>>
    [] c.op = "unfold" ->
         LET w == Cardinality({k \in 0 .. n[1] : k * c.step + c.size <= n[1]})
         IN t = <<Tensor(<<w, n[2], c.size>>, LAMBDA i : x.at[<<i[1] * c.step + i[3], i[2]>>])>>
    [] c.op = "flip" ->
         LET axes == {(d % 2) + 1 : d \in c.dims}
         IN t = <<Tensor(n, LAMBDA i :
                    x.at[[d \in 1 .. 2 |-> IF d \in axes THEN n[d] - 1 - i[d] ELSE i[d]]])>>
    [] c.op = "squeeze" ->
         LET gone == {d \in 1 .. 3 : n[d] = 1 /\ (d - 1 \in c.dims \/ d - 4 \in c.dims)}
             kept == SetToSortSeq((1 .. 3) \ gone, <)
             At(i) == [d \in 1 .. 3 |-> IF d \in gone THEN 0 ELSE i[CHOOSE k \in DOMAIN kept : kept[k] = d]]
         IN t = <<Tensor([k \in DOMAIN kept |-> n[kept[k]]], LAMBDA i : x.at[At(i)])>>
    [] c.op = "expand" ->
         t = <<Tensor(Front(c.size) \o <<3>>, LAMBDA i : x.at[<<0, Last(i)>>])>>
           \/ (-1 \in ToSet(c.size) /\ Rank(t[1]) = Len(c.size)
               /\ \A i \in DOMAIN t[1].at : t[1].at[i] = x.at[<<0, Last(i)>>])
    [] c.op = "repeat" ->
         LET r == c.repeats
             m == Len(r)
         IN t = <<Tensor([d \in 1 .. m |-> r[d] * IF d > m - 2 THEN n[d - m + 2] ELSE 1],
                         LAMBDA i : x.at[<<i[m - 1] % n[1], i[m] % n[2]>>])>>
    [] c.op = "cat" ->
         t = <<IF <<2, 2>> \in ToSet(c.more)
               THEN Tensor(<<2, 3>>, LAMBDA i : IF i[2] = 0 THEN x.at[i]
                                                ELSE Y(<<2, 2>>).at[<<i[1], i[2] - 1>>])
               ELSE x>>
    [] c.op \in {"constant_pad", "reflection_pad", "replication_pad"} ->
         LET r == Len(n)
             Before(d) == IF 2 * (r - d) < Len(c.pad) THEN c.pad[2 * (r - d) + 1] ELSE 0
             After(d) == IF 2 * (r - d) < Len(c.pad) THEN c.pad[2 * (r - d) + 2] ELSE 0
             Near(y, m) == CASE c.op = "constant_pad" -> y
                             [] y \in 0 .. m - 1 -> y
                             [] c.op = "reflection_pad" -> IF y < 0 THEN -y ELSE 2 * m - 2 - y
                             [] OTHER -> IF y < 0 THEN 0 ELSE m - 1
             At(i) == [d \in 1 .. r |-> Near(i[d] - Before(d), n[d])]
         IN t = <<Tensor([d \in 1 .. r |-> n[d] + Before(d) + After(d)],
                         LAMBDA i : IF At(i) \in DOMAIN x.at THEN x.at[At(i)] ELSE Zero)>>
    [] c.op = "arange" ->
         LET Before(k) == IF c.step > 0 THEN c.start + k * c.step < c.end ELSE c.start + k * c.step > c.end
         IN /\ t = <<Vector([k \in 1 .. t[1].shape[1] |-> c.start + (k - 1) * c.step])>>
            /\ \A k \in 0 .. 9 : k < t[1].shape[1] <=> Before(k)
    [] c.op = "index" ->
         LET m == Len(c.of)
             after == SubSeq(n, c.first + c.axes, 3)
             At(i, d) == CASE d < c.first -> i[d]
                           [] d >= c.first + c.axes -> i[d - c.axes + m]
                           [] d > c.first /\ c.narrow -> 1
                           [] OTHER -> (Offset(SubSeq(i, c.first, c.first + m - 1), c.of) + d) % n[d]
         IN t = <<Tensor(SubSeq(n, 1, c.first - 1) \o c.of \o after,
                         LAMBDA i : x.at[[d \in 1 .. 3 |-> At(i, d)]])>>
    [] c.op = "put" ->
         LET Into(i) == {k \in 1 .. 3 : c.index[k] \in {Offset(i, n), Offset(i, n) - Numel(n)}}
             put(i) == SumOver([k \in Into(i) |-> Y(<<3>>).at[<<k - 1>>]])
         IN t = <<Tensor(n, LAMBDA i : CASE c.accumulate -> Plus(x.at[i], put(i))
                                         [] Into(i) # {} -> put(i)
                                         [] OTHER -> x.at[i])>>
    [] c.op \in {"tril", "triu"} ->
         LET r == Len(n)
             ones == KeptPoints(c)
             points == t[2]
         IN /\ \/ t[1] = Tensor(n, LAMBDA i : IF <<i[r - 1], i[r]>> \in ones THEN x.at[i] ELSE Zero)
               \/ Misclamped(c)
            /\ points.shape = <<2, Cardinality(ones)>>
            /\ ones = {<<points.at[<<0, k>>], points.at[<<1, k>>]>> : k \in 0 .. points.shape[2] - 1}
    [] c.op \in {"avg_pool", "max_pool"} ->
         /\ \A i \in DOMAIN t[1].at : t[1].at[i] = {x.at[j] : j \in {k \in DOMAIN x.at : Looks(c, i, k)}}
         /\ c.ceil => \A j \in DOMAIN x.at :
              (\A d \in 1 .. 2 : c.stride[d] <= c.kernel[d]) => \E i \in DOMAIN t[1].at : x.at[j] \in t[1].at[i]
    [] c.op = "adaptive_pool" ->
         t = <<Tensor(<<1, 1>> \o c.output, LAMBDA i :
                 {x.at[j] : j \in {k \in DOMAIN x.at : \A d \in 3 .. 4 :
                    LET m == c.output[d - 2]
                    IN /\ (i[d] * n[d]) \div m <= k[d]
                       /\ k[d] < ((i[d] + 1) * n[d] + m - 1) \div m}})>>

LayoutOf(c) ==
  LET x == X(c) IN
  CASE c.op = "slice" -> <<aten_slice(x, c.dim, c.start, c.end, c.step)>>
    [] c.op = "select" -> <<aten_select(x, c.dim, c.index)>>
    [] c.op = "select_scatter" ->
         <<aten_select_scatter(x, Y(RemoveAt(c.shape, Axis(x, c.dim) + 1)), c.dim, c.index)>>
    [] c.op = "split" -> aten_split(x, c.size, c.dim)
    [] c.op = "unbind" -> aten_unbind(x, c.dim)
    [] c.op = "transpose" -> <<torch_transpose_equivalent(x, c.dim, c.with)>>
    [] c.op = "diagonal" -> <<aten_diagonal(x, c.offset, c.dim, c.with)>>
    [] c.op = "unfold" -> <<aten_unfold(x, c.dim, c.size, c.step)>>
    [] c.op = "flip" -> <<aten_flip(x, c.dims)>>
    [] c.op = "squeeze" -> <<aten_squeeze(x, c.dims)>>
    [] c.op = "expand" -> <<aten_expand(x, c.size)>>
    [] c.op = "repeat" -> <<aten_repeat(x, c.repeats)>>
    [] c.op = "cat" -> <<aten_cat(<<x>> \o [k \in DOMAIN c.more |-> Y(c.more[k])], c.dim)>>
    [] c.op = "constant_pad" -> <<aten_constant_pad_nd(x, c.pad)>>
    [] c.op = "reflection_pad" -> <<aten_reflection_pad2d(x, c.pad)>>
    [] c.op = "replication_pad" -> <<aten_replication_pad2d(x, c.pad)>>
    [] c.op = "arange" -> <<aten_arange(c.start, c.end, c.step)>>
    [] c.op = "index" -> <<aten_index(x, Indices(c))>>
    [] c.op = "put" -> <<aten_put(x, Vector(c.index), Y(<<3>>), c.accumulate)>>
    [] c.op \in {"tril", "triu"} ->
         LET r == Len(c.shape) IN
         <<IF c.op = "tril" THEN aten_tril(x, c.diagonal) ELSE aten_triu(x, c.diagonal),
           tri_indices_constant(c.shape[r - 1], c.shape[r], c.diagonal, c.op = "triu")>>
    [] c.op = "avg_pool" -> <<aten_avg_pool2d(x, c.kernel, c.stride, c.padding, c.ceil)>>
    [] c.op = "max_pool" -> <<aten_max_pool2d(x, c.kernel, c.stride, c.padding, c.dilation, c.ceil)>>
    [] c.op = "adaptive_pool" -> <<aten__adaptive_avg_pool2d(x, c.output)>>

-----------------------------------------------------------------------------
(* Gradients.  A call of this kind returns its result and then what the      *)
(* lowerings of ATen's formula for its backward make of a gradient "g".       *)

Conv2d == [stride : {<<1, 1>>, <<2, 1>>}, padding : {<<0, 0>>, <<1, 0>>},
           dilation : {<<1, 1>>, <<1, 2>>}]

Gradients ==
  [op : {"index_select"}, shape : {<<2, 3>>}, dim : {0, 1, -1}, index : {<<1, 0, 1>>, <<0>>}]
  \cup [op : {"gather"}, shape : {<<2, 3>>}, dim : {0, -1}, rows : 1 .. 2,
        index : {<<0, 1, 1, 0>>, <<1, 1, 1, 1>>}]
  \cup [op : {"embedding"}, shape : {<<3, 2>>}, of : {<<>>, <<3>>, <<2, 2>>},
        index : {<<2, 0, 2, 2>>, <<1, 0, 2, 1>>}]
  \cup [op : {"select_of"}, shape : {<<2, 3>>}, dim : {1, -1}, index : -3 .. 2]
  \cup [op : {"pad_of"}, shape : {<<2, 3>>},
        pad : {<<a, b>> : a, b \in -1 .. 2} \cup {<<1, -1, b, 2>> : b \in -1 .. 1}]
  \cup [op : {"expand_of"}, shape : {<<1, 3>>, <<2, 1>>}, size : {<<2, 3>>, <<2, 2, 3>>}]
  \cup [op : {"cumsum"}, shape : {<<2, 3>>}, dim : {0, 1, -1}]
  \cup [op : {"linear"}, shape : {<<2, 2>>, <<2, 1, 2>>, <<0, 2>>}, features : 0 .. 2,
        mask : [1 .. 3 -> BOOLEAN]]
  \cup [op : {"conv2d"}, shape : {<<2, 2, 3, 3>>}, kernel : {<<2, 2>>, <<1, 2>>}, groups : 1 .. 2,
        mask : {<<TRUE, TRUE, TRUE>>}, param : Conv2d]
  \cup [op : {"conv1d"}, shape : {<<2, 2, 4>>}, kernel : {<<2>>}, groups : 1 .. 2,
        mask : [1 .. 3 -> BOOLEAN],
        param : [stride : {<<1>>, <<2>>, <<3>>}, padding : {<<0>>, <<1>>}, dilation : {<<1>>, <<2>>}]]
  \cup [op : {"conv_transpose"}, shape : {<<1, 2, 2, 2>>}, kernel : {<<2, 2>>, <<1, 2>>}, groups : 1 .. 2,
        param : Conv2d]

G(t) == Input("g", t.shape)
Zeros(c) == Fill(c.shape, Zero)
Negated(pad) == [k \in DOMAIN pad |-> -pad[k]]

\* Two output channels; the filter holds the input channels of one group.
Filter(c) == Input("w", <<2, c.shape[2] \div c.groups>> \o c.kernel)
Bias == Input("b", <<2>>)
Forward(c) ==
  [stride |-> c.param.stride, padding |-> c.param.padding, dilation |-> c.param.dilation,
   outpad |-> [d \in DOMAIN c.kernel |-> 0], groups |-> c.groups, transposed |-> FALSE]

\* The dimensions an expanded tensor was repeated along.
Repeated(c) == {d \in 0 .. Len(c.size) - 1 :
                  \/ d < Len(c.size) - 2
                  \/ c.shape[d - Len(c.size) + 3] = 1}

Weight(c) == Input("w", <<c.features, 2>>)
Mirrored(c) == Input("w", <<2, 2 \div c.groups>> \o c.kernel)

ForwardOf(c) ==
  LET x == X(c) IN
  CASE c.op = "index_select" -> aten_index_select(x, c.dim, Vector(c.index))
    [] c.op = "gather" -> aten_gather(x, c.dim, Index(<<c.rows, 2>>, c.index))
    [] c.op = "embedding" -> aten_embedding(x, Index(c.of, c.index))
    [] c.op = "select_of" -> aten_select(x, c.dim, c.index)
    [] c.op = "pad_of" -> aten_constant_pad_nd(x, c.pad)
    [] c.op = "expand_of" -> aten_expand(x, c.size)
    [] c.op = "cumsum" -> aten_cumsum(x, c.dim)
    [] c.op = "linear" -> aten_linear(x, Weight(c), Input("b", <<c.features>>))
    [] c.op \in {"conv2d", "conv1d"} -> aten_convolution(x, Filter(c), Bias, Forward(c))
    [] c.op = "conv_transpose" ->
         aten_convolution(x, Mirrored(c), Fill(<<2>>, Zero), [Forward(c) EXCEPT !.transposed = TRUE])

\* What the gradient g becomes: for the operators without a backward of their
\* own, as autograd writes it with others.
BackwardOf(c, g) ==
  CASE c.op = "index_select" -> <<aten_index_add(Zeros(c), c.dim, Vector(c.index), g)>>
    [] c.op = "gather" -> <<aten_scatter_add(Zeros(c), c.dim, Index(<<c.rows, 2>>, c.index), g)>>
    [] c.op = "embedding" -> <<aten_index_put(Zeros(c), Index(c.of, c.index), g, TRUE)>>
    [] c.op = "select_of" -> <<aten_select_scatter(Zeros(c), g, c.dim, c.index)>>
    [] c.op = "pad_of" -> <<aten_constant_pad_nd(g, Negated(c.pad))>>
    [] c.op = "expand_of" ->
         <<MaxReshape(IF Repeated(c) = {} THEN g ELSE aten_sum(g, Repeated(c), TRUE), c.shape)>>
    [] c.op = "cumsum" -> <<aten_flip(aten_cumsum(aten_flip(g, {c.dim}), c.dim), {c.dim})>>
    [] c.op = "linear" -> aten_linear_backward(X(c), g, Weight(c), c.mask)
    [] c.op \in {"conv2d", "conv1d"} -> 
         aten_convolution_backward(g, X(c), Filter(c), Forward(c), c.mask)
    [] c.op = "conv_transpose" -> <<>>

GradientsOf(c) ==
  LET Both(y) == <<y>> \o BackwardOf(c, G(y)) IN Both(ForwardOf(c))

\* The gradient of the tensor called `name`, of the sum of g * y.
Derivative(loss, v) ==
  LET terms == {m \in BagToSet(loss) : v \in m}
  IN [r \in {m \ {v} : m \in terms} |-> loss[r \cup {v}]]
Gradient(y, g, name, shape) ==
  LET loss == SumOver([i \in DOMAIN y.at |-> Times(g.at[i], y.at[i])])
  IN Tensor(shape, LAMBDA j : Derivative(loss, <<name, j>>))

Adjoint(c, t) ==
  LET Of(name, shape) == Gradient(t[1], G(t[1]), name, shape) IN
  CASE c.op = "linear" ->
         LET asked(k) == c.mask[k] \/ (k > 1 /\ c.mask[5 - k])
             is(k, name, shape) == t[k + 1] = IF asked(k) THEN Of(name, shape) ELSE None
         IN /\ is(1, "x", c.shape) /\ is(2, "w", <<c.features, 2>>)
            /\ c.mask[3] => is(3, "b", <<c.features>>)
            /\ asked(3) <=> t[4] # None
    [] c.op \in {"conv2d", "conv1d"} ->
         LET is(k, name, shape) == t[k + 1] = IF c.mask[k] THEN Of(name, shape) ELSE None
         IN is(1, "x", c.shape) /\ is(2, "w", Filter(c).shape) /\ is(3, "b", <<2>>)
    [] c.op = "conv_transpose" ->
         LET Mirrors(y) ==
               y.shape = c.shape /\ t = <<Gradient(y, X(c), "z", t[1].shape)>>
         IN Mirrors(aten_convolution(Input("z", t[1].shape), Mirrored(c), Fill(<<2>>, Zero),
                                     Forward(c)))
    [] OTHER -> t = <<t[1], Of("x", c.shape)>>

-----------------------------------------------------------------------------
(* Order and selection, over small numbers and infinity; over NaN where the  *)
(* lowering deals with it itself, as sort, topk and kthvalue do not.         *)

Orders ==
  [op : {"topk"}, shape : {<<3>>}, data : [1 .. 3 -> {0, 1, Inf}], dim : {0, -1}, k : 0 .. 3, largest : BOOLEAN]
  \cup [op : {"sort"}, shape : {<<2, 2>>}, data : [1 .. 4 -> 0 .. 1], dim : {0, 1, -2}, largest : BOOLEAN]
  \cup [op : {"kthvalue"}, shape : {<<2, 2>>}, data : [1 .. 4 -> {0, Inf}], dim : {0, -1}, k : 1 .. 2,
        keepdim : BOOLEAN]
  \cup [op : {"median"}, shape : {<<3>>}, data : [1 .. 3 -> {0, 1, NaN}], dim : {-1}, keepdim : {FALSE},
        ignoreNan : BOOLEAN, float : {TRUE}]
  \cup [op : {"median"}, shape : {<<4>>}, data : [1 .. 4 -> {0, Inf, NaN}], dim : {0}, keepdim : {TRUE},
        ignoreNan : BOOLEAN, float : {TRUE}]
  \cup [op : {"median"}, shape : {<<2, 2>>}, data : [1 .. 4 -> 0 .. 1], dim : {0, -1}, keepdim : BOOLEAN,
        ignoreNan : {FALSE}, float : BOOLEAN]
  \cup [op : {"searchsorted"}, shape : {<<3>>}, values : (0 .. 2) \X {1, NaN}, right : BOOLEAN,
        data : {f \in [1 .. 3 -> {0, 1, 2, NaN}] : f[2] # NaN /\ f[1] <= f[2] /\ f[2] <= f[3]}]
  \cup [op : {"isin"}, shape : {<<2>>}, data : [1 .. 2 -> {0, 1, NaN}], invert : BOOLEAN,
        tests : UNION {[1 .. n -> {0, NaN}] : n \in 0 .. 2}]
  \cup [op : {"argmax"}, shape : {<<2, 3>>}, data : [1 .. 6 -> 0 .. 1], dim : {0, 1, -2}, keepdim : BOOLEAN]
  \cup [op : {"amax"}, shape : {<<2, 3>>}, data : [1 .. 6 -> 0 .. 1], dims : SUBSET {0, 1}, keepdim : BOOLEAN]

Data(c) == Index(c.shape, c.data)

SelectionOf(c) ==
  LET x == Data(c) IN
  CASE c.op = "topk" -> aten_topk(x, c.k, c.dim, c.largest)
    [] c.op = "sort" -> aten_sort(x, c.dim, c.largest)
    [] c.op = "kthvalue" -> aten_kthvalue(x, c.k, c.dim, c.keepdim)
    [] c.op = "median" -> median_along(x, c.dim, c.keepdim, c.ignoreNan, c.float)
    [] c.op = "searchsorted" -> <<searchsorted_impl(x, Vector(c.values), c.right)>>
    [] c.op = "isin" -> <<aten_isin(x, Vector(c.tests), c.invert)>>
    [] c.op = "argmax" -> <<aten_argmax(x, c.dim, c.keepdim)>>
    [] c.op = "amax" -> <<aten_amax(x, c.dims, c.keepdim)>>

\* ATen's binary search: the first position that is not before the value.
BinarySearch(data, value, right) ==
  LET Passed(x) == ~(x # NaN /\ value # NaN /\ IF right THEN x > value ELSE x >= value)
      Halve(r, _step) ==
        LET mid == (r[1] + r[2]) \div 2
        IN CASE r[1] >= r[2] -> r
             [] Passed(data[mid + 1]) -> <<mid + 1, r[2]>>
             [] OTHER -> <<r[1], mid>>
  IN FoldLeft(Halve, <<0, Len(data)>>, data)[1]

\* How many positions of a lane come before position k, NaN last.
Precede(lane, k) == Cardinality({j \in DOMAIN lane : lane[j] < lane[k] \/ (lane[j] = lane[k] /\ j < k)})

\* A lane reduced: what the result holds of it.
EachLane(c, p, t, Holds(_, _)) ==
  LET keep == Len(t.shape) = Len(c.shape)
      Seen(i) == t.at[IF keep THEN i ELSE RemoveAt(i, p)]
  IN /\ t.shape = IF keep THEN SetAxis(c.shape, p, 1) ELSE RemoveAt(c.shape, p)
     /\ keep = c.keepdim
     /\ \A i \in Coords(SetAxis(c.shape, p, 1)) : Holds(Lane(Data(c), i, p), Seen(i))

Ordered(c, t) ==
  LET x == Data(c)
      p == IF "dim" \in DOMAIN c THEN (c.dim % Len(c.shape)) + 1 ELSE 1
  IN
  CASE c.op \in {"topk", "sort"} ->
         LET k == IF c.op = "topk" THEN c.k ELSE c.shape[p]
             Worse(a, b) == IF c.largest THEN a < b ELSE a > b
             From(i) == {t[2].at[SetAxis(i, p, r)] : r \in 0 .. k - 1}
         IN /\ t[1].shape = SetAxis(c.shape, p, k) /\ t[2].shape = t[1].shape
            /\ \A i \in DOMAIN t[1].at :
                 /\ t[1].at[i] = x.at[SetAxis(i, p, t[2].at[i])]
                 /\ Cardinality(From(i)) = k
                 /\ i[p] > 0 => ~Worse(t[1].at[SetAxis(i, p, i[p] - 1)], t[1].at[i])
                 /\ \A j \in 0 .. c.shape[p] - 1 : j \notin From(i) => ~Worse(t[1].at[i], x.at[SetAxis(i, p, j)])
    [] c.op = "kthvalue" ->
         /\ EachLane(c, p, t[1], LAMBDA lane, v : \E k \in DOMAIN lane : lane[k] = v /\ Precede(lane, k) = c.k - 1)
         /\ EachLane(c, p, t[2], LAMBDA lane, k : Precede(lane, k + 1) = c.k - 1)
    [] c.op = "median" ->
         LET Nans(lane) == {k \in DOMAIN lane : lane[k] = NaN}
             Numbers(lane) == Len(lane) - Cardinality(Nans(lane))
             Middle(lane) == CASE Nans(lane) # {} /\ ~c.ignoreNan -> Min(Nans(lane))
                               [] Numbers(lane) = 0 -> 1
                               [] OTHER -> CHOOSE k \in DOMAIN lane : Precede(lane, k) = (Numbers(lane) - 1) \div 2
         IN /\ EachLane(c, p, t[1], LAMBDA lane, v : v = lane[Middle(lane)])
            /\ EachLane(c, p, t[2], LAMBDA lane, k : k + 1 = Middle(lane))
    [] c.op = "searchsorted" ->
         t = <<Vector([k \in 1 .. 2 |-> BinarySearch(c.data, c.values[k], c.right)])>>
    [] c.op = "isin" ->
         t = <<Map(x, LAMBDA e : (e # NaN /\ e \in ToSet(c.tests)) # c.invert)>>
    [] c.op = "argmax" ->
         EachLane(c, p, t[1], LAMBDA lane, k : \A j \in DOMAIN lane : lane[j] <= lane[k + 1])
    [] c.op = "amax" ->
         LET gone == IF c.dims = {} THEN {1, 2} ELSE {d + 1 : d \in c.dims}
             kept == SetToSortSeq(IF c.keepdim THEN {1, 2} ELSE {1, 2} \ gone, <)
             Under(i) == {j \in DOMAIN x.at : \A k \in DOMAIN kept : kept[k] \in gone \/ j[kept[k]] = i[k]}
         IN t = <<Tensor([k \in DOMAIN kept |-> IF kept[k] \in gone THEN 1 ELSE c.shape[kept[k]]],
                         LAMBDA i : Max({x.at[j] : j \in Under(i)}))>>

-----------------------------------------------------------------------------
(* The lowering of one call.                                                 *)

Layouts == {Moves, Made, Triangles, Windowed}
GradientOps == {"index_select", "gather", "embedding", "select_of", "pad_of", "expand_of",
                "cumsum", "linear", "conv2d", "conv1d", "conv_transpose"}
OrderOps == {"topk", "sort", "kthvalue", "median", "searchsorted", "isin", "argmax", "amax"}

LayoutOps == {"slice", "select", "select_scatter", "split", "unbind", "transpose", "diagonal",
              "unfold", "flip", "squeeze", "expand", "repeat", "cat", "constant_pad",
              "reflection_pad", "replication_pad", "arange", "index", "put", "tril", "triu",
              "tril_indices", "triu_indices", "avg_pool", "max_pool", "adaptive_pool"}

NoCall == [op |-> "none"]

Lowered(tensors) == out = None /\ out' = tensors /\ UNCHANGED call

LowerBackward == call.op \in GradientOps /\ Lowered(GradientsOf(call))
LowerOrder    == call.op \in OrderOps /\ Lowered(SelectionOf(call))
LowerLayout   == call.op \in LayoutOps /\ Lowered(LayoutOf(call))
Lower == LowerBackward \/ LowerOrder \/ LowerLayout

\* Every element of a lowered view, padding, indexing, triangle or window is
\* the one ATen puts there, for negative dimensions, bounds beyond the ends,
\* empty slices and triangles past a corner, but for the Misclamped ones.
LayoutIsAten == out # None /\ call.op \in LayoutOps => Laid(call, out)

\* What the lowerings of a backward formula return is the gradient of what
\* the lowering of the forward returned, to the last coefficient: repeated
\* indices add up, a stride leaves out what the forward left out, groups do
\* not mix, and a side without elements is zero and not left uninitialized.
BackwardIsAdjoint == out # None /\ call.op \in GradientOps => Adjoint(call, out)

\* Sorts and selections of numbers give ATen's answer, ties and infinity
\* included.  So do median and nanmedian over NaN (behind infinity, the first
\* one for median), and the searches, for which a NaN is no number's equal.
OrderIsAten == out # None /\ call.op \in OrderOps => Ordered(call, out)
=============================================================================
