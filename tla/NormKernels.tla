----------------------------- MODULE NormKernels -----------------------------
(***************************************************************************)
(* l2_norm, rms_norm, layer_norm and mul_l2_norm as kernels.  The host     *)
(* picks one of three forms: narrow rows are reduced with scale and bias   *)
(* resident; wide rows stream scale and bias tile by tile; a single wide   *)
(* row is folded into full tiles and reduced whole.                        *)
(*                                                                         *)
(* A call has the rows x (one per row-block), gamma and beta or <<>>, y    *)
(* (mul_l2_norm's second operand, whose rows repeat) or <<>>, whether x is *)
(* read by whole pages (dense), whether it can be folded, the element of   *)
(* its tensor at which a folded row begins, and the core.                  *)
(***************************************************************************)
EXTENDS Instructions

CONSTANTS TILE,    \* lanes across a tile
          NARROW,  \* tiles in the widest narrow row (32)
          STREAM,  \* pages of a streaming buffer (4)
          EPS

ASSUME NormAssumption == TILE \in Nat \ {0} /\ NARROW \in Nat /\ STREAM \in Nat \ {0}

Flatten(n, S(_)) == FlattenSeq([i \in 1 .. n |-> S(i - 1)])
When(b, s) == IF b THEN s ELSE <<>>

N(c) == Len(c.x[1])
ceil(a, b) == (a + b - 1) \div b
n_otr(c) == Len(c.x)
n_otc(c) == ceil(N(c), TILE)

\* rms_norm takes a scale or none, layer_norm scale and bias or neither.
Accepted(c) ==
  CASE c.mode \in {"l2", "mul_l2"} -> c.gamma = <<>> /\ c.beta = <<>>
    [] c.mode = "rms" -> c.beta = <<>>
    [] c.mode = "layer" -> (c.gamma = <<>>) = (c.beta = <<>>)
has_scale(c) == c.gamma # <<>>
has_bias(c) == c.beta # <<>>

\* What passes the checks: one row or more of one length, a scale and a bias
\* as long as a row; and one of the cores.
RowsOf(v, n) == Len(v) \in Nat \ {0} /\ \A r \in 1 .. Len(v) : Len(v[r]) = n
OnCore(c) ==
  /\ N(c) \in Nat \ {0} /\ RowsOf(c.x, N(c)) /\ c.dense \in BOOLEAN
  /\ c.cores \in Nat \ {0} /\ c.core \in 0 .. c.cores - 1
NormCall(c) ==
  /\ OnCore(c) /\ c.mode \in {"l2", "rms", "layer", "mul_l2"} /\ Accepted(c)
  /\ has_scale(c) => Len(c.gamma) = N(c)
  /\ has_bias(c) => Len(c.beta) = N(c)
  /\ c.mode = "mul_l2" => RowsOf(c.y, N(c)) /\ n_otr(c) % Len(c.y) = 0

global(c) ==
  /\ c.mode \notin {"mul_l2", "rk"} /\ n_otc(c) > NARROW
  /\ n_otr(c) = 1 /\ N(c) % (TILE * TILE) = 0 /\ c.folds
wide(c) == c.mode \notin {"mul_l2", "rk"} /\ n_otc(c) > NARROW /\ ~global(c)

\* Lanes of a tile, and tiles of a row-block.
width(c) == IF global(c) THEN TILE * TILE ELSE TILE
ctiles(c) == ceil(N(c), width(c))

\* The number the scaler tile divides by: its root where it is applied twice.
Root(n) == CHOOSE r \in 1 .. n : r * r = n
rscale(c) ==
  IF c.mode \in {"l2", "mul_l2"} THEN 1 ELSE IF global(c) THEN Root(N(c)) ELSE N(c)

\* Row-blocks of a core.
rb0(c) == IF global(c) THEN 0 ELSE SplitFirst(n_otr(c), c.cores, c.core)
n_rb(c) == IF global(c) THEN 1 ELSE SplitCount(n_otr(c), c.cores, c.core)

-----------------------------------------------------------------------------
\* Readers.  A gathered tile is zero beyond the row's end.
Tiles(v, w) ==
  LET lanes == [j \in 1 .. ceil(Len(v), w) * w |-> IF j <= Len(v) THEN Lane(v[j]) ELSE Lane(0)]
  IN  Flatten(ceil(Len(v), w), LAMBDA i : <<SubSeq(lanes, i * w + 1, (i + 1) * w)>>)

Seed(c) == When(~c.dense, <<Wait("zero", 1)>>)

BlockUnreserved(cb, tiles) ==    \* mutant
  <<Gather(cb, tiles), Barrier, Push(cb, Len(tiles))>>
BlockPushedEarly(cb, tiles) ==    \* mutant
  <<Reserve(cb, Len(tiles)), Gather(cb, tiles), Push(cb, Len(tiles)), Barrier>>
Block(cb, tiles) ==
  <<Reserve(cb, Len(tiles)), Gather(cb, tiles), Barrier, Push(cb, Len(tiles))>>

XBlock(c, rb) == Block("x", Tiles(c.x[rb0(c) + rb + 1], width(c)))

NarrowReader(c) ==
  LET n == ctiles(c)
  IN  Seed(c)
      \o When(has_scale(c), <<Reserve("gamma", n), Gather("gamma", Tiles(c.gamma, TILE))>>)
      \o When(has_bias(c), <<Reserve("beta", n), Gather("beta", Tiles(c.beta, TILE))>>)
      \o When(has_scale(c), <<Barrier, Push("gamma", n)>>)
      \o When(has_bias(c), <<Push("beta", n)>>)
      \o Flatten(n_rb(c), LAMBDA rb : XBlock(c, rb))

\* One tile of scale and of bias behind one barrier.
Streamed(c, i) ==
  <<Reserve("gamma", 1), Gather("gamma", <<Tiles(c.gamma, TILE)[i + 1]>>)>>
  \o When(has_bias(c), <<Reserve("beta", 1), Gather("beta", <<Tiles(c.beta, TILE)[i + 1]>>)>>)
  \o <<Barrier, Push("gamma", 1)>>
  \o When(has_bias(c), <<Push("beta", 1)>>)

\* Here the reader makes the constant tiles.
WideReader(c) ==
  <<Reserve("scaler", 1), Fill("scaler", rscale(c)), Push("scaler", 1),
    Reserve("eps", 1), Fill("eps", EPS), Push("eps", 1)>>
  \o Seed(c)
  \o Flatten(n_rb(c), LAMBDA rb :
       XBlock(c, rb) \o When(has_scale(c), Flatten(ctiles(c), LAMBDA i : Streamed(c, i))))

\* Scale and bias are gathered through the view of x: from its first element
\* on, which for a slice is past their own beginning, and in the end past
\* their end.
ThroughX(c, v) ==
  LET lanes == [j \in DOMAIN v |-> IF c.at + j <= Len(v) THEN Lane(v[c.at + j]) ELSE JunkLane]
  IN  Flatten(ctiles(c), LAMBDA i : <<SubSeq(lanes, i * width(c) + 1, (i + 1) * width(c))>>)

GlobalReader(c) ==
  Seed(c) \o XBlock(c, 0)
  \o When(has_scale(c), Block("gamma", ThroughX(c, c.gamma)))
  \o When(has_bias(c), Block("beta", ThroughX(c, c.beta)))

\* Rows of the second operand repeat down the first.
Repeated(c, rb) == c.y[((rb0(c) + rb) % Len(c.y)) + 1]
MulReader(c) ==
  LET n == ctiles(c)
  IN  Seed(c)
      \o Flatten(n_rb(c), LAMBDA rb :
           <<Reserve("x", n), Reserve("y", n),
             Gather("x", Tiles(c.x[rb0(c) + rb + 1], TILE)), Gather("y", Tiles(Repeated(c, rb), TILE)),
             Barrier, Push("x", n), Push("y", n)>>)

Writer(c) ==
  Flatten(n_rb(c) * ctiles(c),
    LAMBDA i : <<Wait("out", 1), Scatter("out", rb0(c) * ctiles(c) + i), Pop("out", 1)>>)

-----------------------------------------------------------------------------
\* Computing.  cast is how a row's statistic reaches its lanes, red how it is
\* gathered from them.
Constants(c) ==
  <<Emit("zero", 1, <<Const(0)>>), Emit("eps", 1, <<Const(EPS)>>),
    Emit("scaler", 1, <<Const(rscale(c))>>), Wait("scaler", 1), Wait("eps", 1)>>

RootOf(stat) ==
  <<Wait(stat, 1),
    Emit("rstd", 1, <<Op("add", "tiles", one(stat), one("eps")), RSQRT>>), Pop(stat, 1)>>

SquareSum(src, n, red, stat) ==
  <<Emit("sq", n, <<Op("mul", "tiles", each(src), each(src))>>),
    Wait("sq", n), Emit(stat, 1, <<Sum(red, "sq", n)>>), Pop("sq", n)>>

Scaled(src, n, cast, dst) ==
  <<Wait("rstd", 1), Emit(dst, n, <<Op("mul", cast, each(src), one("rstd"))>>)>>

\* x * rsqrt(sum x^2 + eps), then the scale.
RmsRow(c, n, red, stat, cast, lanes) ==
  LET scaled == c.mode = "rms" /\ has_scale(c)
  IN  SquareSum("x", n, red, stat) \o RootOf(stat)
      \o Scaled("x", n, cast, IF scaled THEN "norm" ELSE "out")
      \o <<Pop("rstd", 1), Pop("x", n)>>
      \o When(scaled, <<Wait("norm", n),
           Emit("out", n, <<Op("mul", lanes, each("norm"), each("gamma"))>>), Pop("norm", n)>>)

\* Two passes: the mean, then the squares of the differences.
LayerRow(c, n, red, cast) ==
  <<Emit("mean", 1, <<Sum(red, "x", n)>>), Wait("mean", 1),
    Emit("xmm", n, <<Op("sub", cast, each("x"), one("mean"))>>),
    Pop("mean", 1), Pop("x", n), Wait("xmm", n)>>
  \o SquareSum("xmm", n, red, "var") \o RootOf("var")
  \o Scaled("xmm", n, cast, IF has_scale(c) THEN "norm" ELSE "out")
  \o <<Pop("xmm", n), Pop("rstd", 1)>>

NarrowAffine(n) ==
  <<Wait("norm", n), Emit("tmp", n, <<Op("mul", "rows", each("norm"), each("gamma"))>>),
    Pop("norm", n),
    Wait("tmp", n), Emit("out", n, <<Op("add", "rows", each("tmp"), each("beta"))>>),
    Pop("tmp", n)>>

\* The bias is added to the register the scale left.
GlobalAffine(c, n) ==
  <<Wait("norm", n),
    Emit("out", n, <<Op("mul", "tiles", each("norm"), each("gamma"))>>
                   \o When(has_bias(c), <<Op("add", "dest", DEST, each("beta"))>>)),
    Pop("norm", n)>>

LastPopsKept(c) == When(has_scale(c), <<Pop("gamma", ctiles(c))>>)    \* mutant
LastPops(c) ==
  When(has_scale(c), <<Pop("gamma", ctiles(c))>>) \o When(has_bias(c), <<Pop("beta", ctiles(c))>>)
AffineWaits(c) ==
  When(has_scale(c), <<Wait("gamma", ctiles(c))>>) \o When(has_bias(c), <<Wait("beta", ctiles(c))>>)

NarrowCompute(c) ==
  LET n == ctiles(c)
  IN  Constants(c) \o AffineWaits(c)
      \o Flatten(n_rb(c), LAMBDA rb :
           <<Wait("x", n)>>
           \o IF c.mode = "layer"
              THEN LayerRow(c, n, "row", "cols") \o When(has_scale(c), NarrowAffine(n))
              ELSE RmsRow(c, n, "row", "msq", "cols", "rows"))
      \o LastPops(c)

GlobalCompute(c) ==
  LET n == ctiles(c)
  IN  Constants(c) \o <<Wait("x", n)>> \o AffineWaits(c)
      \o (IF c.mode = "layer"
          THEN LayerRow(c, n, "scalar", "scalar") \o When(has_scale(c), GlobalAffine(c, n))
          ELSE RmsRow(c, n, "scalar", "var", "scalar", "tiles"))
      \o LastPops(c)

\* The product stays resident for both uses.
MulCompute(c) ==
  LET n == ctiles(c)
  IN  Constants(c)
      \o Flatten(n_rb(c), LAMBDA rb :
           <<Wait("x", n), Wait("y", n),
             Emit("prod", n, <<Op("mul", "tiles", each("x"), each("y"))>>),
             Pop("x", n), Pop("y", n), Wait("prod", n)>>
           \o SquareSum("prod", n, "row", "msq") \o RootOf("msq") \o Scaled("prod", n, "cols", "out")
           \o <<Pop("rstd", 1), Pop("prod", n)>>)

-----------------------------------------------------------------------------
\* Wide rows: one tile at a time over the resident row-block.
WideSquares(n) ==
  Flatten(n, LAMBDA i :
    LET square == Op("mul", "tiles", nth("x", i), nth("x", i))
    IN  <<Emit("sq", 1, <<IF i = 0 THEN square ELSE NoInit(square)>>)>>)
  \o <<Wait("sq", n), Emit("msq", 1, <<Sum("row", "sq", n)>>), Pop("sq", n)>>

\* The scale of the previous tile switched the unit to rows.
TimesRstdInitOnce(i) ==    \* mutant
  IF i = 0 THEN Op("mul", "cols", nth("x", i), one("rstd"))
  ELSE NoInit(Op("mul", "cols", nth("x", i), one("rstd")))
TimesRstd(i) == Op("mul", "cols", nth("x", i), one("rstd"))

WideRms(c, n) ==
  LET scaled == c.mode = "rms" /\ has_scale(c)
  IN  RootOf("msq") \o <<Wait("rstd", 1)>>
      \o Flatten(n, LAMBDA i :
           <<Emit(IF scaled THEN "norm" ELSE "out", 1, <<TimesRstd(i)>>)>>
           \o When(scaled, <<Wait("norm", 1), Wait("gamma", 1),
                Emit("out", 1, <<Op("mul", "rows", one("norm"), one("gamma"))>>),
                Pop("norm", 1), Pop("gamma", 1)>>))
      \o <<Pop("rstd", 1), Pop("x", n)>>

\* The variance is the mean square less the square of the mean.
WideVariance(n) ==
  <<Emit("mean", 1, <<Sum("row", "x", n)>>), Wait("mean", 1), Wait("msq", 1),
    Emit("m2", 1, <<Op("mul", "tiles", one("mean"), one("mean"))>>), Wait("m2", 1),
    Emit("var", 1, <<Op("sub", "tiles", one("msq"), one("m2"))>>), Pop("m2", 1), Pop("msq", 1)>>

WideAffine(c) ==
  <<Wait("norm", 1), Wait("gamma", 1)>> \o When(has_bias(c), <<Wait("beta", 1)>>)
  \o <<Emit("tmp", 1, <<Op("mul", "rows", one("norm"), one("gamma"))>>), Pop("norm", 1),
       Wait("tmp", 1), Emit("out", 1, <<Op("add", "rows", one("tmp"), one("beta"))>>),
       Pop("tmp", 1), Pop("gamma", 1)>>
  \o When(has_bias(c), <<Pop("beta", 1)>>)

WideLayer(c, n) ==
  WideVariance(n) \o RootOf("var") \o <<Wait("rstd", 1), Wait("mean", 1)>>
  \o Flatten(n, LAMBDA i :
       <<Emit("xmm", 1, <<Op("sub", "cols", nth("x", i), one("mean"))>>), Wait("xmm", 1),
         Emit(IF has_scale(c) THEN "norm" ELSE "out", 1,
              <<Op("mul", "cols", one("xmm"), one("rstd"))>>), Pop("xmm", 1)>>
       \o When(has_scale(c), WideAffine(c)))
  \o <<Pop("mean", 1), Pop("rstd", 1), Pop("x", n)>>

WideCompute(c) ==
  LET n == ctiles(c)
  IN  <<Emit("zero", 1, <<Const(0)>>), Wait("scaler", 1), Wait("eps", 1)>>
      \o Flatten(n_rb(c), LAMBDA rb :
           <<Wait("x", n)>> \o WideSquares(n)
           \o IF c.mode = "layer" THEN WideLayer(c, n) ELSE WideRms(c, n))

-----------------------------------------------------------------------------
\* Buffer sizes: double-buffered rows, resident rows, streams, single tiles.
TwiceLess(n) == 2 * n - 1    \* mutant
Twice(n) == 2 * n
Sizes(s, n) == [b \in s |-> n]
Along(f, g) == [b \in DOMAIN f \cup DOMAIN g |-> IF b \in DOMAIN f THEN f[b] ELSE g[b]]
Singles == {"scaler", "eps", "zero"}
Stats == {"mean", "msq", "m2", "var", "rstd"}

Capacity(c) ==
  LET n == ctiles(c)
  IN  IF global(c)
      THEN Along(Sizes({"x", "gamma", "beta", "out", "sq", "xmm", "norm", "tmp"}, n),
                 Sizes(Singles \cup {"mean", "var", "rstd"}, 1))
      ELSE Along(CASE c.mode = "mul_l2" ->
                        Along(Sizes({"x", "y", "out"}, Twice(n)), Sizes({"sq", "prod"}, n))
                   [] wide(c) ->
                        Along(Sizes({"x", "sq"}, n),
                              Sizes({"gamma", "beta", "out", "xmm", "norm", "tmp"}, STREAM))
                   [] OTHER ->
                        Along(Sizes({"x", "out"}, Twice(n)),
                              Sizes({"gamma", "beta", "sq", "xmm", "norm", "tmp"}, n)),
                 Along(Sizes(Singles, 1), Sizes(Stats, 2)))

-----------------------------------------------------------------------------
\* The definition of the operation on a row, independent of how it is tiled.
Normed(c, r) ==
  LET n == N(c)
      x == c.x[r + 1]
      y == IF c.y = <<>> THEN [j \in 1 .. n |-> 1] ELSE c.y[(r % Len(c.y)) + 1]
      mean == IF c.mode = "layer" THEN SumFunction(x) \div n ELSE 0
      v(j) == x[j] * y[j] - mean
      squares == SumFunction([j \in 1 .. n |-> v(j) * v(j)])
      spread == squares \div (IF c.mode \in {"rms", "layer"} THEN n ELSE 1)
      scale(j) == IF has_scale(c) THEN c.gamma[j] ELSE 1
  IN  [j \in 1 .. n |->
         LET lane == [n |-> v(j) * scale(j), f |-> <<<<"rsqrt", spread + EPS>>>>]
         IN  IF has_bias(c) THEN Add(lane, Lane(c.beta[j])) ELSE lane]

\* Output tiles of this core: the live lanes of tile i of row r.
Cut(v, w, i) == SubSeq(v, i * w + 1, IF (i + 1) * w < Len(v) THEN (i + 1) * w ELSE Len(v))
Want(c) ==
  LET n == ctiles(c)
  IN  [t \in rb0(c) * n .. (rb0(c) + n_rb(c)) * n - 1 |-> Cut(Normed(c, t \div n), width(c), t % n)]

NormProgram(c) ==
  [cap |-> Capacity(c), lanes |-> width(c), want |-> Want(c), writer |-> Writer(c),
   reader |-> CASE c.mode = "mul_l2" -> MulReader(c) [] global(c) -> GlobalReader(c)
                [] wide(c) -> WideReader(c) [] OTHER -> NarrowReader(c),
   compute |-> CASE c.mode = "mul_l2" -> MulCompute(c) [] global(c) -> GlobalCompute(c)
                 [] wide(c) -> WideCompute(c) [] OTHER -> NarrowCompute(c)]
=============================================================================
