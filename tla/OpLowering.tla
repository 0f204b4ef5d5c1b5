------------------------------ MODULE OpLowering ------------------------------
(***************************************************************************)
(* What every op of the library decides on the host before a program is    *)
(* built: is the call accepted, and which operation attributes describe    *)
(* it.  The attributes are all that a program factory and the program      *)
(* cache are told of a call but for its tensors.                           *)
(*                                                                         *)
(* A call is [op, views, out, canonical, by_view, eps, mem]: the operands  *)
(* in the op's order (for norms x and then its weights; for get_rows and   *)
(* set_rows the tensor read and then the index), the output or NoOut, are  *)
(* weights given as views, and the memory asked for a new output.          *)
(***************************************************************************)
EXTENDS EltwiseLowering

CONSTANT WideTiles    \* the most tiles across of a row normed in one piece

ASSUME WideTilesAssumption == WideTiles \in Nat

Norms == {"l2_norm", "rms_norm", "layer_norm"}
RowCopies == {"get_rows", "set_rows"}
Eltwise == Binary \cup Elementwise3 \cup {"k_update"}

Bound(call) == \A x \in DOMAIN call.views : call.views[x].bound

-----------------------------------------------------------------------------
\* Norms keep the grid of x; weights are vectors as wide as a row of x.
RowWidth(call) == call.views[1].desc.Co
Affine(call) == Len(call.views) - 1    \* 0 none, 1 scale, 2 scale and bias
MayTake(op) == CASE op = "l2_norm" -> {0} [] op = "rms_norm" -> {0, 1} [] OTHER -> {0, 2}
IsWeight(call, v) ==
  IF call.by_view THEN is_plain_source(v.desc) /\ v.desc.Ro = 1 /\ v.desc.Co = RowWidth(call)
                  ELSE v.rows = 1 /\ v.cols = RowWidth(call)

wide(call) == n_otc(call.views[1].desc) > WideTiles

\* A single wide row of whole squares of tiles is folded into rows of a tile.
Folds(call) ==
  /\ wide(call) /\ call.views[1].desc.Ro = 1
  /\ (RowWidth(call) % (TILE * TILE)) = 0
Folded(d) == linear(d.base, TILE, d.Cs, d.Co \div TILE, TILE)

\* Sums are scaled by 1 or by 1 / N.  1 / N is written N; 1 / sqrt(N), for the
\* folded reduction that applies its scaler twice, is written -N.
rscale_once(call) == IF call.op = "l2_norm" THEN 1 ELSE RowWidth(call)    \* mutant
rscale(call) ==
  IF call.op = "l2_norm" THEN 1 ELSE IF Folds(call) THEN -RowWidth(call) ELSE RowWidth(call)

-----------------------------------------------------------------------------
\* mul_l2_norm: one operand's rows may repeat over the other's.
can_row_repeat(small, full) ==
  small.Co = full.Co /\ small.Ro > 0 /\ small.Ro < full.Ro /\ (full.Ro % small.Ro) = 0
FullOperand(call) ==
  LET d == Descs(call) IN IF SameGrid(d[1], d[2]) \/ can_row_repeat(d[2], d[1]) THEN 1 ELSE 2
Repeated(d, dout) == IF SameGrid(d, dout) THEN d ELSE make_grouped_desc(d, dout, d.Ro, 0, 1)

\* rk: r_k has the grid of r, or is one token's whole tile rows.
w_bcast(call) == ~SameGrid(Descs(call)[3], Descs(call)[1])
IsTokenGroup(w, r) ==
  /\ w.Co = r.Co /\ n_otr(w) > 0 /\ (n_otr(r) % n_otr(w)) = 0 /\ (w.Ro % TILE) = 0

\* Indexed rows: the pages of the indexed tensor shared among its outer rows.
num_pages(v) == (v.prows \div TILE) * nct(v.desc)
Indexed(call) == IF call.op = "get_rows" THEN call.views[1] ELSE call.out
tiles_per_row(v) == IF (num_pages(v) % v.rows) = 0 THEN num_pages(v) \div v.rows ELSE 0
volume(v) == v.rows * v.cols
RowsMoved(call) == volume(call.views[2])

-----------------------------------------------------------------------------
\* The output is the one given, or a dense one of an operand's shape.
Out(call) ==
  CASE call.op \in Eltwise       -> EltwiseOut(call)
    [] call.op = "mul_l2_norm"   -> OutLike(call, Descs(call)[FullOperand(call)])
    [] call.op = "rk"            -> OutLike(call, Descs(call)[5])
    [] call.op = "get_rows"      -> blocks(RowsMoved(call), call.views[1].cols)
    [] OTHER                     -> OutLike(call, Descs(call)[1])

\* Which calls are accepted, op by op.
NormLowers(call, d, o) ==
  /\ SameGrid(o, d[1]) /\ Affine(call) \in MayTake(call.op)
  /\ \A x \in DOMAIN call.views \ {1} : IsWeight(call, call.views[x])
MulL2Lowers(call, d, o) ==
  /\ SameGrid(d[1], d[2]) \/ can_row_repeat(d[1], d[2]) \/ can_row_repeat(d[2], d[1])
  /\ SameGrid(o, d[FullOperand(call)])
RkLowers(call, d, o) ==
  /\ \A x \in {2, 4, 5} : SameGrid(d[x], d[1])
  /\ w_bcast(call) => IsTokenGroup(d[3], d[1])
  /\ SameGrid(o, d[5])
GetRowsLowers(call) == tiles_per_row(Indexed(call)) # 0
SetRowsLowers(call) ==
  /\ tiles_per_row(Indexed(call)) # 0
  /\ num_pages(call.views[1]) = RowsMoved(call) * tiles_per_row(Indexed(call))

Lowers(call) ==
  LET d == Descs(call)
      o == Out(call).desc
  IN  /\ Bound(call)
      /\ CASE call.op \in Eltwise     -> Accepted(call)
           [] call.op = "realize"     -> SameGrid(o, d[1])
           [] call.op \in Norms       -> NormLowers(call, d, o)
           [] call.op = "mul_l2_norm" -> MulL2Lowers(call, d, o)
           [] call.op = "rk"          -> RkLowers(call, d, o)
           [] call.op = "get_rows"    -> GetRowsLowers(call)
           [] OTHER                   -> SetRowsLowers(call)

-----------------------------------------------------------------------------
\* A bound output's memory, or the memory asked for.
output_memory_config(call, o) == IF o.bound THEN o.mem ELSE call.mem

\* The fields common to the ops that walk views: the map of each operand, the
\* output's map and tile grid, the output tensor's shape and memory.
ViewAttributes(call, ins, dout) ==
  LET o == Out(call)
  IN  [op |-> call.op, ins |-> ins, o |-> dout, n_otr |-> n_otr(dout), n_otc |-> n_otc(dout),
       out_rows |-> o.rows, out_cols |-> o.cols, mem |-> output_memory_config(call, o)]

With(r, s) == [f \in DOMAIN r \cup DOMAIN s |-> IF f \in DOMAIN r THEN r[f] ELSE s[f]]

EltwiseAttributes(call) ==
  LET o == Out(call)
      feed == Feed(call)
      scattered == Scattered(call, o)
  IN  With([ViewAttributes(call, feed.maps, o.desc) EXCEPT
              !.o = scattered,
              !.out_rows = IF scattered.P > 0 THEN WeightRows(call) * scattered.A ELSE @],
           [bcast |-> feed.bcast, tpg |-> feed.tpg,
            canon_G |-> IF call.canonical THEN WeightRows(call) ELSE 0,
            canon_nt |-> IF call.canonical THEN Tokens(call) ELSE 0])

NormAttributes(call) ==
  LET fold(d) == IF Folds(call) THEN Folded(d) ELSE d
  IN  With(ViewAttributes(call, <<fold(call.views[1].desc)>>, fold(Out(call).desc)),
           [rscale |-> rscale(call), eps |-> call.eps, affine |-> Affine(call),
            wide |-> wide(call), global |-> Folds(call)])

MulL2Attributes(call) ==
  LET o == Out(call).desc
  IN  With(ViewAttributes(call, [x \in {1, 2} |-> Repeated(Descs(call)[x], o)], o),
           [rscale |-> 1, eps |-> call.eps])

RkAttributes(call) ==
  With(ViewAttributes(call, Descs(call), Out(call).desc),
       [rscale |-> 1, w_bcast |-> w_bcast(call), rbs_per_group |-> n_otr(Descs(call)[3])])

RowCopyAttributes(call) ==
  LET v == Indexed(call)
  IN  [op |-> call.op, T |-> tiles_per_row(v), work_tiles |-> RowsMoved(call) * tiles_per_row(v),
       idx_pages |-> num_pages(call.views[2]), n_idx_rows |-> v.rows,
       out_rows |-> IF call.op = "get_rows" THEN RowsMoved(call) ELSE 0,
       out_cols |-> IF call.op = "get_rows" THEN v.cols ELSE 0,
       mem |-> IF call.op = "get_rows" THEN call.mem ELSE v.mem]

Attributes(call) ==
  CASE call.op \in Eltwise     -> EltwiseAttributes(call)
    [] call.op \in Norms       -> NormAttributes(call)
    [] call.op = "mul_l2_norm" -> MulL2Attributes(call)
    [] call.op = "rk"          -> RkAttributes(call)
    [] call.op \in RowCopies   -> RowCopyAttributes(call)
    [] OTHER                   -> ViewAttributes(call, Descs(call), Out(call).desc)
=============================================================================
