---------------------------- MODULE MCReductions ----------------------------
EXTENDS KernelMachine, RkKernel

\* Rows whose sums and square sums divide by their length, so that means and
\* variances are whole: three (a half-empty tile), four, five and six lanes,
\* and sixteen that fold into four tiles of all their elements.
Rows3 == <<<<1, 4, 7>>, <<2, 2, 8>>, <<1, 1, 4>>>>
Rows4 == <<<<1, 3, 5, 7>>, <<1, 1, 1, 5>>, <<7, 5, 3, 1>>>>
Rows5 == <<<<1, 1, 1, 1, 6>>, <<0, 0, 5, 5, 5>>, <<6, 1, 1, 1, 1>>>>
Rows6 == <<<<1, 1, 3, 1, 3, 3>>, <<2, 2, 2, 2, 2, 8>>, <<3, 1, 1, 3, 1, 3>>>>
Row16 == <<<<1, 3, 3, 1, 3, 1, 1, 3, 1, 1, 3, 3, 3, 3, 1, 1>>>>

Ramp(n, from) == [j \in 1 .. n |-> from + j]
Norm(mode, x, affine) ==
  [mode |-> mode, x |-> x, y |-> <<>>,
   gamma |-> IF affine \in {"scale", "both"} THEN Ramp(Len(x[1]), 1) ELSE <<>>,
   beta |-> IF affine = "both" THEN Ramp(Len(x[1]), 20) ELSE <<>>,
   dense |-> FALSE, folds |-> FALSE, at |-> 0, cores |-> 2, core |-> 0]

MeanFree(x) == <<Norm("l2", x, "none"), Norm("rms", x, "none"), Norm("rms", x, "scale")>>
Layers(x) == <<Norm("layer", x, "none"), Norm("layer", x, "both")>>
Folded(calls) == [i \in DOMAIN calls |-> [calls[i] EXCEPT !.folds = TRUE]]

\* A narrow row that fills its tiles or does not (layer_norm: it does), wide
\* rows, a folded row; whole-page reads; a product with a repeating row.
MCNorms ==
  MeanFree(Rows3) \o MeanFree(Rows4) \o MeanFree(Rows5) \o Layers(Rows4)
  \o Layers(Rows5) \o Layers(Rows6) \o Folded(MeanFree(Row16) \o Layers(Row16))
  \o <<[Norm("rms", Rows4, "scale") EXCEPT !.dense = TRUE],
       [Norm("layer", Rows4, "both") EXCEPT !.core = 1],
       [Norm("mul_l2", Rows3, "none") EXCEPT !.y = <<<<2, 3, 5>>>>]>>

\* r_k as the full grid; a group of two row-blocks used by cores that have
\* three (resident, the second core starting inside a group); a group of
\* three used by cores that have two, one of them rewinding.
MCRows(n, from) == Flatten(n, LAMBDA r : <<<<from + r, from + r + 3, from + 2 * r + 1>>>>)
Rk(rows, group, cores, core) ==
  [x |-> MCRows(rows, 1), k |-> MCRows(rows, 2), w |-> MCRows(group, 1),
   v |-> MCRows(rows, 3), cur |-> MCRows(rows, 10), dense |-> FALSE, folds |-> FALSE, at |-> 0,
   mode |-> "rk", cores |-> cores, core |-> core]
MCRks == <<Rk(2, 2, 1, 0), Rk(6, 2, 2, 0), Rk(6, 2, 2, 1), Rk(6, 3, 4, 1), Rk(6, 3, 4, 3)>>

\* A narrow layer_norm whose rows do not fill their last tile.
MCPadded == <<Norm("layer", Rows3, "none")>>

\* A folded row that is the second half of its tensor's row.
MCSliced == <<[Norm("rms", Row16, "scale") EXCEPT !.folds = TRUE, !.at = 16]>>

Norms(calls) ==
  LET accepted == SelectSeq(calls, NormCall)
  IN  [i \in DOMAIN accepted |-> NormProgram(accepted[i])]
MCPrograms ==
  LET rks == SelectSeq(MCRks, RkCall)
  IN  Norms(MCNorms) \o [i \in DOMAIN rks |-> RkProgram(rks[i])]
PaddedPrograms == Norms(MCPadded)
SlicedPrograms == Norms(MCSliced)
=============================================================================
