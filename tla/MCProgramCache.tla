---------------------------- MODULE MCProgramCache ----------------------------
EXTENDS ProgramKernels

Call(o, vs) ==
  [op |-> o, views |-> vs, out |-> NoOut, canonical |-> FALSE, by_view |-> FALSE,
   eps |-> 1, mem |-> "dram"]
Into(c, v) == [c EXCEPT !.out = v]
ByView(c) == [c EXCEPT !.by_view = TRUE]
Canonical(c) == [c EXCEPT !.canonical = TRUE]
InL1(c) == [c EXCEPT !.mem = "l1"]
L1(v) == [v EXCEPT !.mem = "l1"]
T(rows) == tensor(rows, 4)

\* Views that are not their tensor: heads of a flat row, a slice of columns.
Heads(n) == view(linear(0, 4, 4 * n, n, 4), 1, 4 * n, 2)
Columns == view(linear(2, 6, 6, 4, 4), 4, 6, 4)

MCSessions ==
  { \* a relayout in place, elsewhere, and from other memory
    {Into(Call("realize", <<T(4)>>), T(4)), Call("realize", <<T(4)>>),
     InL1(Call("realize", <<T(4)>>))},
    {Call("realize", <<Heads(3)>>), Into(Call("realize", <<T(4)>>), T(2)),
     Into(Call("realize", <<L1(Columns)>>), Columns)},
    \* streamed, one-row and resident operands, with the same specs
    {Call("add", <<T(6), T(2)>>), Call("add", <<T(2), T(6)>>), Call("sub", <<T(6), Heads(6)>>)},
    {Into(Call("mul", <<T(3), T(1)>>), T(3)), Call("mul", <<T(3), T(3)>>),
     Call("add", <<T(4), T(3)>>)},
    {Call("fma", <<T(6), T(1), T(2)>>), Call("fma", <<T(6), T(6), T(2)>>),
     Call("fma", <<T(12), T(4), T(2)>>)},
    \* token shifts: packed, canonical, with weights a block apart
    {Into(Call("lerp", <<T(3), T(3), T(2)>>), of_shape(6, 4)),
     Canonical(Into(Call("lerp", <<T(3), T(3), T(2)>>), of_shape(6, 4))),
     Canonical(Into(Call("lerp", <<T(1), T(1), blocks(2, 4)>>), of_shape(2, 4)))},
    {Canonical(Into(Call("lerp", <<T(2), T(2), T(3)>>), of_shape(6, 4))),
     Call("lerp", <<T(2), T(2), T(2)>>), Canonical(Call("fma", <<T(2), T(2), T(2)>>))},
    {Call("k_update", <<T(6), T(6), T(2)>>), Into(Call("k_update", <<T(6), T(6), T(1)>>), T(6)),
     Call("k_update", <<T(6), T(2), T(2)>>)},
    \* norms: narrow, wide, folded; no weights, a scale, a scale and a bias
    {Call("l2_norm", <<T(6)>>), Call("rms_norm", <<T(6)>>), Call("rms_norm", <<T(6), T(1)>>)},
    {Call("layer_norm", <<Heads(3), T(1), T(1)>>),
     ByView(Call("layer_norm", <<Heads(3), T(1), T(1)>>)),
     Call("layer_norm", <<Heads(3), T(1)>>), Call("rms_norm", <<T(6), T(2)>>)},
    {Call("layer_norm", <<tensor(4, 6), tensor(1, 6), tensor(1, 6)>>),
     Call("l2_norm", <<tensor(3, 6)>>)},
    {Call("rms_norm", <<tensor(1, 8), tensor(1, 8)>>),
     Into(Call("layer_norm", <<tensor(1, 8), tensor(1, 8), tensor(1, 8)>>), tensor(1, 8)),
     Call("l2_norm", <<tensor(2, 8)>>), Call("rms_norm", <<tensor(1, 7)>>)},
    \* mul_l2_norm: the same grid, either operand repeated
    {Call("mul_l2_norm", <<T(6), T(6)>>), Call("mul_l2_norm", <<T(6), T(3)>>),
     Call("mul_l2_norm", <<T(1), T(6)>>), Call("mul_l2_norm", <<T(6), T(4)>>)},
    \* rk: r_k over the whole grid, resident and streamed, a token not whole
    {Call("rk", <<T(6), T(6), T(6), T(6), T(6)>>), Call("rk", <<T(6), T(6), T(2), T(6), T(6)>>),
     Call("rk", <<T(6), T(6), T(5), T(6), T(6)>>)},
    {Call("rk", <<T(12), T(12), T(8), T(12), T(12)>>),
     Call("rk", <<T(12), T(12), T(4), T(12), T(12)>>),
     Call("rk", <<T(18), T(18), T(6), T(18), T(18)>>)},
    \* indexed rows
    {Call("get_rows", <<blocks(3, 4), tensor(1, 2)>>),
     Call("get_rows", <<blocks(3, 4), tensor(1, 5)>>),
     Into(Call("set_rows", <<blocks(2, 4), tensor(1, 2)>>), blocks(3, 4)),
     Into(Call("set_rows", <<blocks(1, 4), tensor(1, 2)>>), blocks(3, 4))} }
=============================================================================
