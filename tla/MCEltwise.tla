----------------------------- MODULE MCEltwise -----------------------------
EXTENDS Eltwise

Call(o, vs) == [op |-> o, views |-> vs, out |-> NoOut, canonical |-> FALSE]
Into(c, v) == [c EXCEPT !.out = v]
T(rows) == tensor(rows, 2)

\* Two operands: as large as the output, one row, a group of two tiles, both
\* resident, a sub-tile repeat (rejected), groups that disagree (rejected), a
\* view of a flat tensor; ragged rows; an output stored to a wider tensor.
Flat == view(linear(0, 4, 24, 6, 4), 1, 24, 2)
Wide == view(linear(4, 8, 8, 6, 4), 6, 8, 6)
MCBinary ==
  {Call("add", <<tensor(6, 4), Flat>>), Call("sub", <<tensor(3, 4), tensor(1, 4)>>),
   Call("add", <<tensor(2, 4), tensor(6, 4)>>), Call("mul", <<tensor(4, 4), tensor(3, 4)>>),
   Into(Call("mul", <<tensor(2, 4), tensor(2, 4)>>), Wide),
   Into(Call("add", <<T(2), T(4)>>), T(8))}

\* Three operands: one resident and one row; k_update with a resident and
\* with a streamed parameter, and with operands that differ (rejected).
MCTernary ==
  {Call("fma", <<T(6), T(1), T(2)>>), Call("lerp", <<T(2), T(4), T(2)>>),
   Into(Call("fma", <<T(2), T(2), T(2)>>), T(6)),
   Call("k_update", <<T(4), T(4), T(2)>>), Call("k_update", <<T(3), T(3), T(1)>>),
   Call("k_update", <<T(4), T(2), T(2)>>)}

\* Token shifts: three tokens in two groups, and one token in two groups whose
\* weights lie a block apart.
MCShift ==
  {Into(Call("lerp", <<T(3), T(3), T(2)>>), of_shape(6, 2)),
   Into(Call("lerp", <<T(1), T(1), blocks(2, 2)>>), of_shape(2, 2))}
MCCalls == MCBinary \cup MCTernary \cup MCShift

\* A row into a reshaped output of one tile row, whose tensor has one row.
MCReshaped ==
  {Into(Call("add", <<tensor(2, 4), tensor(1, 4)>>), view(linear(0, 4, 8, 2, 4), 1, 8, 2))}
=============================================================================
