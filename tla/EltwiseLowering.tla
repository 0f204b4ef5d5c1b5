--------------------------- MODULE EltwiseLowering ---------------------------
(***************************************************************************)
(* The host side of the elementwise ops, up to the device program: views   *)
(* already lowered to row maps, the output's shape, and how each operand   *)
(* is fed to it: streamed, one row replicated, a resident group of tiles,  *)
(* or through lerp's token-shift maps.                                     *)
(*                                                                         *)
(* A map gives output row oR the source row A * (oR / P) + B * (oR % P)    *)
(* when P > 0, and oR otherwise; source row r starts at element            *)
(* base + r * S_row of a source Cs wide.                                   *)
(***************************************************************************)
EXTENDS Integers, Sequences, FiniteSets

CONSTANTS TILE,
          NoOut    \* call.out when the output is left to the op

ASSUME TileAssumption == TILE \in Nat \ {0}

TilesAcross(x) == (x + TILE - 1) \div TILE
padded(x) == TilesAcross(x) * TILE
n_otr(d) == TilesAcross(d.Ro)
n_otc(d) == TilesAcross(d.Co)
out_tiles(d) == n_otr(d) * n_otc(d)
nct(d) == d.Cs \div TILE

linear(base, S_row, Cs, Ro, Co) ==
  [base |-> base, S_row |-> S_row, Cs |-> Cs, Ro |-> Ro, Co |-> Co, P |-> 0, A |-> 0, B |-> 0]
dense(rows, cols) ==
  linear(0, IF rows > 1 THEN padded(cols) ELSE 0, padded(cols), rows, cols)

\* A view: its lowered map, the logical rows and columns of its tensor, the
\* tensor's rows with padding and its memory, and whether there is a tensor.
view(d, rows, cols, prows) ==
  [desc |-> d, rows |-> rows, cols |-> cols, prows |-> prows, mem |-> "dram", bound |-> TRUE]
tensor(rows, cols) == view(dense(rows, cols), rows, cols, padded(rows))
\* A [G, 1, 1, cols] tensor: each row is padded to a block of its own.
blocks(G, cols) == view(dense(G * TILE, cols), G, cols, G * TILE)
of_shape(rows, cols) == [tensor(rows, cols) EXCEPT !.bound = FALSE]

is_plain_source(d) ==
  /\ d.P = 0 /\ d.base = 0 /\ d.Co = d.Cs /\ (d.Co % TILE) = 0
  /\ d.S_row = IF d.Ro <= 1 THEN 0 ELSE d.Cs
is_dense_identity(d) ==
  /\ d.P = 0 /\ d.base = 0 /\ d.S_row = d.Cs /\ d.Co = d.Cs
  /\ (d.Ro % TILE) = 0 /\ (d.Co % TILE) = 0
kind_of(d) ==
  IF d.P # 0 THEN "grouped" ELSE IF is_dense_identity(d) THEN "dense" ELSE "affine"

make_grouped_desc(op, dout, P, A, B) ==
  [dout EXCEPT !.base = op.base, !.S_row = op.S_row, !.Cs = op.Cs,
               !.P = P, !.A = A, !.B = B]

SameGrid(x, y) == x.Ro = y.Ro /\ x.Co = y.Co

-----------------------------------------------------------------------------
\* A call: [op, views, out, canonical].
Binary == {"add", "sub", "mul"}
Elementwise3 == {"fma", "lerp"}
Descs(call) == [x \in DOMAIN call.views |-> call.views[x].desc]

\* Without an output the first operand with the most tiles gives the shape.
Largest(ds) ==
  CHOOSE i \in DOMAIN ds : \A j \in DOMAIN ds :
    \/ out_tiles(ds[i]) > out_tiles(ds[j])
    \/ out_tiles(ds[i]) = out_tiles(ds[j]) /\ i <= j
OutLike(call, d) == IF call.out = NoOut THEN of_shape(d.Ro, d.Co) ELSE call.out
EltwiseOut(call) ==
  OutLike(call, Descs(call)[IF call.op = "k_update" THEN 1 ELSE Largest(Descs(call))])

-----------------------------------------------------------------------------
\* classify_operand(), with the rows of the output's tensor, not of its view.
RowBroadcast(d, rows) == d.Ro = 1 /\ rows > 1
SubTileRepeatMissed(d, rows) == FALSE    \* mutant
SubTileRepeat(d, rows) ==
  is_plain_source(d) /\ d.Ro > 1 /\ d.Ro < rows /\ (d.Ro % TILE) # 0
Resident(d, dout, rows) == ~RowBroadcast(d, rows) /\ out_tiles(d) # out_tiles(dout)
Classified(d, dout, rows) ==
  IF RowBroadcast(d, rows) THEN d.Co = dout.Co
  ELSE /\ ~SubTileRepeat(d, rows)
       /\ Resident(d, dout, rows) =>
            /\ out_tiles(d) > 0 /\ (out_tiles(dout) % out_tiles(d)) = 0
            /\ (d.Ro % TILE) = 0
Widened(d, dout, rows) ==
  IF RowBroadcast(d, rows) THEN [d EXCEPT !.S_row = 0, !.Ro = dout.Ro] ELSE d

Groups(call, o) ==
  {out_tiles(d) : d \in {e \in {Descs(call)[x] : x \in DOMAIN call.views} :
                           Resident(e, o.desc, o.rows)}}

-----------------------------------------------------------------------------
\* lerp over tokens: a and b are [nt, E], the weights [G, E], and the output
\* has G * nt rows, group by group.
Tokens(call) == call.views[1].rows
WeightRows(call) == call.views[3].rows
IsTokenShift(call, o) ==
  /\ call.op = "lerp"
  /\ call.views[2].rows = Tokens(call) /\ Tokens(call) * WeightRows(call) = o.rows
  /\ \A x \in DOMAIN call.views : is_plain_source(call.views[x].desc)

\* Weights may be packed rows or a block of tile rows each.
w_strided(call) == WeightRows(call) > 1 /\ n_otr(call.views[3].desc) = WeightRows(call)
wstride_packed(call) == 1    \* mutant: weights are always packed
wstride(call) ==
  IF w_strided(call) THEN padded(call.views[3].desc.Ro) \div WeightRows(call) ELSE 1
Shifted(call, o) == IsTokenShift(call, o) /\ (Tokens(call) > 1 \/ w_strided(call))
ShiftMaps(call, o) ==
  LET grouped(x, A, B) == make_grouped_desc(call.views[x].desc, o.desc, Tokens(call), A, B)
  IN  <<grouped(1, 0, 1), grouped(2, 0, 1), grouped(3, wstride(call), 0)>>

\* A canonical result is scattered into blocks of whole tile rows, one a group.
Scattered(call, o) ==
  IF call.canonical /\ (Tokens(call) % TILE) # 0
  THEN [o.desc EXCEPT !.P = Tokens(call), !.A = padded(Tokens(call)), !.B = 1]
  ELSE o.desc

Accepted(call) ==
  LET o == EltwiseOut(call)
  IN  /\ \A x \in DOMAIN call.views : call.views[x].bound
      /\ call.op = "k_update" =>
           /\ SameGrid(call.views[1].desc, call.views[2].desc)
           /\ SameGrid(o.desc, call.views[1].desc)
      /\ call.canonical => IsTokenShift(call, o)
      /\ ~Shifted(call, o) =>
           /\ \A x \in DOMAIN call.views : Classified(call.views[x].desc, o.desc, o.rows)
           /\ Cardinality(Groups(call, o)) <= 1

\* How the operands of an accepted call are fed: the map each is walked by,
\* whether it is a resident group, and the tiles in a group.
Feed(call) ==
  LET o == EltwiseOut(call)
      d == o.desc
  IN  IF Shifted(call, o)
      THEN [maps |-> ShiftMaps(call, o), bcast |-> [x \in DOMAIN call.views |-> FALSE],
            tpg |-> out_tiles(d)]
      ELSE [maps |-> [x \in DOMAIN call.views |-> Widened(call.views[x].desc, d, o.rows)],
            bcast |-> [x \in DOMAIN call.views |-> Resident(call.views[x].desc, d, o.rows)],
            tpg |-> IF Groups(call, o) = {} THEN out_tiles(d)
                    ELSE CHOOSE n \in Groups(call, o) : TRUE]

-----------------------------------------------------------------------------
\* What a call means: row r of the output takes row (r / span) % Ro of the
\* operand.  lerp's weights are stretched over the tokens of their group, and
\* a weight's rows are those of its tensor, however far apart they lie.
Meant(call, o, x) ==
  LET v == call.views[x]
      stretched == /\ call.op = "lerp" /\ x = 3
                   /\ call.views[2].rows = Tokens(call) /\ o.desc.Ro = Tokens(call) * v.rows
  IN  [base |-> v.desc.base, Co |-> v.desc.Co,
       S_row |-> v.desc.S_row * (IF stretched THEN v.desc.Ro \div v.rows ELSE 1),
       Ro |-> IF stretched THEN v.rows ELSE v.desc.Ro,
       span |-> IF stretched THEN Tokens(call) ELSE 1]
=============================================================================
