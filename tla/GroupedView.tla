----------------------------- MODULE GroupedView -----------------------------
(***************************************************************************)
(* The device-side GroupedTensorView: output row oR is source row          *)
(* A * (oR / P) + B * (oR % P).  It repeats a block of token rows for      *)
(* every gate group, stretches a weight row over a group's tokens, and     *)
(* scatters packed rows into batch-padded blocks.  Unlike AffineView it    *)
(* keeps nothing from tile to tile: a counter of group and row within the  *)
(* group is seeded at the top row of each tile.  A tile that is verbatim a *)
(* page of the source is read in one transfer.                             *)
(***************************************************************************)
EXTENDS Tiling, FiniteSets

CONSTANT Endpoints   \* [kind, map]: views of a "gather" or a "scatter"

\* A gathered row begins at a face, and where rows are a source row apart they
\* do not overlap.
ASSUME EndpointsAssumption ==
  \A e \in Endpoints :
    /\ e.map.P \in Nat \ {0} /\ e.map.n_otc \in Nat \ {0} /\ e.map.n_otr \in Nat
    /\ e.map.nct \in Nat \ {0} /\ e.map.Cs = e.map.nct * TILE
    /\ {e.map.base, e.map.S_row, e.map.A, e.map.B, e.map.Ro, e.map.Co} \subseteq Nat
    /\ e.map.base % FACE = 0 /\ e.map.S_row % FACE = 0
    /\ e.map.S_row = e.map.Cs => e.map.Co <= e.map.Cs

-----------------------------------------------------------------------------
\* The host's maps.  The output's grid and extent, the operand's geometry.
Pad(x) == ((x + TILE - 1) \div TILE) * TILE
dense(rows, cols) ==
  [base |-> 0, S_row |-> IF rows > 1 THEN Pad(cols) ELSE 0, Cs |-> Pad(cols),
   nct |-> Pad(cols) \div TILE, Ro |-> rows, Co |-> cols,
   n_otr |-> Pad(rows) \div TILE, n_otc |-> Pad(cols) \div TILE]

Grouped(d, P, A, B) ==
  [f \in DOMAIN d \cup {"P", "A", "B"} |->
     IF f \in DOMAIN d THEN d[f] ELSE CASE f = "P" -> P [] f = "A" -> A [] f = "B" -> B]
make_grouped_desc(op, dout, P, A, B) ==
  Grouped([dout EXCEPT !.base = op.base, !.S_row = op.S_row, !.Cs = op.Cs, !.nct = op.nct],
          P, A, B)

\* lerp's token shift over G groups of nt tokens: the current and previous
\* values, the weights (packed, or a tile block apart), and the packed result
\* scattered into blocks of whole tiles.
TokenValues(nt, G, E) == make_grouped_desc(dense(nt, E), dense(G * nt, E), nt, 0, 1)
Weights(nt, G, E, strided) ==
  make_grouped_desc(dense(IF strided THEN G * TILE ELSE G, E), dense(G * nt, E),
                    nt, IF strided THEN TILE ELSE 1, 0)
CanonicalPacked(nt, G, E) == Grouped(dense(G * nt, E), nt, (nt \div TILE) * TILE, 1)  \* mutant
Canonical(nt, G, E) == Grouped(dense(G * nt, E), nt, Pad(nt), 1)

\* The only scatters through a grouped map are lerp's canonical results.
ASSUME ScattersAssumption ==
  \A e \in Endpoints : e.kind = "scatter" =>
    /\ e.map.Co \in Nat \ {0} /\ e.map.Ro \div e.map.P \in Nat \ {0}
    /\ e.map = Canonical(e.map.P, e.map.Ro \div e.map.P, e.map.Co)

-----------------------------------------------------------------------------
VARIABLES m, kind,   \* the endpoint
          otr, otc,  \* output tile coordinate
          pc,        \* "ready", "faces" inside the row loop, "moved" after it
          lr, g, t,  \* row within the tile, its group and its row in the group
          moves      \* transfers issued: <<L1 offset, page, page offset>>

vars == <<m, kind, otr, otc, pc, lr, g, t, moves>>

NTiles == m.n_otr * m.n_otc
Ordinal == otr * m.n_otc + otc

sk(sr, c) == m.base + sr * m.S_row + c
spage(sr, c) == fdiv(fdiv(sk(sr, c), m.Cs), TILE) * m.nct + fmod_(sk(sr, c), m.Cs) \div TILE
soff(sr, c) ==
  f0e(fdiv(sk(sr, c), m.Cs) % TILE) + ((fmod_(sk(sr, c), m.Cs) % TILE) \div FACE) * RIGHT_FACE

TileIsPageAnyPeriod(r0, scol) ==    \* mutant: the period need not be whole tiles
  /\ kind = "gather"
  /\ m.base = 0 /\ m.A = 0 /\ m.B = 1 /\ m.S_row = m.Cs
  /\ (r0 % m.P) % TILE = 0 /\ scol % TILE = 0
  /\ r0 + TILE <= m.Ro /\ scol + TILE <= m.Co
whole_tile_ok(r0, scol) ==
  /\ kind = "gather"
  /\ m.base = 0 /\ m.A = 0 /\ m.B = 1 /\ m.S_row = m.Cs
  /\ m.P % TILE = 0 /\ (r0 % m.P) % TILE = 0 /\ scol % TILE = 0
  /\ r0 + TILE <= m.Ro /\ scol + TILE <= m.Co

\* A page read whole, as its face-rows.
FaceOffsets == {f0e(i) + h * RIGHT_FACE : i \in 0 .. TILE - 1, h \in {0, 1}}
PageMoves(page) == {<<o, page, o>> : o \in FaceOffsets}

\* The live face-rows of row i, moved from or to source row sr.
RowMoves(i, sr) ==
  {<<f0e(i) + h * RIGHT_FACE, spage(sr, otc * TILE + h * FACE), soff(sr, otc * TILE + h * FACE)>> :
     h \in {x \in {0, 1} : otr * TILE + i < m.Ro /\ otc * TILE + x * FACE < m.Co}}

-----------------------------------------------------------------------------
Init ==
  /\ \E e \in Endpoints : m = e.map /\ kind = e.kind
  /\ \E t0 \in 0 .. NTiles - 1 : otr = t0 \div m.n_otc /\ otc = t0 % m.n_otc
  /\ pc = "ready" /\ lr = 0 /\ g = 0 /\ t = 0 /\ moves = {}

Reset(t0) ==
  /\ pc = "ready"
  /\ otr' = t0 \div m.n_otc /\ otc' = t0 % m.n_otc
  /\ UNCHANGED <<m, kind, pc, lr, g, t, moves>>

GatherPage ==
  /\ pc = "ready" /\ Ordinal < NTiles
  /\ whole_tile_ok(otr * TILE, otc * TILE)
  /\ moves' = PageMoves(spage((otr * TILE) % m.P, otc * TILE))
  /\ pc' = "moved"
  /\ UNCHANGED <<m, kind, otr, otc, lr, g, t>>

BeginTile ==
  /\ pc = "ready" /\ Ordinal < NTiles
  /\ ~whole_tile_ok(otr * TILE, otc * TILE)
  /\ pc' = "faces"
  /\ lr' = 0 /\ g' = (otr * TILE) \div m.P /\ t' = (otr * TILE) % m.P
  /\ UNCHANGED <<m, kind, otr, otc, moves>>

WrapLate == t = m.P       \* mutant: the counter wraps one row late
GroupEnds == t + 1 = m.P

FaceRow ==
  /\ pc = "faces"
  /\ moves' = moves \cup RowMoves(lr, m.A * g + m.B * t)
  /\ t' = IF GroupEnds THEN 0 ELSE t + 1
  /\ g' = IF GroupEnds THEN g + 1 ELSE g
  /\ lr' = lr + 1
  /\ pc' = IF lr + 1 = TILE THEN "moved" ELSE "faces"
  /\ UNCHANGED <<m, kind, otr, otc>>

LastColumnLate == otc = m.n_otc    \* mutant
LastColumn == otc + 1 = m.n_otc

Advance ==
  /\ pc = "moved"
  /\ otc' = IF LastColumn THEN 0 ELSE otc + 1
  /\ otr' = IF LastColumn THEN otr + 1 ELSE otr
  /\ pc' = "ready" /\ moves' = {} /\ lr' = 0 /\ g' = 0 /\ t' = 0
  /\ UNCHANGED <<m, kind>>

Next == (\E t0 \in 0 .. NTiles - 1 : Reset(t0)) \/ GatherPage \/ BeginTile \/ FaceRow \/ Advance

Spec == Init /\ [][Next]_vars

-----------------------------------------------------------------------------
\* The two-level row map itself.
source_row(oR) == m.A * (oR \div m.P) + m.B * (oR % m.P)

\* The live face-rows of the first n rows of output tile (tr, tc), each at the
\* place that dividing its first element's index gives.
Place(row, col) ==
  LET k == m.base + source_row(row) * m.S_row + col
  IN  <<((k \div m.Cs) \div TILE) * m.nct + (k % m.Cs) \div TILE,
        in_page_elt((k \div m.Cs) % TILE, (k % m.Cs) % TILE)>>
Transfer(tr, tc, i, h) ==
  LET p == Place(tr * TILE + i, tc * TILE + h * FACE)
  IN  <<f0e(i) + h * RIGHT_FACE, p[1], p[2]>>
Reference(tr, tc, n) ==
  {Transfer(tr, tc, x[1], x[2]) :
     x \in {y \in (0 .. n - 1) \X {0, 1} :
              tr * TILE + y[1] < m.Ro /\ tc * TILE + y[2] * FACE < m.Co}}

TypeOK ==
  /\ \E e \in Endpoints : m = e.map /\ kind = e.kind
  /\ otr \in Nat /\ otc \in 0 .. m.n_otc - 1
  /\ pc \in {"ready", "faces", "moved"}
  /\ lr \in 0 .. TILE /\ g \in Nat /\ t \in 0 .. m.P - 1

\* The counter is the division of the output row by the period, whichever row
\* of a group a tile starts in and however many groups it spans.
CounterExact == pc = "faces" => g * m.P + t = otr * TILE + lr /\ t < m.P

\* A tile is moved face-row by face-row, or as one page, to the same effect,
\* and from any tile a core starts at: the promised cursor.
Presented ==
  [o \in 0 .. NTiles - 1 |-> Reference(o \div m.n_otc, o % m.n_otc, TILE)]
TileCursor == INSTANCE TileCopy
  WITH tiles <- Presented, pos <- Ordinal,
       moved <- IF pc = "moved" THEN moves ELSE {}
ImplementsTileCopy == TileCursor!Spec

\* No two rows of a scattered result go to the same place, so the cores that
\* write them need no order.
ScatterDisjoint ==
  kind = "scatter" =>
    \A a, b \in (0 .. m.Ro - 1) \X {x \in 0 .. m.Co - 1 : x % FACE = 0} :
      a # b => Place(a[1], a[2]) # Place(b[1], b[2])
=============================================================================
