----------------------------- MODULE AffineView -----------------------------
(***************************************************************************)
(* The device-side AffineTensorView: a cursor over the output tiles of a   *)
(* viewed tensor that keeps the source coordinate (sr, sc) of the tile's   *)
(* top-left element and moves it with precomputed increments, never        *)
(* dividing again after reset.  gather_tile and scatter_tile share one     *)
(* walk over the 2*TILE face-rows of the tile; each live face-row is one   *)
(* transfer between the L1 tile and a page of the viewed tensor.           *)
(***************************************************************************)
EXTENDS Tiling, FiniteSets

CONSTANT Maps    \* the affine maps the view may be constructed from

AffineMap ==
  [base : Int, S_row : Int, Cs : Nat \ {0}, nct : Nat, Ro : Nat, Co : Nat,
   n_otc : Nat \ {0}, n_otr : Nat]

\* Host lowering only builds maps whose source is at least one tile wide.
ASSUME MapsAssumption ==
  /\ Maps \subseteq AffineMap
  /\ \A map \in Maps : map.Cs >= TILE /\ map.nct = map.Cs \div TILE

VARIABLES m,          \* the runtime arguments, fixed at construction
          otr, otc,   \* output tile coordinate
          sr, sc,     \* source coordinate of the tile's top-left element
          pc,         \* "ready", "faces" inside each_face, "moved" after it
          lr,         \* each_face: row within the tile
          r, c,       \* each_face: source coordinate of row lr
          moves       \* transfers issued: <<L1 offset, page, page offset>>

vars == <<m, otr, otc, sr, sc, pc, lr, r, c, moves>>

NTiles == m.n_otr * m.n_otc
Ordinal == otr * m.n_otc + otc

-----------------------------------------------------------------------------
\* The constant increments derived once by the constructor.
Split(dk) == <<fdiv(dk, m.Cs), fmod_(dk, m.Cs)>>
d_row_dense == Split(m.Cs)    \* mutant: every row assumed one source row on
d_row == Split(m.S_row)
d_col == Split(TILE)
d_trow == Split(TILE * m.S_row - (m.n_otc - 1) * TILE)

\* Add an increment to a source coordinate; d[2] < Cs, so one wrap is enough.
CarryNoWrap(row, col, d) == <<row + d[1], col + d[2]>>    \* mutant

Carry(row, col, d) ==
  IF col + d[2] >= m.Cs THEN <<row + 1 + d[1], col + d[2] - m.Cs>>
                        ELSE <<row + d[1], col + d[2]>>

vpage(row, col) == (row \div TILE) * m.nct + (col \div TILE)
voff(row, col) == f0e(row % TILE) + ((col % TILE) \div FACE) * RIGHT_FACE

\* Mutant: the right face's column guard is off by one face.
FaceMovesPad(i, row, col) ==
  LET right == Carry(row, col, <<0, FACE>>)
  IN  {v \in {<<f0e(i), vpage(row, col), voff(row, col)>>,
              <<f0e(i) + RIGHT_FACE, vpage(right[1], right[2]),
                voff(right[1], right[2])>>} :
           otr * TILE + i < m.Ro /\ otc * TILE < m.Co}

\* The transfers of row i of the current tile: its left and its right face,
\* each only where the output is live.
FaceMoves(i, row, col) ==
  LET right == Carry(row, col, <<0, FACE>>)
      live  == otr * TILE + i < m.Ro
  IN  {v \in {<<f0e(i), vpage(row, col), voff(row, col)>>} :
           live /\ otc * TILE < m.Co}
      \cup
      {v \in {<<f0e(i) + RIGHT_FACE, vpage(right[1], right[2]),
                voff(right[1], right[2])>>} :
           live /\ otc * TILE + FACE < m.Co}

-----------------------------------------------------------------------------
\* reset(t0) seeds the cursor with the only two divisions of the walk.
SeedAt(t0) ==
  LET k == m.base + (t0 \div m.n_otc) * TILE * m.S_row + (t0 % m.n_otc) * TILE
  IN  [otr |-> t0 \div m.n_otc, otc |-> t0 % m.n_otc,
       sr |-> fdiv(k, m.Cs), sc |-> fmod_(k, m.Cs)]

Init ==
  /\ m \in Maps
  /\ \E t0 \in 0 .. NTiles - 1 :
       /\ otr = SeedAt(t0).otr /\ otc = SeedAt(t0).otc
       /\ sr = SeedAt(t0).sr /\ sc = SeedAt(t0).sc
  /\ pc = "ready"
  /\ lr = 0 /\ r = 0 /\ c = 0
  /\ moves = {}

\* The owner may rewind to any tile between two transfers.
Reset(t0) ==
  /\ pc = "ready"
  /\ otr' = SeedAt(t0).otr /\ otc' = SeedAt(t0).otc
  /\ sr' = SeedAt(t0).sr /\ sc' = SeedAt(t0).sc
  /\ UNCHANGED <<m, pc, lr, r, c, moves>>

\* gather_tile / scatter_tile enters each_face.
BeginTile ==
  /\ pc = "ready"
  /\ Ordinal < NTiles
  /\ pc' = "faces"
  /\ lr' = 0 /\ r' = sr /\ c' = sc
  /\ UNCHANGED <<m, otr, otc, sr, sc, moves>>

\* One iteration of each_face.
FaceRow ==
  /\ pc = "faces"
  /\ moves' = moves \cup FaceMoves(lr, r, c)
  /\ r' = Carry(r, c, d_row)[1]
  /\ c' = Carry(r, c, d_row)[2]
  /\ lr' = lr + 1
  /\ pc' = IF lr + 1 = TILE THEN "moved" ELSE "faces"
  /\ UNCHANGED <<m, otr, otc, sr, sc>>

LastColumnLate == otc = m.n_otc    \* mutant: wraps one tile late
LastColumn == otc + 1 = m.n_otc

\* advance() to the next tile, wrapping to the next tile row.
Advance ==
  /\ pc = "moved"
  /\ IF LastColumn
       THEN /\ otc' = 0 /\ otr' = otr + 1
            /\ sr' = Carry(sr, sc, d_trow)[1]
            /\ sc' = Carry(sr, sc, d_trow)[2]
       ELSE /\ otc' = otc + 1 /\ otr' = otr
            /\ sr' = Carry(sr, sc, d_col)[1]
            /\ sc' = Carry(sr, sc, d_col)[2]
  /\ pc' = "ready"
  /\ moves' = {}
  /\ lr' = 0 /\ r' = 0 /\ c' = 0
  /\ UNCHANGED m

Next == (\E t0 \in 0 .. NTiles - 1 : Reset(t0)) \/ BeginTile \/ FaceRow \/ Advance

Spec == Init /\ [][Next]_vars

-----------------------------------------------------------------------------
\* The affine map itself, the definition the odometer must agree with.
K(oR, oC) == m.base + oR * m.S_row + oC

\* The transfer of face h of row i of output tile (tr, tc), computed by
\* dividing the element index of its first lane.
ReferenceMove(tr, tc, i, h) ==
  LET k == K(tr * TILE + i, tc * TILE + h * FACE)
  IN  <<f0e(i) + h * RIGHT_FACE, vpage(k \div m.Cs, k % m.Cs),
        voff(k \div m.Cs, k % m.Cs)>>

\* The transfers of the live face-rows of that tile in rows below n.
LiveFaces(tr, tc, n) ==
  {x \in (0 .. n - 1) \X {0, 1} :
     tr * TILE + x[1] < m.Ro /\ tc * TILE + x[2] * FACE < m.Co}
Reference(tr, tc, n) ==
  {ReferenceMove(tr, tc, x[1], x[2]) : x \in LiveFaces(tr, tc, n)}

\* Every variable stays in the range its C type and loop give it.
TypeOK ==
  /\ m \in AffineMap
  /\ otr \in Nat /\ otc \in 0 .. m.n_otc - 1
  /\ sr \in Int /\ sc \in Int
  /\ pc \in {"ready", "faces", "moved"}
  /\ lr \in 0 .. TILE /\ r \in Int /\ c \in Int
  /\ moves \subseteq Int \X Int \X Int

\* After any mix of resets and advances the incrementally kept coordinate is
\* the quotient and remainder of the affine map at the tile's origin, so a
\* core that starts in the middle of the grid, a rewind, and a walk from tile
\* 0 all see the same source.
CursorExact ==
  /\ sr * m.Cs + sc = K(otr * TILE, otc * TILE)
  /\ 0 <= sc /\ sc < m.Cs

\* The same for the row coordinate inside each_face.
RowCursorExact ==
  pc = "faces" =>
    /\ r * m.Cs + c = K(otr * TILE + lr, otc * TILE)
    /\ 0 <= c /\ c < m.Cs

\* What has been transferred for a tile is exactly its live face-rows, each
\* at the page and offset that dividing the affine map gives; no padding
\* face-row is ever touched.
MovesExact ==
  /\ pc = "ready" => moves = {}
  /\ pc = "faces" => moves = Reference(otr, otc, lr)
  /\ pc = "moved" => moves = Reference(otr, otc, TILE)

\* The view implements the tile cursor it promises.
Presented == [t \in 0 .. NTiles - 1 |->
                Reference(t \div m.n_otc, t % m.n_otc, TILE)]
TileCursor == INSTANCE TileCopy
  WITH tiles <- Presented, pos <- Ordinal,
       moved <- IF pc = "moved" THEN moves ELSE {}
ImplementsTileCopy == TileCursor!Spec
=============================================================================
