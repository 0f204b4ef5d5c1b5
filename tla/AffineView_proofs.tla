-------------------------- MODULE AffineView_proofs --------------------------
(***************************************************************************)
(* The odometer of AffineView is exact for every map: proofs, for all      *)
(* values of the constants, of invariants that MCAffineView checks on      *)
(* small ones.                                                             *)
(***************************************************************************)
EXTENDS AffineView, TLAPS

-----------------------------------------------------------------------------
\* Integer division by a positive divisor: the only quotient and remainder.
LEMMA DivModFloor ==
  ASSUME NEW a \in Int, NEW b \in Nat \ {0}
  PROVE  /\ a \div b \in Int /\ a % b \in Int
         /\ a = ((a \div b) * b) + (a % b)
         /\ 0 <= a % b /\ a % b < b
OBVIOUS

LEMMA ProductNat ==
  ASSUME NEW a \in Int, NEW b \in Int, a >= 0, b >= 0
  PROVE  a * b \in Int /\ a * b >= 0
OBVIOUS

LEMMA DivModUnique ==
  ASSUME NEW k \in Int, NEW b \in Nat \ {0}, NEW q \in Int, NEW s \in Int,
         k = q * b + s, 0 <= s, s < b
  PROVE  q = k \div b /\ s = k % b
OBVIOUS

-----------------------------------------------------------------------------
\* The corrected C division of the code is the floored one.
LEMMA FdivFmod ==
  ASSUME NEW a \in Int, NEW b \in Nat \ {0}
  PROVE  /\ fdiv(a, b) \in Int /\ fmod_(a, b) \in Int
         /\ a = fdiv(a, b) * b + fmod_(a, b)
         /\ 0 <= fmod_(a, b) /\ fmod_(a, b) < b
<1>1. CASE a >= 0
  BY <1>1, DivModFloor DEF fdiv, fmod_, TruncDiv
<1>2. CASE a < 0
  BY <1>2, DivModFloor, -a \in Int DEF fdiv, fmod_, TruncDiv
<1> QED BY <1>1, <1>2

LEMMA Distribute ==
  ASSUME NEW a \in Int, NEW b \in Int, NEW n \in Int
  PROVE  /\ (a + b) * n = a * n + b * n
         /\ (a + 1 + b) * n = a * n + n + b * n
         /\ a * n \in Int
OBVIOUS

\* One carry adds an increment to a source coordinate and keeps the column
\* in range.
LEMMA CarryAdds ==
  ASSUME m \in AffineMap,
         NEW row \in Int, NEW col \in Int, 0 <= col, col < m.Cs,
         NEW d, d[1] \in Int, d[2] \in Int, 0 <= d[2], d[2] < m.Cs
  PROVE  /\ Carry(row, col, d)[1] \in Int
         /\ Carry(row, col, d)[2] \in Int
         /\ Carry(row, col, d)[1] * m.Cs + Carry(row, col, d)[2]
              = (row * m.Cs + col) + (d[1] * m.Cs + d[2])
         /\ 0 <= Carry(row, col, d)[2] /\ Carry(row, col, d)[2] < m.Cs
<1> DEFINE d1 == d[1]
           d2 == d[2]
           w == m.Cs
<1>1. w \in Nat \ {0} /\ d1 \in Int /\ d2 \in Int /\ 0 <= d2 /\ d2 < w
  BY DEF AffineMap
<1>2. Carry(row, col, d) = IF col + d2 >= w THEN <<row + 1 + d1, col + d2 - w>>
                                           ELSE <<row + d1, col + d2>>
  BY DEF Carry
<1>3. 0 <= col /\ col < w
  OBVIOUS
<1> HIDE DEF d1, d2, w
<1>4. (row + 1 + d1) * w = row * w + w + d1 * w /\ (row + d1) * w = row * w + d1 * w
  BY <1>1, Distribute
<1>5. row * w \in Int /\ d1 * w \in Int
  BY <1>1, Distribute
<1>6. CASE col + d2 >= w
  BY <1>1, <1>2, <1>3, <1>4, <1>5, <1>6 DEF d1, d2, w
<1>7. CASE ~(col + d2 >= w)
  BY <1>1, <1>2, <1>3, <1>4, <1>5, <1>7 DEF d1, d2, w
<1> QED BY <1>6, <1>7

\* An increment is the split of the element distance it stands for.
LEMMA SplitExact ==
  ASSUME m \in AffineMap, NEW dk \in Int
  PROVE  /\ Split(dk)[1] \in Int /\ Split(dk)[2] \in Int
         /\ Split(dk)[1] * m.Cs + Split(dk)[2] = dk
         /\ 0 <= Split(dk)[2] /\ Split(dk)[2] < m.Cs
<1>1. m.Cs \in Nat \ {0}
  BY DEF AffineMap
<1> QED BY <1>1, FdivFmod DEF Split

-----------------------------------------------------------------------------
(***************************************************************************)
(* The inductive invariant.  CursorExact alone is not inductive: an        *)
(* Advance needs the types of the map, a FaceRow the row coordinate, and   *)
(* the transfers of a row need the row coordinate to be the quotient and   *)
(* remainder that the reference divides out.                               *)
(***************************************************************************)
CursorInv ==
  /\ m \in Maps
  /\ otr \in Nat /\ otc \in 0 .. m.n_otc - 1
  /\ sr \in Int /\ sc \in Int
  /\ pc \in {"ready", "faces", "moved"}
  /\ lr \in 0 .. TILE /\ r \in Int /\ c \in Int
  /\ pc = "faces" => lr \in 0 .. TILE - 1
  /\ CursorExact
  /\ RowCursorExact

\* A reset lands on the affine map at the tile's origin.
LEMMA SeedExact ==
  ASSUME m \in Maps, NEW t0 \in Nat
  PROVE  /\ SeedAt(t0).otr \in Nat
         /\ SeedAt(t0).otc \in 0 .. m.n_otc - 1
         /\ SeedAt(t0).otr * m.n_otc + SeedAt(t0).otc = t0
         /\ SeedAt(t0).sr \in Int /\ SeedAt(t0).sc \in Int
         /\ SeedAt(t0).sr * m.Cs + SeedAt(t0).sc
              = K(SeedAt(t0).otr * TILE, SeedAt(t0).otc * TILE)
         /\ 0 <= SeedAt(t0).sc /\ SeedAt(t0).sc < m.Cs
<1> DEFINE n == m.n_otc
           q == t0 \div n
           s == t0 % n
           row == q * TILE
           k == m.base + row * m.S_row + s * TILE
<1>1. /\ m.Cs \in Nat \ {0} /\ n \in Nat \ {0}
      /\ m.base \in Int /\ m.S_row \in Int /\ TILE \in Nat
  BY MapsAssumption, TilingAssumption DEF AffineMap
<1>2. SeedAt(t0) = [otr |-> q, otc |-> s, sr |-> fdiv(k, m.Cs), sc |-> fmod_(k, m.Cs)]
  BY DEF SeedAt
<1>3. K(q * TILE, s * TILE) = k
  BY DEF K
<1> HIDE DEF n
<1>4. /\ q \in Int /\ s \in Int /\ t0 = q * n + s
      /\ 0 <= s /\ s < n
  BY <1>1, DivModFloor
<1> HIDE DEF q, s
<1>5. q >= 0
  <2>1. ASSUME q <= -1 PROVE FALSE
    <3>1. (-1 - q) * n >= 0
      BY <1>1, <1>4, <2>1, ProductNat, -1 - q \in Int
    <3>2. (-1 - q) * n = -n - q * n
      BY <1>1, <1>4
    <3> QED BY <1>1, <1>4, <3>1, <3>2
  <2> QED BY <1>4, <2>1
<1>6. k \in Int
  <2>1. row \in Int /\ s * TILE \in Int
    BY <1>1, <1>4
  <2> HIDE DEF row
  <2>2. row * m.S_row \in Int
    BY <1>1, <2>1, Distribute
  <2> QED BY <1>1, <2>1, <2>2
<1> HIDE DEF k
<1>7. /\ fdiv(k, m.Cs) \in Int /\ fmod_(k, m.Cs) \in Int
      /\ fdiv(k, m.Cs) * m.Cs + fmod_(k, m.Cs) = k
      /\ 0 <= fmod_(k, m.Cs) /\ fmod_(k, m.Cs) < m.Cs
  BY <1>1, <1>6, FdivFmod
<1> QED BY <1>1, <1>2, <1>3, <1>4, <1>5, <1>7 DEF n

THEOREM CursorInit == Init => CursorInv
<1> SUFFICES ASSUME Init PROVE CursorInv
  OBVIOUS
<1>1. m \in Maps /\ m \in AffineMap /\ TILE \in Nat
  BY MapsAssumption, TilingAssumption DEF Init
<1>2. PICK t0 \in 0 .. NTiles - 1 :
        /\ otr = SeedAt(t0).otr /\ otc = SeedAt(t0).otc
        /\ sr = SeedAt(t0).sr /\ sc = SeedAt(t0).sc
  BY DEF Init
<1>3. t0 \in Nat
  BY <1>1 DEF NTiles, AffineMap
<1> QED BY <1>1, <1>2, <1>3, SeedExact DEF Init, CursorInv, CursorExact, RowCursorExact

THEOREM CursorStep == CursorInv /\ [Next]_vars => CursorInv'
<1> SUFFICES ASSUME CursorInv, [Next]_vars PROVE CursorInv'
  OBVIOUS
<1>1. m \in Maps /\ m \in AffineMap /\ TILE \in Nat \ {0} /\ FACE \in Nat \ {0}
  BY MapsAssumption, TilingAssumption DEF CursorInv
<1>2. /\ m.Cs \in Nat \ {0} /\ m.n_otc \in Nat \ {0}
      /\ m.base \in Int /\ m.S_row \in Int
  BY <1>1 DEF AffineMap
<1>3. ASSUME NEW t0 \in 0 .. NTiles - 1, Reset(t0) PROVE CursorInv'
  <2>1. t0 \in Nat
    BY <1>1 DEF NTiles, AffineMap
  <2> QED BY <1>1, <1>3, <2>1, SeedExact
          DEF Reset, CursorInv, CursorExact, RowCursorExact, K
<1>4. CASE BeginTile
  <2>1. K(otr * TILE + 0, otc * TILE) = K(otr * TILE, otc * TILE)
    BY <1>1 DEF CursorInv
  <2> QED BY <1>1, <1>4, <2>1 DEF BeginTile, CursorInv, CursorExact, RowCursorExact, K
<1>5. CASE FaceRow
  <2>1. /\ r \in Int /\ c \in Int /\ 0 <= c /\ c < m.Cs
        /\ r * m.Cs + c = K(otr * TILE + lr, otc * TILE)
        /\ lr \in 0 .. TILE - 1
    BY <1>5 DEF FaceRow, CursorInv, RowCursorExact
  <2>2. /\ d_row[1] \in Int /\ d_row[2] \in Int
        /\ d_row[1] * m.Cs + d_row[2] = m.S_row
        /\ 0 <= d_row[2] /\ d_row[2] < m.Cs
    BY <1>1, <1>2, SplitExact DEF d_row
  <2>3. K(otr * TILE + lr, otc * TILE) + m.S_row = K(otr * TILE + (lr + 1), otc * TILE)
    <3>1. otr * TILE \in Int /\ otc * TILE \in Int /\ lr \in Int
      BY <1>1, <2>1 DEF CursorInv
    <3> DEFINE x == otr * TILE + lr
    <3>2. x \in Int /\ otr * TILE + (lr + 1) = x + 1
      BY <3>1
    <3> HIDE DEF x
    <3> DEFINE S == m.S_row
    <3>s. S \in Int
      BY <1>2
    <3> HIDE DEF S
    <3>3. (x + 1) * S = x * S + S /\ x * S \in Int
      BY <3>s, <3>2, Distribute
    <3>4. K(x, otc * TILE) + m.S_row = K(x + 1, otc * TILE)
      BY <1>2, <3>1, <3>2, <3>3 DEF K, S
    <3> QED BY <3>2, <3>4 DEF x
  <2>4. /\ r' \in Int /\ c' \in Int
        /\ r' * m.Cs + c' = K(otr * TILE + lr, otc * TILE) + m.S_row
        /\ 0 <= c' /\ c' < m.Cs
    BY <1>1, <1>5, <2>1, <2>2, CarryAdds DEF FaceRow
  <2>5. UNCHANGED <<m, otr, otc, sr, sc>> /\ lr' = lr + 1
        /\ pc' = IF lr + 1 = TILE THEN "moved" ELSE "faces"
    BY <1>5 DEF FaceRow
  <2> QED BY <1>1, <2>1, <2>3, <2>4, <2>5
          DEF CursorInv, CursorExact, RowCursorExact, K
<1>6. CASE Advance
  <2>1. /\ otr \in Nat /\ otc \in Int /\ sr \in Int /\ sc \in Int
        /\ sr * m.Cs + sc = K(otr * TILE, otc * TILE) /\ 0 <= sc /\ sc < m.Cs
        /\ otc \in 0 .. m.n_otc - 1
    BY DEF CursorInv, CursorExact
  <2>2. CASE otc + 1 = m.n_otc
    <3>1. TILE * m.S_row - (m.n_otc - 1) * TILE \in Int
      BY <1>1, <1>2
    <3>2. /\ d_trow[1] \in Int /\ d_trow[2] \in Int
          /\ d_trow[1] * m.Cs + d_trow[2] = TILE * m.S_row - (m.n_otc - 1) * TILE
          /\ 0 <= d_trow[2] /\ d_trow[2] < m.Cs
      BY <1>1, <3>1, SplitExact DEF d_trow
    <3>3. K(otr * TILE, otc * TILE) + (TILE * m.S_row - (m.n_otc - 1) * TILE)
            = K((otr + 1) * TILE, 0 * TILE)
      <4>1. m.n_otc - 1 = otc
        BY <1>2, <2>1, <2>2
      <4> DEFINE x == otr * TILE
      <4>2. x \in Int /\ (otr + 1) * TILE = x + TILE /\ otc * TILE \in Int /\ 0 * TILE = 0
        BY <1>1, <2>1
      <4> HIDE DEF x
      <4>3. (x + TILE) * m.S_row = x * m.S_row + TILE * m.S_row
            /\ x * m.S_row \in Int /\ TILE * m.S_row \in Int
        BY <1>1, <1>2, <4>2, Distribute
      <4>4. K(x, otc * TILE) + (TILE * m.S_row - otc * TILE) = K(x + TILE, 0)
        BY <1>2, <4>2, <4>3 DEF K
      <4> QED BY <4>1, <4>2, <4>4 DEF x
    <3>4. /\ sr' \in Int /\ sc' \in Int /\ 0 <= sc' /\ sc' < m.Cs
          /\ sr' * m.Cs + sc' = K((otr + 1) * TILE, 0 * TILE)
      BY <1>1, <1>6, <2>1, <2>2, <3>2, <3>3, CarryAdds DEF Advance, LastColumn
    <3>5. UNCHANGED m /\ otr' = otr + 1 /\ otc' = 0 /\ pc' = "ready"
          /\ lr' = 0 /\ r' = 0 /\ c' = 0
      BY <1>6, <2>2 DEF Advance, LastColumn
    <3>6. K(otr * TILE, otc * TILE)' = K((otr + 1) * TILE, 0 * TILE)
      BY <3>5 DEF K
    <3>7. CursorExact' /\ RowCursorExact'
      BY <3>4, <3>5, <3>6 DEF CursorExact, RowCursorExact
    <3>8. otr' \in Nat /\ otc' \in 0 .. m'.n_otc - 1 /\ lr' \in 0 .. TILE
      BY <1>1, <1>2, <2>1, <3>5
    <3> QED BY <1>1, <3>4, <3>5, <3>7, <3>8 DEF CursorInv
  <2>3. CASE otc + 1 # m.n_otc
    <3>1. /\ d_col[1] \in Int /\ d_col[2] \in Int
          /\ d_col[1] * m.Cs + d_col[2] = TILE
          /\ 0 <= d_col[2] /\ d_col[2] < m.Cs
      BY <1>1, SplitExact DEF d_col
    <3>2. K(otr * TILE, otc * TILE) + TILE = K(otr * TILE, (otc + 1) * TILE)
      <4> DEFINE y == (otr * TILE) * m.S_row
      <4>1. y \in Int /\ (otc + 1) * TILE = otc * TILE + TILE /\ otc * TILE \in Int
        BY <1>1, <1>2, <2>1
      <4> HIDE DEF y
      <4>2. m.base + y + otc * TILE + TILE = m.base + y + (otc + 1) * TILE
        BY <1>1, <1>2, <4>1
      <4> QED BY <4>2 DEF K, y
    <3>3. /\ sr' \in Int /\ sc' \in Int /\ 0 <= sc' /\ sc' < m.Cs
          /\ sr' * m.Cs + sc' = K(otr * TILE, (otc + 1) * TILE)
      BY <1>1, <1>6, <2>1, <2>3, <3>1, <3>2, CarryAdds DEF Advance, LastColumn
    <3>4. UNCHANGED m /\ otr' = otr /\ otc' = otc + 1 /\ pc' = "ready"
          /\ lr' = 0 /\ r' = 0 /\ c' = 0
      BY <1>6, <2>3 DEF Advance, LastColumn
    <3>5. K(otr * TILE, otc * TILE)' = K(otr * TILE, (otc + 1) * TILE)
      BY <3>4 DEF K
    <3>6. CursorExact' /\ RowCursorExact'
      BY <3>3, <3>4, <3>5 DEF CursorExact, RowCursorExact
    <3>7. otr' \in Nat /\ otc' \in 0 .. m'.n_otc - 1 /\ lr' \in 0 .. TILE
      BY <1>1, <1>2, <2>1, <2>3, <3>4
    <3> QED BY <1>1, <3>3, <3>4, <3>6, <3>7 DEF CursorInv
  <2> QED BY <2>2, <2>3
<1>7. CASE UNCHANGED vars
  BY <1>7 DEF vars, CursorInv, CursorExact, RowCursorExact, K
<1> QED BY <1>3, <1>4, <1>5, <1>6, <1>7 DEF Next

\* For every face size and every affine map, the cursor and the row
\* coordinate are exact in every reachable state.
THEOREM OdometerExact == Spec => [](CursorExact /\ RowCursorExact)
<1>1. CursorInv => CursorExact /\ RowCursorExact
  BY DEF CursorInv
<1> QED BY <1>1, CursorInit, CursorStep, PTL DEF Spec

\* Inside the row loop as well, where each_face carries its coordinate on
\* from row to row and from the left face to the right one.
THEOREM RowCursorHolds == Spec => []RowCursorExact
BY OdometerExact, PTL

-----------------------------------------------------------------------------
\* Pages and offsets are integers for any source coordinate.
LEMMA PlaceTyped ==
  ASSUME NEW map \in AffineMap, m = map, NEW row \in Int, NEW col \in Int
  PROVE  vpage(row, col) \in Int /\ voff(row, col) \in Int
<1>1. FACE \in Nat \ {0} /\ TILE \in Nat \ {0} /\ m.nct \in Int
  BY TilingAssumption DEF AffineMap
<1> DEFINE q == row \div TILE
           s == row % TILE
           d == (col % TILE) \div FACE
<1>2. q \in Int /\ col \div TILE \in Int /\ s \in Int /\ col % TILE \in Int
  BY <1>1, DivModFloor
<1>3. s \div FACE \in Int /\ s % FACE \in Int /\ d \in Int
  <2> HIDE DEF s
  <2>1. s \div FACE \in Int /\ s % FACE \in Int
    BY <1>1, <1>2, DivModFloor
  <2>2. d \in Int
    BY <1>1, <1>2, DivModFloor
  <2> QED BY <2>1, <2>2
<1>4. vpage(row, col) \in Int
  <2> HIDE DEF q
  <2>1. q * m.nct \in Int
    BY <1>1, <1>2
  <2> QED BY <1>2, <2>1 DEF vpage, q
<1>5. voff(row, col) \in Int
  <2> DEFINE e == s \div FACE
             f == s % FACE
  <2> HIDE DEF d, e, f
  <2>1. /\ FACE * TILE \in Int /\ FACE * FACE \in Int
    BY <1>1
  <2>2. e * (FACE * TILE) \in Int /\ f * FACE \in Int /\ d * (FACE * FACE) \in Int
    BY <1>1, <1>3, <2>1 DEF e, f
  <2>3. voff(row, col) = (e * (FACE * TILE) + f * FACE) + d * (FACE * FACE)
    BY DEF voff, f0e, RIGHT_FACE, d, e, f
  <2> QED BY <2>2, <2>3
<1> QED BY <1>4, <1>5

TypeInv == CursorInv /\ moves \subseteq Int \X Int \X Int

\* Every variable stays in the range its C type and loop give it.
THEOREM TypesHold == Spec => []TypeOK
<1>1. Init => TypeInv
  BY CursorInit DEF Init, TypeInv
<1>2. TypeInv /\ [Next]_vars => TypeInv'
  <2> SUFFICES ASSUME TypeInv, [Next]_vars PROVE moves' \subseteq Int \X Int \X Int
    BY CursorStep DEF TypeInv
  <2>1. CASE FaceRow
    <3>1. /\ CursorInv /\ m \in AffineMap /\ FACE \in Nat \ {0} /\ TILE = 2 * FACE
          /\ lr \in 0 .. TILE - 1 /\ r \in Int /\ c \in Int
          /\ 0 <= c /\ c < m.Cs /\ m.Cs \in Nat \ {0} /\ m.Cs >= TILE
      BY <2>1, MapsAssumption, TilingAssumption
      DEF TypeInv, CursorInv, FaceRow, RowCursorExact, AffineMap
    <3> DEFINE right == Carry(r, c, <<0, FACE>>)
    <3>2. right[1] \in Int /\ right[2] \in Int
      BY <3>1 DEF Carry
    <3> HIDE DEF right
    <3>3. /\ vpage(r, c) \in Int /\ voff(r, c) \in Int
          /\ vpage(right[1], right[2]) \in Int /\ voff(right[1], right[2]) \in Int
      BY <3>1, <3>2, PlaceTyped
    <3>4. f0e(lr) \in Int /\ f0e(lr) + RIGHT_FACE \in Int
      <4>1. lr \div FACE \in Int /\ lr % FACE \in Int
        BY <3>1, DivModFloor
      <4> QED BY <3>1, <4>1 DEF f0e, RIGHT_FACE
    <3>5. FaceMoves(lr, r, c) \subseteq Int \X Int \X Int
      <4>1. FaceMoves(lr, r, c) \subseteq
              {<<f0e(lr), vpage(r, c), voff(r, c)>>,
               <<f0e(lr) + RIGHT_FACE, vpage(right[1], right[2]), voff(right[1], right[2])>>}
        BY DEF FaceMoves, right
      <4> QED BY <3>3, <3>4, <4>1
    <3> QED BY <2>1, <3>5 DEF TypeInv, FaceRow
  <2> QED BY <2>1 DEF TypeInv, Next, vars, Reset, BeginTile, Advance
<1>3. TypeInv => TypeOK
  BY MapsAssumption DEF TypeInv, CursorInv, TypeOK
<1> QED BY <1>1, <1>2, <1>3, PTL DEF Spec

-----------------------------------------------------------------------------
(***************************************************************************)
(* From the cursor to the transfers: the faces one iteration issues are    *)
(* the reference ones of that row, so the set built up row by row is the   *)
(* reference set of the tile.                                              *)
(***************************************************************************)
RowFaces(tr, tc, i) ==
  {x \in {i} \X {0, 1} :
     tr * TILE + x[1] < m.Ro /\ tc * TILE + x[2] * FACE < m.Co}
RowReference(tr, tc, i) ==
  {ReferenceMove(tr, tc, x[1], x[2]) : x \in RowFaces(tr, tc, i)}

LEMMA ReferenceGrows ==
  ASSUME NEW tr, NEW tc, NEW n \in Nat
  PROVE  Reference(tr, tc, n + 1) = Reference(tr, tc, n) \cup RowReference(tr, tc, n)
<1>1. (0 .. (n + 1) - 1) \X {0, 1} = ((0 .. n - 1) \X {0, 1}) \cup ({n} \X {0, 1})
  <2>1. 0 .. (n + 1) - 1 = (0 .. n - 1) \cup {n}
    OBVIOUS
  <2> QED BY <2>1
<1>2. LiveFaces(tr, tc, n + 1) = LiveFaces(tr, tc, n) \cup RowFaces(tr, tc, n)
  BY <1>1, Zenon DEF LiveFaces, RowFaces
<1> QED BY <1>2, Zenon DEF Reference, RowReference

LEMMA FaceMovesExact ==
  ASSUME CursorInv, pc = "faces"
  PROVE  FaceMoves(lr, r, c) = RowReference(otr, otc, lr)
<1>1. /\ m \in AffineMap /\ m.Cs \in Nat \ {0} /\ m.Cs >= TILE
      /\ TILE = 2 * FACE /\ FACE \in Nat \ {0} /\ TILE \in Nat
      /\ m.base \in Int /\ m.S_row \in Int /\ m.Co \in Nat /\ m.Ro \in Nat
  BY MapsAssumption, TilingAssumption DEF CursorInv, AffineMap
<1>2. /\ r \in Int /\ c \in Int /\ 0 <= c /\ c < m.Cs
      /\ r * m.Cs + c = K(otr * TILE + lr, otc * TILE)
      /\ otr \in Nat /\ otc \in Nat /\ lr \in 0 .. TILE - 1
  BY <1>1 DEF CursorInv, RowCursorExact
<1> DEFINE col == otc * TILE
           oR == otr * TILE + lr
           k0 == K(oR, col + 0 * FACE)
           k1 == K(oR, col + 1 * FACE)
           right == Carry(r, c, <<0, FACE>>)
<1>3. col \in Int /\ oR \in Int /\ col + 0 * FACE = col /\ col + 1 * FACE = col + FACE
  BY <1>1, <1>2
<1>4. oR * m.S_row \in Int
  <2> HIDE DEF oR
  <2> QED BY <1>1, <1>3, Distribute
<1>5. k0 \in Int /\ k1 \in Int /\ k1 = k0 + FACE /\ k0 = r * m.Cs + c
  <2>1. K(oR, col) = r * m.Cs + c
    BY <1>2
  <2> DEFINE z == oR * m.S_row
  <2>2. K(oR, col) = m.base + z + col /\ K(oR, col + FACE) = m.base + z + (col + FACE)
    BY DEF K
  <2>3. k0 = K(oR, col) /\ k1 = K(oR, col + FACE)
    BY <1>3
  <2> HIDE DEF oR, col, k0, k1, z
  <2>4. z \in Int
    BY <1>4 DEF z
  <2> QED BY <1>1, <1>3, <2>1, <2>2, <2>3, <2>4
<1>6. /\ right[1] \in Int /\ right[2] \in Int
      /\ right[1] * m.Cs + right[2] = k1
      /\ 0 <= right[2] /\ right[2] < m.Cs
  <2> DEFINE d == <<0, FACE>>
  <2>1. /\ d[1] \in Int /\ d[2] \in Int /\ 0 <= d[2] /\ d[2] < m.Cs
        /\ d[1] = 0 /\ d[2] = FACE
    BY <1>1
  <2> HIDE DEF d
  <2>2. /\ Carry(r, c, d)[1] \in Int /\ Carry(r, c, d)[2] \in Int
        /\ Carry(r, c, d)[1] * m.Cs + Carry(r, c, d)[2]
             = (r * m.Cs + c) + (d[1] * m.Cs + d[2])
        /\ 0 <= Carry(r, c, d)[2] /\ Carry(r, c, d)[2] < m.Cs
    BY <1>1, <1>2, <2>1, CarryAdds
  <2>3. (r * m.Cs + c) + (d[1] * m.Cs + d[2]) = k1
    BY <1>1, <1>5, <2>1
  <2> QED BY <2>2, <2>3 DEF d
<1> HIDE DEF k0, k1
<1>7. r = k0 \div m.Cs /\ c = k0 % m.Cs
  BY <1>1, <1>2, <1>5, DivModUnique
<1>8. right[1] = k1 \div m.Cs /\ right[2] = k1 % m.Cs
  <2> HIDE DEF right
  <2> QED BY <1>1, <1>5, <1>6, DivModUnique
<1>9. ReferenceMove(otr, otc, lr, 0) = <<f0e(lr), vpage(r, c), voff(r, c)>>
  <2>1. f0e(lr) + 0 * RIGHT_FACE = f0e(lr)
    <3>1. lr \div FACE \in Int /\ lr % FACE \in Int
      BY <1>1, <1>2, DivModFloor
    <3>2. f0e(lr) \in Int
      BY <1>1, <3>1 DEF f0e
    <3> QED BY <1>1, <3>2 DEF RIGHT_FACE
  <2> QED BY <1>7, <2>1 DEF ReferenceMove, k0
<1>10. ReferenceMove(otr, otc, lr, 1)
         = <<f0e(lr) + RIGHT_FACE, vpage(right[1], right[2]), voff(right[1], right[2])>>
  <2>1. 1 * RIGHT_FACE = RIGHT_FACE
    BY <1>1 DEF RIGHT_FACE
  <2> HIDE DEF right
  <2> QED BY <1>8, <2>1 DEF ReferenceMove, k1
<1> HIDE DEF right
<1>11. FaceMoves(lr, r, c) =
         {v \in {ReferenceMove(otr, otc, lr, 0)} : oR < m.Ro /\ col < m.Co}
         \cup {v \in {ReferenceMove(otr, otc, lr, 1)} : oR < m.Ro /\ col + FACE < m.Co}
  BY <1>9, <1>10 DEF FaceMoves, right
<1>12. RowFaces(otr, otc, lr) =
         {x \in {<<lr, 0>>} : oR < m.Ro /\ col < m.Co}
         \cup {x \in {<<lr, 1>>} : oR < m.Ro /\ col + FACE < m.Co}
  <2>1. {lr} \X {0, 1} = {<<lr, 0>>, <<lr, 1>>}
    OBVIOUS
  <2>2. <<lr, 0>>[1] = lr /\ <<lr, 0>>[2] = 0 /\ <<lr, 1>>[1] = lr /\ <<lr, 1>>[2] = 1
    OBVIOUS
  <2> QED BY <1>3, <2>1, <2>2 DEF RowFaces
<1> DEFINE L == oR < m.Ro /\ col < m.Co
           R == oR < m.Ro /\ col + FACE < m.Co
           M(h) == ReferenceMove(otr, otc, lr, h)
<1>13. FaceMoves(lr, r, c) = {v \in {M(0)} : L} \cup {v \in {M(1)} : R}
  BY <1>11
<1>14. RowFaces(otr, otc, lr) = {x \in {<<lr, 0>>} : L} \cup {x \in {<<lr, 1>>} : R}
  BY <1>12
<1>15. RowReference(otr, otc, lr) =
         {ReferenceMove(otr, otc, x[1], x[2]) : x \in RowFaces(otr, otc, lr)}
  BY DEF RowReference
<1>16. ReferenceMove(otr, otc, <<lr, 0>>[1], <<lr, 0>>[2]) = M(0)
       /\ ReferenceMove(otr, otc, <<lr, 1>>[1], <<lr, 1>>[2]) = M(1)
  OBVIOUS
<1> HIDE DEF L, R, M
<1> QED BY <1>13, <1>14, <1>15, <1>16, Zenon

-----------------------------------------------------------------------------
\* The cursor invariant with the transfers, and the fact that only tiles of
\* the grid are walked.
ViewInv == CursorInv /\ MovesExact /\ (pc # "ready" => Ordinal < NTiles)

\* The reference is a function of the map and the tile only.
LEMMA ReferenceStable ==
  ASSUME UNCHANGED m, NEW tr, NEW tc, NEW n
  PROVE  Reference(tr, tc, n)' = Reference(tr, tc, n)
BY DEF Reference, LiveFaces, ReferenceMove, K, vpage, voff

LEMMA ReferenceEmpty ==
  ASSUME NEW tr, NEW tc
  PROVE  Reference(tr, tc, 0) = {}
<1>1. LiveFaces(tr, tc, 0) = {}
  BY DEF LiveFaces
<1> QED BY <1>1, Zenon DEF Reference

THEOREM ViewInit == Init => ViewInv
BY CursorInit DEF Init, ViewInv, MovesExact

THEOREM ViewStep == ViewInv /\ [Next]_vars => ViewInv'
<1> SUFFICES ASSUME ViewInv, [Next]_vars PROVE ViewInv'
  OBVIOUS
<1>1. CursorInv /\ CursorInv'
  BY CursorStep DEF ViewInv
<1>2. TILE \in Nat \ {0} /\ m \in AffineMap
  BY <1>1, MapsAssumption, TilingAssumption DEF CursorInv
<1>3. ASSUME NEW t0 \in 0 .. NTiles - 1, Reset(t0) PROVE ViewInv'
  BY <1>1, <1>3 DEF Reset, ViewInv, MovesExact
<1>4. CASE BeginTile
  <2>1. moves' = {} /\ lr' = 0 /\ pc' = "faces" /\ UNCHANGED <<m, otr, otc>>
    BY <1>4 DEF BeginTile, ViewInv, MovesExact
  <2>2. Reference(otr, otc, lr)' = {}
    BY <2>1, ReferenceEmpty, ReferenceStable
  <2>3. (Ordinal < NTiles)'
    BY <1>4, <2>1 DEF BeginTile, Ordinal, NTiles
  <2> QED BY <1>1, <2>1, <2>2, <2>3 DEF ViewInv, MovesExact
<1>5. CASE FaceRow
  <2>1. /\ pc = "faces" /\ lr \in Nat /\ lr' = lr + 1
        /\ moves' = moves \cup FaceMoves(lr, r, c)
        /\ pc' = IF lr + 1 = TILE THEN "moved" ELSE "faces"
        /\ UNCHANGED <<m, otr, otc>>
    BY <1>1, <1>2, <1>5 DEF FaceRow, CursorInv
  <2>2. moves = Reference(otr, otc, lr)
    BY <2>1 DEF ViewInv, MovesExact
  <2>3. moves' = Reference(otr, otc, lr + 1)
    BY <1>1, <2>1, <2>2, FaceMovesExact, ReferenceGrows
  <2>4. Reference(otr, otc, lr + 1) = Reference(otr, otc, lr)'
    BY <2>1 DEF Reference, LiveFaces, ReferenceMove, K, vpage, voff
  <2>5. pc' = "moved" => Reference(otr, otc, lr + 1) = Reference(otr, otc, TILE)'
    BY <2>1 DEF Reference, LiveFaces, ReferenceMove, K, vpage, voff
  <2>6. (Ordinal < NTiles)'
    BY <2>1 DEF Ordinal, NTiles, ViewInv
  <2> QED BY <1>1, <2>1, <2>3, <2>4, <2>5, <2>6 DEF ViewInv, MovesExact
<1>6. CASE Advance
  BY <1>1, <1>6 DEF Advance, LastColumn, ViewInv, MovesExact
<1>7. CASE UNCHANGED vars
  BY <1>1, <1>7 DEF vars, ViewInv, MovesExact, Ordinal, NTiles, Reference,
     LiveFaces, ReferenceMove, K, vpage, voff
<1> QED BY <1>3, <1>4, <1>5, <1>6, <1>7 DEF Next

\* Whatever the map, a transferred tile consists of exactly its live
\* face-rows, each at the page and offset the affine map divides out to.
THEOREM TransfersExact == Spec => []MovesExact
<1>1. ViewInv => MovesExact
  BY DEF ViewInv
<1> QED BY <1>1, ViewInit, ViewStep, PTL DEF Spec

-----------------------------------------------------------------------------
\* The tile coordinate is the split of the tile ordinal.
LEMMA OrdinalSplit ==
  ASSUME CursorInv
  PROVE  /\ Ordinal \in Nat
         /\ otr = Ordinal \div m.n_otc /\ otc = Ordinal % m.n_otc
<1>1. m.n_otc \in Nat \ {0} /\ otr \in Nat /\ otc \in 0 .. m.n_otc - 1
  BY MapsAssumption DEF CursorInv, AffineMap
<1> DEFINE n == m.n_otc
<1> HIDE DEF n
<1>2. otr * n \in Nat
  BY <1>1, ProductNat DEF n
<1>3. Ordinal = otr * n + otc /\ Ordinal \in Nat
  BY <1>1, <1>2 DEF n, Ordinal
<1> QED BY <1>1, <1>3, DivModUnique DEF n

\* The odometer implements the tile cursor: every behaviour of AffineView is
\* one of TileCopy over the tiles the affine map presents.
THEOREM ViewImplementsTileCopy == Spec => ImplementsTileCopy
<1> DEFINE done == IF pc = "moved" THEN moves ELSE {}
<1>1. ASSUME Init PROVE TileCursor!Init
  <2>1. CursorInv
    BY <1>1, CursorInit
  <2>2. PICK t0 \in 0 .. NTiles - 1 : otr = SeedAt(t0).otr /\ otc = SeedAt(t0).otc
    BY <1>1 DEF Init
  <2>3. m \in Maps /\ m \in AffineMap /\ t0 \in Nat
    BY <1>1, MapsAssumption DEF Init, NTiles, AffineMap
  <2>4. Ordinal = t0
    BY <2>2, <2>3, SeedExact DEF Ordinal
  <2> QED BY <1>1, <2>4 DEF TileCursor!Init, TileCursor!Ordinals, Presented, Init
<1>2. ASSUME ViewInv, [Next]_vars PROVE [TileCursor!Next]_(TileCursor!vars)
  <2>1. /\ CursorInv /\ CursorInv' /\ ViewInv'
        /\ m \in Maps /\ m \in AffineMap /\ TILE \in Nat \ {0}
    BY <1>2, CursorStep, ViewStep, MapsAssumption, TilingAssumption DEF ViewInv, CursorInv
  <2>2. m' = m => Presented' = Presented
    BY DEF Presented, NTiles, Reference, LiveFaces, ReferenceMove, K, vpage, voff
  <2>3. ASSUME NEW t0 \in 0 .. NTiles - 1, Reset(t0)
        PROVE  TileCursor!Next
    <3>1. t0 \in Nat /\ t0 \in DOMAIN Presented
      BY <2>1 DEF NTiles, AffineMap, Presented
    <3>2. /\ otr' = SeedAt(t0).otr /\ otc' = SeedAt(t0).otc /\ m' = m
          /\ pc' = "ready"
      BY <2>3 DEF Reset
    <3>3. Ordinal' = t0
      BY <2>1, <3>1, <3>2, SeedExact DEF Ordinal
    <3>4. TileCursor!Seek(t0)
      BY <2>2, <3>2, <3>3 DEF TileCursor!Seek
    <3> QED BY <3>1, <3>4 DEF TileCursor!Next, TileCursor!Ordinals
  <2>4. ASSUME BeginTile PROVE UNCHANGED TileCursor!vars
    BY <2>2, <2>4 DEF BeginTile, TileCursor!vars, Ordinal
  <2>5. ASSUME FaceRow PROVE TileCursor!Next \/ UNCHANGED TileCursor!vars
    <3>1. m' = m /\ otr' = otr /\ otc' = otc /\ pc = "faces"
      BY <2>5 DEF FaceRow
    <3>2. Ordinal' = Ordinal /\ Presented' = Presented
      BY <2>2, <3>1 DEF Ordinal
    <3>3. CASE pc' = "faces"
      BY <3>1, <3>2, <3>3 DEF TileCursor!vars
    <3>4. CASE pc' = "moved"
      <4>1. Ordinal \in 0 .. NTiles - 1 /\ otr = Ordinal \div m.n_otc
            /\ otc = Ordinal % m.n_otc
        <5>1. NTiles \in Int
          BY <2>1 DEF NTiles, AffineMap
        <5> QED BY <1>2, <2>1, <3>1, <5>1, OrdinalSplit DEF ViewInv
      <4>2. moves' = Reference(otr, otc, TILE)
        BY <2>1, <3>1, <3>4, ReferenceStable DEF ViewInv, MovesExact
      <4>3. Presented[Ordinal] = Reference(otr, otc, TILE)
        BY <4>1 DEF Presented
      <4>4. TileCursor!Transfer
        BY <3>1, <3>2, <3>4, <4>1, <4>2, <4>3
           DEF TileCursor!Transfer, TileCursor!Ordinals, Presented
      <4> QED BY <4>4 DEF TileCursor!Next
    <3> QED BY <2>5, <3>3, <3>4 DEF FaceRow
  <2>6. ASSUME Advance PROVE TileCursor!Next
    <3>1. m' = m /\ pc = "moved" /\ pc' = "ready"
      BY <2>6 DEF Advance, LastColumn
    <3>2. Ordinal' = Ordinal + 1
      <4>1. m.n_otc \in Nat \ {0} /\ otr \in Nat /\ otc \in 0 .. m.n_otc - 1
        BY <2>1 DEF CursorInv, AffineMap
      <4>2. CASE otc + 1 = m.n_otc
        <5>1. otc' = 0 /\ otr' = otr + 1
          BY <2>6, <4>2 DEF Advance, LastColumn
        <5>2. (otr + 1) * m.n_otc + 0 = otr * m.n_otc + otc + 1
          BY <4>1, <4>2, Distribute
        <5> QED BY <3>1, <5>1, <5>2 DEF Ordinal
      <4>3. CASE otc + 1 # m.n_otc
        <5>1. otc' = otc + 1 /\ otr' = otr
          BY <2>6, <4>3 DEF Advance, LastColumn
        <5>2. otr * m.n_otc \in Int
          BY <4>1, Distribute
        <5> QED BY <3>1, <4>1, <5>1, <5>2 DEF Ordinal
      <4> QED BY <4>2, <4>3
    <3>3. Ordinal \in 0 .. NTiles - 1 /\ otr = Ordinal \div m.n_otc
          /\ otc = Ordinal % m.n_otc
      <4>1. NTiles \in Int
        BY <2>1 DEF NTiles, AffineMap
      <4> QED BY <1>2, <2>1, <3>1, <4>1, OrdinalSplit DEF ViewInv
    <3>4. Presented[Ordinal] = moves
      BY <1>2, <3>1, <3>3 DEF Presented, ViewInv, MovesExact
    <3>5. TileCursor!Step
      BY <2>2, <3>1, <3>2, <3>4 DEF TileCursor!Step
    <3> QED BY <3>5 DEF TileCursor!Next
  <2>7. ASSUME UNCHANGED vars PROVE UNCHANGED TileCursor!vars
    BY <2>2, <2>7 DEF vars, TileCursor!vars, Ordinal
  <2> QED BY <1>2, <2>3, <2>4, <2>5, <2>6, <2>7 DEF Next
<1> QED BY <1>1, <1>2, ViewInit, ViewStep, PTL
        DEF Spec, ImplementsTileCopy, TileCursor!Spec
=============================================================================
