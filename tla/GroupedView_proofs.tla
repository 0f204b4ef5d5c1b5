------------------------- MODULE GroupedView_proofs -------------------------
(***************************************************************************)
(* The grouped view's counter is exact for every map and every tile size,  *)
(* a scatter never sends two elements to one place, and the view is the    *)
(* tile cursor it promises: proofs of what MCGroupedView checks on small   *)
(* maps.                                                                   *)
(***************************************************************************)
EXTENDS GroupedView, TLAPS

-----------------------------------------------------------------------------
\* Integer division by a positive divisor: the only quotient and remainder.
LEMMA DivModFloor ==
  ASSUME NEW a \in Int, NEW b \in Nat \ {0}
  PROVE  /\ a \div b \in Int /\ a % b \in Int
         /\ a = ((a \div b) * b) + (a % b)
         /\ 0 <= a % b /\ a % b < b
OBVIOUS

LEMMA ProductNat ==
  ASSUME NEW a \in Int, NEW b \in Int, a >= 0, b >= 0
  PROVE  a * b \in Int /\ a * b >= 0
OBVIOUS

LEMMA DivModUnique ==
  ASSUME NEW k \in Int, NEW b \in Nat \ {0}, NEW q \in Int, NEW s \in Int,
         k = q * b + s, 0 <= s, s < b
  PROVE  q = k \div b /\ s = k % b
OBVIOUS

-----------------------------------------------------------------------------
\* The division that seeds the counter.
LEMMA Division ==
  ASSUME NEW a \in Nat, NEW b \in Nat \ {0}
  PROVE  /\ a \div b \in Nat /\ a % b \in 0 .. b - 1
         /\ (a \div b) * b + (a % b) = a
OBVIOUS

-----------------------------------------------------------------------------
(***************************************************************************)
(* The inductive invariant.  CounterExact alone is not inductive: a        *)
(* FaceRow needs the loop still inside the tile, so that no row is counted *)
(* after the last one, and a BeginTile the types of the map and the tile.  *)
(***************************************************************************)
CounterInv == TypeOK /\ CounterExact /\ (pc = "faces" => lr < TILE)

\* What the endpoints' assumption gives of the map in use.
LEMMA MapTyped ==
  ASSUME NEW e \in Endpoints
  PROVE  e.map.P \in Nat \ {0} /\ e.map.n_otc \in Nat \ {0} /\ e.map.n_otr \in Nat
BY EndpointsAssumption

\* A start tile or a reset lands on a tile of the grid.
LEMMA SeedInGrid ==
  ASSUME NEW e \in Endpoints, NEW t0 \in 0 .. e.map.n_otr * e.map.n_otc - 1
  PROVE  t0 \div e.map.n_otc \in Nat /\ t0 % e.map.n_otc \in 0 .. e.map.n_otc - 1
<1>1. e.map.n_otc \in Nat \ {0} /\ e.map.n_otr * e.map.n_otc \in Int
  BY MapTyped
<1>2. t0 \in Nat
  BY <1>1
<1> QED BY <1>1, <1>2, Division

LEMMA CounterInvInit == Init => CounterInv
<1> SUFFICES ASSUME Init PROVE CounterInv
  OBVIOUS
<1>1. PICK e \in Endpoints : m = e.map /\ kind = e.kind
  BY DEF Init
<1>2. PICK t0 \in 0 .. NTiles - 1 : otr = t0 \div m.n_otc /\ otc = t0 % m.n_otc
  BY DEF Init
<1>3. otr \in Nat /\ otc \in 0 .. m.n_otc - 1
  BY <1>1, <1>2, SeedInGrid DEF NTiles
<1>4. t \in 0 .. m.P - 1 /\ lr \in 0 .. TILE
  BY <1>1, MapTyped, TilingAssumption DEF Init
<1> QED BY <1>1, <1>3, <1>4 DEF Init, CounterInv, TypeOK, CounterExact

LEMMA CounterInvStep == CounterInv /\ [Next]_vars => CounterInv'
<1> SUFFICES ASSUME CounterInv, [Next]_vars PROVE CounterInv'
  OBVIOUS
<1>1. PICK e \in Endpoints : m = e.map /\ kind = e.kind
  BY DEF CounterInv, TypeOK
<1>2. m.P \in Nat \ {0} /\ m.n_otc \in Nat \ {0} /\ TILE \in Nat \ {0}
  BY <1>1, MapTyped, TilingAssumption
<1>3. ASSUME NEW t0 \in 0 .. NTiles - 1, Reset(t0) PROVE CounterInv'
  <2>1. otr' \in Nat /\ otc' \in 0 .. m.n_otc - 1
    BY <1>1, <1>3, SeedInGrid DEF Reset, NTiles
  <2> QED BY <1>3, <2>1 DEF Reset, CounterInv, TypeOK, CounterExact
<1>4. CASE GatherPage
  BY <1>4 DEF GatherPage, CounterInv, TypeOK, CounterExact
<1>5. CASE BeginTile
  <2>1. otr * TILE \in Nat
    BY <1>2 DEF CounterInv, TypeOK
  <2>2. /\ g' \in Nat /\ t' \in 0 .. m.P - 1
        /\ g' * m.P + t' = otr * TILE
    BY <1>2, <1>5, <2>1, Division DEF BeginTile
  <2>3. CounterExact'
    BY <1>2, <1>5, <2>1, <2>2 DEF BeginTile, CounterExact
  <2> QED BY <1>2, <1>5, <2>2, <2>3 DEF BeginTile, CounterInv, TypeOK
<1>6. CASE FaceRow
  <2>1. lr \in 0 .. TILE /\ g \in Nat /\ t \in 0 .. m.P - 1
    BY DEF CounterInv, TypeOK
  <2>2. g * m.P + t = otr * TILE + lr
    BY <1>6 DEF FaceRow, CounterInv, CounterExact
  <2>3. g' \in Nat /\ t' \in 0 .. m.P - 1 /\ g' * m.P + t' = (g * m.P + t) + 1
    <3>1. CASE t + 1 = m.P
      <4>1. (g + 1) * m.P = g * m.P + m.P
        BY <1>2, <2>1
      <4> QED BY <1>2, <1>6, <2>1, <3>1, <4>1 DEF FaceRow, GroupEnds
    <3>2. CASE t + 1 # m.P
      BY <1>2, <1>6, <2>1, <3>2 DEF FaceRow, GroupEnds
    <3> QED BY <3>1, <3>2
  <2> QED
    BY <1>2, <1>6, <2>1, <2>2, <2>3 DEF FaceRow, CounterInv, TypeOK, CounterExact
<1>7. CASE Advance
  BY <1>2, <1>7, LastColumn \in BOOLEAN
    DEF Advance, LastColumn, CounterInv, TypeOK, CounterExact
<1>8. CASE UNCHANGED vars
  BY <1>8 DEF vars, CounterInv, TypeOK, CounterExact
<1> QED BY <1>3, <1>4, <1>5, <1>6, <1>7, <1>8 DEF Next

\* Whatever the period, wherever a core starts and however it is rewound, the
\* counter of group and row is the division of the output row it stands for,
\* and every variable stays in its range.
THEOREM GroupedCounterExact == Spec => [](TypeOK /\ CounterExact)
<1>1. CounterInv => TypeOK /\ CounterExact
  BY DEF CounterInv
<1> QED BY <1>1, CounterInvInit, CounterInvStep, PTL DEF Spec

\* In particular the tile coordinate stays on the grid and the row within a
\* group below the period.
THEOREM TypesHold == Spec => []TypeOK
BY GroupedCounterExact, PTL

-----------------------------------------------------------------------------
(***************************************************************************)
(* Scatters never meet.  Place is a composition of splits of a number into *)
(* quotient and remainder, and each of them can be undone.                 *)
(***************************************************************************)

\* Two splits of one number agree.
LEMMA SplitUnique ==
  ASSUME NEW b \in Nat \ {0},
         NEW q1 \in Int, NEW s1 \in Int, 0 <= s1, s1 < b,
         NEW q2 \in Int, NEW s2 \in Int, 0 <= s2, s2 < b,
         q1 * b + s1 = q2 * b + s2
  PROVE  q1 = q2 /\ s1 = s2
<1> DEFINE k == q1 * b + s1
<1>1. k \in Int /\ k = q1 * b + s1 /\ k = q2 * b + s2
  OBVIOUS
<1> HIDE DEF k
<1>2. q1 = k \div b /\ s1 = k % b
  BY <1>1, DivModUnique
<1>3. q2 = k \div b /\ s2 = k % b
  BY <1>1, DivModUnique
<1> QED BY <1>2, <1>3

\* Numbers with the same quotient and remainder are the same.
LEMMA SplitJoins ==
  ASSUME NEW b \in Nat \ {0}, NEW x \in Int, NEW y \in Int,
         x \div b = y \div b, x % b = y % b
  PROVE  x = y
BY DivModFloor

\* Where a tile keeps the element in row r, column c: the face, the face-row
\* and the place in it, one number in base FACE.
LEMMA InPage ==
  ASSUME NEW r \in 0 .. TILE - 1, NEW c \in 0 .. TILE - 1
  PROVE  /\ r \div FACE \in {0, 1} /\ c \div FACE \in {0, 1}
         /\ r % FACE \in 0 .. FACE - 1 /\ c % FACE \in 0 .. FACE - 1
         /\ in_page_elt(r, c) =
              ((2 * (r \div FACE) + (c \div FACE)) * FACE + (r % FACE)) * FACE + (c % FACE)
<1>1. FACE \in Nat \ {0} /\ TILE = 2 * FACE
  BY TilingAssumption
<1>2. ASSUME NEW x \in 0 .. TILE - 1
      PROVE  x \div FACE \in {0, 1} /\ x % FACE \in 0 .. FACE - 1
  <2>1. /\ x \div FACE \in Int /\ x % FACE \in 0 .. FACE - 1
        /\ x = (x \div FACE) * FACE + (x % FACE)
    BY <1>1, DivModFloor
  <2> DEFINE q == x \div FACE
             s == x % FACE
  <2> HIDE DEF q, s
  <2>2. q \in Int /\ s \in 0 .. FACE - 1 /\ x = q * FACE + s
    BY <2>1 DEF q, s
  <2>3. q >= 0
    <3>1. SUFFICES ASSUME q <= -1 PROVE FALSE
      BY <2>2
    <3>2. (-1 - q) * FACE >= 0 /\ (-1 - q) * FACE = -FACE - q * FACE
      BY <1>1, <2>2, <3>1, ProductNat, -1 - q \in Int
    <3> QED BY <1>1, <2>2, <3>2
  <2>4. q <= 1
    <3>1. SUFFICES ASSUME q >= 2 PROVE FALSE
      BY <2>2
    <3>2. (q - 2) * FACE >= 0 /\ (q - 2) * FACE = q * FACE - 2 * FACE
      BY <1>1, <2>2, <3>1, ProductNat, q - 2 \in Int
    <3> QED BY <1>1, <2>2, <3>2
  <2> QED BY <2>1, <2>2, <2>3, <2>4 DEF q
<1>3. /\ r \div FACE \in {0, 1} /\ r % FACE \in 0 .. FACE - 1
      /\ c \div FACE \in {0, 1} /\ c % FACE \in 0 .. FACE - 1
  BY <1>2
<1> DEFINE qr == r \div FACE
           qc == c \div FACE
           rr == r % FACE
           rc == c % FACE
<1>4. in_page_elt(r, c) = qr * (FACE * TILE) + rr * FACE + qc * (FACE * FACE) + rc
  BY DEF in_page_elt, f0e
<1>5. qr \in {0, 1} /\ qc \in {0, 1} /\ rr \in 0 .. FACE - 1 /\ rc \in 0 .. FACE - 1
  BY <1>3
<1> HIDE DEF qr, qc, rr, rc
<1>6. qr * (FACE * TILE) + rr * FACE + qc * (FACE * FACE) + rc
        = ((2 * qr + qc) * FACE + rr) * FACE + rc
  BY <1>1, <1>5
<1> QED BY <1>3, <1>4, <1>6 DEF qr, qc, rr, rc

LEMMA InPageInjective ==
  ASSUME NEW r1 \in 0 .. TILE - 1, NEW c1 \in 0 .. TILE - 1,
         NEW r2 \in 0 .. TILE - 1, NEW c2 \in 0 .. TILE - 1,
         in_page_elt(r1, c1) = in_page_elt(r2, c2)
  PROVE  r1 = r2 /\ c1 = c2
<1>1. FACE \in Nat \ {0} /\ TILE = 2 * FACE
  BY TilingAssumption
<1> DEFINE f1 == 2 * (r1 \div FACE) + (c1 \div FACE)
           f2 == 2 * (r2 \div FACE) + (c2 \div FACE)
<1>2. f1 \in Int /\ f2 \in Int
  BY InPage
<1>3. (f1 * FACE + (r1 % FACE)) * FACE + (c1 % FACE)
        = (f2 * FACE + (r2 % FACE)) * FACE + (c2 % FACE)
  BY InPage
<1>4. f1 * FACE + (r1 % FACE) = f2 * FACE + (r2 % FACE) /\ c1 % FACE = c2 % FACE
  <2> HIDE DEF f1, f2
  <2>1. /\ f1 * FACE + (r1 % FACE) \in Int /\ f2 * FACE + (r2 % FACE) \in Int
        /\ c1 % FACE \in 0 .. FACE - 1 /\ c2 % FACE \in 0 .. FACE - 1
    BY <1>1, <1>2, InPage
  <2> DEFINE u1 == f1 * FACE + (r1 % FACE)
             u2 == f2 * FACE + (r2 % FACE)
             v1 == c1 % FACE
             v2 == c2 % FACE
  <2>2. /\ u1 \in Int /\ u2 \in Int /\ v1 \in 0 .. FACE - 1 /\ v2 \in 0 .. FACE - 1
        /\ u1 * FACE + v1 = u2 * FACE + v2
    BY <1>3, <2>1
  <2> HIDE DEF u1, u2, v1, v2
  <2>3. u1 = u2 /\ v1 = v2
    BY <1>1, <2>2, SplitUnique
  <2> QED BY <2>3 DEF u1, u2, v1, v2
<1>5. f1 = f2 /\ r1 % FACE = r2 % FACE
  <2> HIDE DEF f1, f2
  <2>1. r1 % FACE \in 0 .. FACE - 1 /\ r2 % FACE \in 0 .. FACE - 1
    BY InPage
  <2> QED BY <1>1, <1>2, <1>4, <2>1, SplitUnique
<1>6. r1 \div FACE = r2 \div FACE /\ c1 \div FACE = c2 \div FACE
  BY <1>5, InPage
<1>7. r1 \in Int /\ r2 \in Int /\ c1 \in Int /\ c2 \in Int
  BY <1>1
<1> QED BY <1>1, <1>4, <1>5, <1>6, <1>7, SplitJoins

\* A page number in a grid nct tiles wide, with its element, names the row and
\* the column they were made from.
LEMMA PlaceInTensor ==
  ASSUME NEW nct \in Nat \ {0},
         NEW s1 \in Nat, NEW s2 \in Nat,
         NEW c1 \in 0 .. nct * TILE - 1, NEW c2 \in 0 .. nct * TILE - 1,
         (s1 \div TILE) * nct + c1 \div TILE = (s2 \div TILE) * nct + c2 \div TILE,
         in_page_elt(s1 % TILE, c1 % TILE) = in_page_elt(s2 % TILE, c2 % TILE)
  PROVE  s1 = s2 /\ c1 = c2
<1>1. TILE \in Nat \ {0} /\ nct * TILE \in Nat
  BY TilingAssumption
<1>2. c1 \in Nat /\ c2 \in Nat
  BY <1>1
<1>3. ASSUME NEW c \in 0 .. nct * TILE - 1 PROVE c \div TILE \in 0 .. nct - 1
  <2>1. c \in Nat /\ c < nct * TILE
    BY <1>1
  <2> DEFINE q == c \div TILE
             s == c % TILE
  <2>2. q \in Nat /\ s \in 0 .. TILE - 1 /\ c = q * TILE + s
    BY <1>1, <2>1, Division
  <2> HIDE DEF q, s
  <2>3. q < nct
    <3>1. SUFFICES ASSUME q >= nct PROVE FALSE
      BY <2>2
    <3>2. (q - nct) * TILE >= 0 /\ (q - nct) * TILE = q * TILE - nct * TILE
      BY <1>1, <2>2, <3>1, ProductNat, q - nct \in Int
    <3> QED BY <1>1, <2>1, <2>2, <3>2
  <2> QED BY <2>2, <2>3 DEF q
<1>4. /\ s1 \div TILE \in Nat /\ s2 \div TILE \in Nat
      /\ s1 % TILE \in 0 .. TILE - 1 /\ s2 % TILE \in 0 .. TILE - 1
      /\ c1 % TILE \in 0 .. TILE - 1 /\ c2 % TILE \in 0 .. TILE - 1
  BY <1>1, <1>2, Division
<1>5. s1 \div TILE = s2 \div TILE /\ c1 \div TILE = c2 \div TILE
  <2> DEFINE a1 == s1 \div TILE
             a2 == s2 \div TILE
             b1 == c1 \div TILE
             b2 == c2 \div TILE
  <2>1. /\ a1 \in Int /\ a2 \in Int /\ b1 \in 0 .. nct - 1 /\ b2 \in 0 .. nct - 1
        /\ a1 * nct + b1 = a2 * nct + b2
    BY <1>3, <1>4
  <2> HIDE DEF a1, a2, b1, b2
  <2>2. a1 = a2 /\ b1 = b2
    BY <2>1, SplitUnique
  <2> QED BY <2>2 DEF a1, a2, b1, b2
<1>6. s1 % TILE = s2 % TILE /\ c1 % TILE = c2 % TILE
  BY <1>4, InPageInjective
<1>7. s1 \in Int /\ s2 \in Int /\ c1 \in Int /\ c2 \in Int
  BY <1>2
<1>8. s1 = s2
  BY <1>1, <1>5, <1>6, <1>7, SplitJoins, Zenon
<1>9. c1 = c2
  BY <1>1, <1>5, <1>6, <1>7, SplitJoins, Zenon
<1> QED BY <1>8, <1>9

\* A scatter goes to a block of A >= P rows for every group of P.
IsScatterMap(d) ==
  /\ d.base = 0 /\ d.A \in Nat /\ d.A >= d.P /\ d.B = 1
  /\ d.nct \in Nat /\ d.Cs = d.nct * TILE
  /\ d.Co \in Nat /\ d.Co <= d.Cs
  /\ d.Ro \in Nat /\ d.S_row \in Nat /\ (d.S_row = d.Cs \/ d.Ro <= 1)

\* A group's block is at least as long as the group, so that output rows go to
\* source rows one to one.
LEMMA RowsApart ==
  ASSUME NEW d, d.P \in Nat \ {0}, d.A \in Nat, d.A >= d.P, d.B = 1,
         NEW x \in Nat, NEW y \in Nat
  PROVE  /\ d.A * (x \div d.P) + d.B * (x % d.P) \in Nat
         /\ d.A * (x \div d.P) + d.B * (x % d.P) = d.A * (y \div d.P) + d.B * (y % d.P)
              => x = y
<1> DEFINE P == d.P
           A == d.A
           qx == x \div d.P
           rx == x % d.P
           qy == y \div d.P
           ry == y % d.P
<1>1. P \in Nat \ {0} /\ A \in Nat \ {0} /\ A >= P
  OBVIOUS
<1>2. /\ qx \in Nat /\ rx \in 0 .. P - 1 /\ x = qx * P + rx
      /\ qy \in Nat /\ ry \in 0 .. P - 1 /\ y = qy * P + ry
  BY Division
<1> HIDE DEF P, A, qx, rx, qy, ry
<1>3. d.B * rx = rx /\ d.B * ry = ry
  BY <1>1, <1>2, d.B = 1
<1>4. A * qx + rx \in Nat
  BY <1>1, <1>2, ProductNat
<1>5. ASSUME A * qx + rx = A * qy + ry PROVE x = y
  <2>1. qx * A + rx = qy * A + ry
    BY <1>1, <1>2, <1>5
  <2>2. /\ qx \in Int /\ rx \in Int /\ 0 <= rx /\ rx < A
        /\ qy \in Int /\ ry \in Int /\ 0 <= ry /\ ry < A
    BY <1>1, <1>2
  <2>3. qx = qy /\ rx = ry
    BY <1>1, <2>1, <2>2, SplitUnique
  <2> QED BY <1>2, <2>3
<1> QED BY <1>3, <1>4, <1>5 DEF P, A, qx, rx, qy, ry

\* Where a scatter's map sends row x, column c.
LEMMA ScatterPlace ==
  ASSUME IsScatterMap(m), m.P \in Nat \ {0}, NEW x \in 0 .. m.Ro - 1, NEW c \in 0 .. m.Co - 1
  PROVE  /\ source_row(x) \in Nat
         /\ Place(x, c) = <<(source_row(x) \div TILE) * m.nct + (c \div TILE),
                            in_page_elt(source_row(x) % TILE, c % TILE)>>
<1>1. /\ m.base = 0 /\ m.A \in Nat /\ m.A >= m.P /\ m.B = 1
      /\ m.Ro \in Nat /\ m.Co \in Nat /\ m.Co <= m.Cs /\ m.nct \in Nat
      /\ m.Cs = m.nct * TILE /\ m.S_row \in Nat /\ (m.S_row = m.Cs \/ m.Ro <= 1)
  BY DEF IsScatterMap
<1>2. x \in Nat /\ c \in Nat /\ c < m.Cs /\ m.Cs \in Nat \ {0}
  BY <1>1, TilingAssumption, m.nct * TILE \in Nat
<1>3. source_row(x) \in Nat
  BY <1>1, <1>2, RowsApart DEF source_row
<1>4. m.base + source_row(x) * m.S_row + c = source_row(x) * m.Cs + c
  <2>1. CASE m.S_row = m.Cs
    BY <1>1, <1>2, <1>3, <2>1
  <2>2. CASE m.Ro <= 1
    <3>1. x = 0
      BY <1>1, <2>2
    <3>2. x \div m.P = 0 /\ x % m.P = 0
      BY <3>1
    <3>3. source_row(x) = 0
      BY <1>1, <3>2 DEF source_row
    <3> QED BY <1>1, <1>2, <3>3
  <2> QED BY <1>1, <2>1, <2>2
<1> DEFINE s == source_row(x)
           k == s * m.Cs + c
<1>5. k \div m.Cs = s /\ k % m.Cs = c
  <2>1. s \in Int /\ m.Cs \in Nat \ {0} /\ c \in Int /\ 0 <= c /\ c < m.Cs /\ k \in Int
    BY <1>2, <1>3
  <2> HIDE DEF s
  <2> QED BY <2>1, DivModUnique
<1> QED BY <1>3, <1>4, <1>5 DEF Place

\* The map lerp builds for a batch-padded output is one.
LEMMA CanonicalScatters ==
  ASSUME NEW nt \in Nat \ {0}, NEW G \in Nat \ {0}, NEW E \in Nat \ {0}
  PROVE  IsScatterMap(Canonical(nt, G, E))
<1>1. TILE \in Nat \ {0}
  BY TilingAssumption
<1>2. ASSUME NEW x \in Nat \ {0}
      PROVE  /\ Pad(x) \in Nat /\ Pad(x) >= x
             /\ Pad(x) \div TILE \in Nat /\ Pad(x) = (Pad(x) \div TILE) * TILE
  <2> DEFINE q == (x + TILE - 1) \div TILE
             s == (x + TILE - 1) % TILE
  <2>1. q \in Nat /\ s \in 0 .. TILE - 1 /\ x + TILE - 1 = q * TILE + s
    <3>1. x + TILE - 1 \in Nat
      BY <1>1
    <3> QED BY <1>1, <3>1, Division
  <2>2. Pad(x) = q * TILE
    BY DEF Pad
  <2> HIDE DEF q, s
  <2>3. q * TILE \in Nat /\ q * TILE >= x
    BY <1>1, <2>1
  <2>4. q = (q * TILE) \div TILE
    BY <1>1, <2>1, <2>3, DivModUnique, q * TILE = q * TILE + 0
  <2> QED BY <2>1, <2>2, <2>3, <2>4
<1>3. G * nt \in Nat
  OBVIOUS
<1> DEFINE d == Canonical(nt, G, E)
<1>4. /\ d.base = 0 /\ d.A = Pad(nt) /\ d.B = 1 /\ d.P = nt
      /\ d.nct = Pad(E) \div TILE /\ d.Cs = Pad(E) /\ d.Co = E
      /\ d.Ro = G * nt /\ d.S_row = (IF G * nt > 1 THEN Pad(E) ELSE 0)
  BY DEF Canonical, Grouped, dense
<1> HIDE DEF d
<1>5. IsScatterMap(d)
  BY <1>2, <1>3, <1>4 DEF IsScatterMap
<1> QED BY <1>5 DEF d

\* No two face-rows of a canonical result go to the same place, for any number
\* of tokens, groups and columns and every tile size: the cores that write
\* lerp's result into a batch-padded tensor need no order.
THEOREM ScattersDisjoint == Spec => []ScatterDisjoint
<1>1. ASSUME TypeOK, kind = "scatter",
             NEW a \in (0 .. m.Ro - 1) \X {x \in 0 .. m.Co - 1 : x % FACE = 0},
             NEW b \in (0 .. m.Ro - 1) \X {x \in 0 .. m.Co - 1 : x % FACE = 0},
             Place(a[1], a[2]) = Place(b[1], b[2])
      PROVE  a = b
  <2>1. PICK e \in Endpoints : m = e.map /\ kind = e.kind
    BY <1>1 DEF TypeOK
  <2>2. IsScatterMap(m) /\ m.P \in Nat \ {0}
    BY <1>1, <2>1, MapTyped, ScattersAssumption, CanonicalScatters
  <2>3. /\ a[1] \in 0 .. m.Ro - 1 /\ a[2] \in 0 .. m.Co - 1
        /\ b[1] \in 0 .. m.Ro - 1 /\ b[2] \in 0 .. m.Co - 1
    OBVIOUS
  <2> DEFINE s1 == source_row(a[1])
             s2 == source_row(b[1])
             c1 == a[2]
             c2 == b[2]
  <2>4. s1 \in Nat /\ s2 \in Nat
    BY <2>2, <2>3, ScatterPlace
  <2>5. /\ (s1 \div TILE) * m.nct + (c1 \div TILE) = (s2 \div TILE) * m.nct + (c2 \div TILE)
        /\ in_page_elt(s1 % TILE, c1 % TILE) = in_page_elt(s2 % TILE, c2 % TILE)
    <3>1. Place(a[1], a[2]) = <<(s1 \div TILE) * m.nct + (c1 \div TILE),
                                in_page_elt(s1 % TILE, c1 % TILE)>>
      BY <2>2, <2>3, ScatterPlace
    <3>2. Place(b[1], b[2]) = <<(s2 \div TILE) * m.nct + (c2 \div TILE),
                                in_page_elt(s2 % TILE, c2 % TILE)>>
      BY <2>2, <2>3, ScatterPlace
    <3> DEFINE p1 == (s1 \div TILE) * m.nct + (c1 \div TILE)
               p2 == (s2 \div TILE) * m.nct + (c2 \div TILE)
               o1 == in_page_elt(s1 % TILE, c1 % TILE)
               o2 == in_page_elt(s2 % TILE, c2 % TILE)
    <3>3. <<p1, o1>> = <<p2, o2>>
      BY <1>1, <3>1, <3>2
    <3> HIDE DEF p1, p2, o1, o2
    <3>4. p1 = p2 /\ o1 = o2
      BY <3>3
    <3> QED BY <3>4 DEF p1, p2, o1, o2
  <2>6. /\ m.nct \in Nat \ {0} /\ m.nct * TILE \in Nat
        /\ c1 \in 0 .. m.nct * TILE - 1 /\ c2 \in 0 .. m.nct * TILE - 1
    <3>1. m.nct \in Nat /\ m.nct * TILE \in Nat /\ m.Co \in Nat /\ m.Co <= m.nct * TILE
      BY <2>2, TilingAssumption DEF IsScatterMap
    <3>2. m.nct # 0
      BY <2>3, <3>1, TilingAssumption
    <3> QED BY <2>3, <3>1, <3>2
  <2>7. s1 = s2 /\ c1 = c2
    <3> HIDE DEF s1, s2, c1, c2
    <3> QED BY <2>4, <2>5, <2>6, PlaceInTensor
  <2>8. a[1] = b[1]
    <3>1. a[1] \in Nat /\ b[1] \in Nat
      BY <2>2, <2>3 DEF IsScatterMap
    <3> QED BY <2>2, <2>7, <3>1, RowsApart DEF IsScatterMap, source_row
  <2> QED BY <2>7, <2>8
<1>2. TypeOK => ScatterDisjoint
  BY <1>1 DEF ScatterDisjoint
<1> QED BY <1>2, TypesHold, PTL


-----------------------------------------------------------------------------
(***************************************************************************)
(* The refinement of TileCopy.  A row's transfers are the reference's      *)
(* because division and the C operators agree on what is not negative, and *)
(* a face's column is always a face boundary of the source.                *)
(***************************************************************************)
SourceTyped ==
  /\ m.nct \in Nat \ {0} /\ m.Cs = m.nct * TILE /\ m.Cs \in Nat \ {0}
  /\ m.base \in Nat /\ m.S_row \in Nat /\ m.A \in Nat /\ m.B \in Nat
  /\ m.Ro \in Nat /\ m.Co \in Nat
  /\ m.base % FACE = 0 /\ m.S_row % FACE = 0
  /\ m.S_row = m.Cs => m.Co <= m.Cs

LEMMA SourceOf == TypeOK => SourceTyped
<1> SUFFICES ASSUME TypeOK PROVE SourceTyped
  OBVIOUS
<1>1. m \in {e.map : e \in Endpoints}
  BY DEF TypeOK
<1>2. m.nct \in Nat \ {0} /\ m.Cs = m.nct * TILE
  BY <1>1, EndpointsAssumption
<1>3. m.Cs \in Nat \ {0}
  <2> DEFINE n == m.nct
  <2>1. n \in Nat \ {0} /\ TILE \in Nat \ {0}
    BY <1>2, TilingAssumption
  <2> HIDE DEF n
  <2>2. n * TILE \in Nat /\ n * TILE >= TILE
    <3>1. (n - 1) * TILE >= 0 /\ (n - 1) * TILE = n * TILE - TILE
      BY <2>1, ProductNat, n - 1 \in Nat
    <3> QED BY <2>1, <3>1
  <2> QED BY <1>2, <2>1, <2>2 DEF n
<1> QED BY <1>1, <1>2, <1>3, EndpointsAssumption DEF SourceTyped

LEMMA DivNat ==
  ASSUME NEW a \in Nat, NEW b \in Nat \ {0}
  PROVE  a \div b \in Nat /\ a % b \in Nat
BY Division

\* On what is not negative fdiv and fmod_ divide.
LEMMA FloorDivides ==
  ASSUME NEW a \in Nat, NEW b \in Nat \ {0}
  PROVE  fdiv(a, b) = a \div b /\ fmod_(a, b) = a % b
<1>1. /\ a \div b \in Int /\ a % b \in Int
      /\ a = ((a \div b) * b) + (a % b) /\ 0 <= a % b
  BY DivModFloor
<1> DEFINE q == a \div b
           s == a % b
<1> HIDE DEF q, s
<1>2. q \in Int /\ s \in Int /\ a - q * b = s /\ 0 <= s
  BY <1>1 DEF q, s
<1>3. TruncDiv(a, b) = q
  BY DEF TruncDiv, q
<1> QED BY <1>2, <1>3 DEF fdiv, fmod_, q, s

\* A multiple of a face keeps to face boundaries within a row and within a tile.
LEMMA FaceAligned ==
  ASSUME NEW k \in Nat, k % FACE = 0, NEW n \in Nat \ {0}, n * TILE \in Nat \ {0}
  PROVE  ((k % (n * TILE)) % TILE) % FACE = 0
<1>1. FACE \in Nat \ {0} /\ TILE = 2 * FACE /\ TILE \in Nat \ {0}
  BY TilingAssumption
<1> DEFINE w == n * TILE
           a == k \div w
           b == k % w
           c == b \div TILE
           x == b % TILE
           q == k \div FACE
           z == q - 2 * n * a - 2 * c
<1>2. a \in Int /\ b \in Int /\ k = a * w + b /\ 0 <= b
  <2> HIDE DEF w
  <2>1. w \in Nat \ {0}
    BY DEF w
  <2> QED BY <2>1, DivModFloor
<1>3. c \in Int /\ x \in Int /\ b = c * TILE + x /\ 0 <= x
  <2> HIDE DEF b
  <2> QED BY <1>1, <1>2, DivModFloor
<1>4. q \in Int /\ k = q * FACE
  BY <1>1, DivModFloor
<1>5. a * w = (2 * n * a) * FACE
  <2> HIDE DEF a
  <2> QED BY <1>1, <1>2
<1>6. c * TILE = (2 * c) * FACE
  <2> HIDE DEF c
  <2> QED BY <1>1, <1>3
<1> HIDE DEF w, a, b, c, x, q
<1>7. z \in Int
  BY <1>2, <1>3, <1>4
<1>8. z * FACE = q * FACE - (2 * n * a) * FACE - (2 * c) * FACE
  <2> DEFINE y == 2 * n * a
  <2>1. y \in Int
    BY <1>2
  <2> HIDE DEF y
  <2>2. (q - y - 2 * c) * FACE = q * FACE - y * FACE - (2 * c) * FACE
    BY <1>1, <1>3, <1>4, <2>1
  <2> QED BY <2>2 DEF y
<1>9. x = z * FACE + 0
  <2> DEFINE y1 == (2 * n * a) * FACE
             y2 == (2 * c) * FACE
             y3 == q * FACE
             y4 == z * FACE
  <2>1. y1 \in Int /\ y2 \in Int /\ y3 \in Int /\ y4 \in Int
    BY <1>1, <1>2, <1>3, <1>4, <1>7
  <2>2. k = y1 + b /\ b = y2 + x /\ k = y3 /\ y4 = y3 - y1 - y2
    BY <1>2, <1>3, <1>4, <1>5, <1>6, <1>8
  <2> HIDE DEF y1, y2, y3, y4, z
  <2>3. x = y4 + 0
    BY <1>2, <1>3, <2>1, <2>2
  <2> QED BY <2>3 DEF y4
<1> HIDE DEF z
<1>10. x % FACE = 0
  BY <1>1, <1>3, <1>7, <1>9, DivModUnique
<1> QED BY <1>10 DEF x, b, w

\* The element index of a face's first element is a multiple of a face.
LEMMA IndexAligned ==
  ASSUME NEW base \in Nat, NEW S \in Nat, NEW s \in Nat, NEW c \in Nat,
         base % FACE = 0, S % FACE = 0, c % FACE = 0
  PROVE  base + s * S + c \in Nat /\ (base + s * S + c) % FACE = 0
<1>1. FACE \in Nat \ {0}
  BY TilingAssumption
<1>a. ASSUME NEW i \in Nat, i % FACE = 0 PROVE \E j \in Int : i = j * FACE
  <2>1. i \div FACE \in Int /\ i = (i \div FACE) * FACE + 0
    BY <1>1, <1>a, DivModFloor
  <2> DEFINE j == i \div FACE
  <2>2. j \in Int /\ i = j * FACE
    BY <1>1, <2>1
  <2> QED BY <2>2
<1>2. PICK x \in Int : base = x * FACE
  BY <1>a
<1>3. PICK y \in Int : S = y * FACE
  BY <1>a
<1>4. PICK z \in Int : c = z * FACE
  BY <1>a
<1>5. s * S \in Nat /\ s * S = (s * y) * FACE
  BY <1>1, <1>3, ProductNat
<1> DEFINE v == s * y
           q == x + v + z
           k == base + s * S + c
<1>6. v \in Int /\ k \in Nat
  BY <1>5
<1> HIDE DEF v
<1>7. q * FACE = x * FACE + v * FACE + z * FACE /\ q \in Int
  BY <1>1, <1>6
<1>8. k = q * FACE + 0
  BY <1>1, <1>2, <1>4, <1>5, <1>6, <1>7 DEF v
<1> HIDE DEF k, q
<1>9. k % FACE = 0
  BY <1>1, <1>6, <1>7, <1>8, DivModUnique
<1> QED BY <1>6, <1>9 DEF k

\* The page and offset the kernel computes for a face of a row are those of
\* the reference.
LEMMA FacePlace ==
  ASSUME SourceTyped, NEW row \in Nat, source_row(row) \in Nat,
         NEW c \in Nat, c % FACE = 0
  PROVE  /\ spage(source_row(row), c) = Place(row, c)[1]
         /\ soff(source_row(row), c) = Place(row, c)[2]
<1>1. /\ m.nct \in Nat \ {0} /\ m.Cs = m.nct * TILE /\ m.Cs \in Nat \ {0}
      /\ m.base \in Nat /\ m.S_row \in Nat
      /\ m.base % FACE = 0 /\ m.S_row % FACE = 0
  BY DEF SourceTyped
<1>2. TILE \in Nat \ {0} /\ FACE \in Nat \ {0}
  BY TilingAssumption
<1> DEFINE k == m.base + source_row(row) * m.S_row + c
           R == k \div m.Cs
           C == k % m.Cs
<1>3. k \in Nat /\ k % FACE = 0
  BY <1>1, IndexAligned
<1>4. sk(source_row(row), c) = k
  BY DEF sk
<1> HIDE DEF k
<1>5. R \in Nat /\ C \in Nat
  BY <1>1, <1>3, DivNat, Zenon
<1>6. fdiv(k, m.Cs) = R /\ fmod_(k, m.Cs) = C /\ fdiv(R, TILE) = R \div TILE
  BY <1>1, <1>2, <1>3, <1>5, FloorDivides
<1>7. (C % TILE) % FACE = 0
  BY <1>1, <1>3, FaceAligned
<1>8. /\ Place(row, c)[1] = (R \div TILE) * m.nct + (C \div TILE)
      /\ Place(row, c)[2] = in_page_elt(R % TILE, C % TILE)
  BY DEF Place, k
<1> HIDE DEF R, C
<1>9. spage(source_row(row), c) = Place(row, c)[1]
  BY <1>4, <1>6, <1>8 DEF spage
<1>10. soff(source_row(row), c) = f0e(R % TILE) + ((C % TILE) \div FACE) * RIGHT_FACE
  BY <1>4, <1>6 DEF soff
<1>11. in_page_elt(R % TILE, C % TILE)
         = f0e(R % TILE) + ((C % TILE) \div FACE) * RIGHT_FACE + 0
  BY <1>7 DEF in_page_elt, RIGHT_FACE
<1>12. f0e(R % TILE) + ((C % TILE) \div FACE) * RIGHT_FACE \in Int
  <2> DEFINE x == R % TILE
             y == C % TILE
  <2>1. x \in Nat /\ y \in Nat
    BY <1>2, <1>5, Division
  <2> HIDE DEF x, y
  <2>2. x \div FACE \in Nat /\ x % FACE \in Nat /\ y \div FACE \in Nat
    BY <1>2, <2>1, DivNat, Zenon
  <2>3. f0e(x) \in Int
    BY <1>2, <2>2, TilingAssumption DEF f0e
  <2>4. (y \div FACE) * RIGHT_FACE \in Int
    BY <1>2, <2>2 DEF RIGHT_FACE
  <2> QED BY <2>3, <2>4 DEF x, y
<1>13. soff(source_row(row), c) = Place(row, c)[2]
  <2> DEFINE u == f0e(R % TILE) + ((C % TILE) \div FACE) * RIGHT_FACE
  <2>1. u \in Int /\ soff(source_row(row), c) = u /\ Place(row, c)[2] = u + 0
    BY <1>8, <1>10, <1>11, <1>12
  <2> HIDE DEF u
  <2> QED BY <2>1
<1> QED BY <1>9, <1>13

\* One more row of the reference.
RowReference(tr, tc, i) ==
  {Transfer(tr, tc, i, h) :
     h \in {x \in {0, 1} : tr * TILE + i < m.Ro /\ tc * TILE + x * FACE < m.Co}}

LEMMA ReferenceGrows ==
  ASSUME NEW tr, NEW tc, NEW n \in Nat
  PROVE  Reference(tr, tc, n + 1) = Reference(tr, tc, n) \cup RowReference(tr, tc, n)
<1> DEFINE Live(i, h) == tr * TILE + i < m.Ro /\ tc * TILE + h * FACE < m.Co
           Cells(k) == {y \in (0 .. k - 1) \X {0, 1} : Live(y[1], y[2])}
<1> HIDE DEF Live
<1>1. Cells(n + 1) = Cells(n) \cup {<<n, h>> : h \in {x \in {0, 1} : Live(n, x)}}
  <2>1. 0 .. (n + 1) - 1 = (0 .. n - 1) \cup {n}
    OBVIOUS
  <2> QED BY <2>1
<1> DEFINE T(i, h) == Transfer(tr, tc, i, h)
<1>2. \A k : Reference(tr, tc, k) = {T(x[1], x[2]) : x \in Cells(k)}
  BY DEF Reference, Live
<1>3. RowReference(tr, tc, n) = {T(n, h) : h \in {x \in {0, 1} : Live(n, x)}}
  BY DEF RowReference, Live
<1> DEFINE New == {<<n, h>> : h \in {x \in {0, 1} : Live(n, x)}}
<1> HIDE DEF T, Cells
<1>4. RowReference(tr, tc, n) = {T(x[1], x[2]) : x \in New}
  <2>1. ASSUME NEW h \in {0, 1}, Live(n, h)
        PROVE  <<n, h>> \in New /\ <<n, h>>[1] = n /\ <<n, h>>[2] = h
    BY <2>1
  <2>2. \A x \in New : \E h \in {y \in {0, 1} : Live(n, y)} : x[1] = n /\ x[2] = h
    OBVIOUS
  <2> HIDE DEF New
  <2>3. ASSUME NEW v \in RowReference(tr, tc, n) PROVE v \in {T(x[1], x[2]) : x \in New}
    <3>1. PICK h \in {0, 1} : Live(n, h) /\ v = T(n, h)
      BY <1>3
    <3> DEFINE w == <<n, h>>
    <3>2. w \in New /\ w[1] = n /\ w[2] = h
      BY <2>1, <3>1
    <3> HIDE DEF w
    <3> QED BY <3>1, <3>2
  <2>4. ASSUME NEW v \in {T(x[1], x[2]) : x \in New} PROVE v \in RowReference(tr, tc, n)
    <3>1. PICK w \in New : v = T(w[1], w[2])
      OBVIOUS
    <3>2. PICK h \in {y \in {0, 1} : Live(n, y)} : w[1] = n /\ w[2] = h
      BY <2>2
    <3> QED BY <1>3, <3>1, <3>2
  <2> QED BY <2>3, <2>4
<1>5. Cells(n + 1) = Cells(n) \cup New
  BY <1>1
<1> HIDE DEF New
<1> QED BY <1>2, <1>4, <1>5

LEMMA ReferenceEmpty ==
  ASSUME NEW tr, NEW tc
  PROVE  Reference(tr, tc, 0) = {}
<1>1. 0 .. 0 - 1 = {}
  OBVIOUS
<1> QED BY <1>1 DEF Reference

LEMMA ReferenceStable ==
  ASSUME UNCHANGED m, NEW tr, NEW tc, NEW n
  PROVE  Reference(tr, tc, n)' = Reference(tr, tc, n)
BY DEF Reference, Transfer, Place, source_row

\* The column a face begins at.
LEMMA FaceColumn ==
  ASSUME NEW a \in Nat, NEW h \in {0, 1}
  PROVE  a * TILE + h * FACE \in Nat /\ (a * TILE + h * FACE) % FACE = 0
<1>1. FACE \in Nat \ {0} /\ TILE = 2 * FACE
  BY TilingAssumption
<1>2. a * TILE + h * FACE = (2 * a + h) * FACE + 0
  BY <1>1
<1> DEFINE k == a * TILE + h * FACE
           q == 2 * a + h
<1>3. q \in Int /\ k \in Nat /\ k = q * FACE + 0
  BY <1>1, <1>2
<1> HIDE DEF k, q
<1>4. k % FACE = 0
  BY <1>1, <1>3, DivModUnique
<1> QED BY <1>3, <1>4 DEF k

\* The loop's row, by its counter, is the reference's row.
LEMMA RowExact ==
  ASSUME CounterInv, pc = "faces"
  PROVE  RowMoves(lr, m.A * g + m.B * t) = RowReference(otr, otc, lr)
<1>1. SourceTyped
  BY SourceOf DEF CounterInv
<1>2. m.P \in Nat \ {0} /\ TILE \in Nat \ {0} /\ FACE \in Nat \ {0}
  BY MapTyped, TilingAssumption DEF CounterInv, TypeOK
<1>3. /\ otr \in Nat /\ otc \in Nat /\ lr \in Nat /\ g \in Nat /\ t \in 0 .. m.P - 1
      /\ g * m.P + t = otr * TILE + lr
  BY <1>2 DEF CounterInv, TypeOK, CounterExact
<1> DEFINE row == otr * TILE + lr
<1>4. row \in Nat
  BY <1>2, <1>3
<1>5. g = row \div m.P /\ t = row % m.P
  <2>1. /\ row \in Int /\ g \in Int /\ t \in Int /\ 0 <= t /\ t < m.P /\ row = g * m.P + t
    BY <1>2, <1>3, <1>4
  <2> HIDE DEF row
  <2> QED BY <1>2, <2>1, DivModUnique
<1>6. m.A * g + m.B * t = source_row(row) /\ source_row(row) \in Nat
  <2>1. m.A * g + m.B * t = source_row(row)
    BY <1>5 DEF source_row
  <2>2. m.A * g \in Nat /\ m.B * t \in Nat
    BY <1>1, <1>3, ProductNat DEF SourceTyped
  <2> QED BY <2>1, <2>2
<1> DEFINE sr == m.A * g + m.B * t
           Move(h) == <<f0e(lr) + h * RIGHT_FACE, spage(sr, otc * TILE + h * FACE),
                        soff(sr, otc * TILE + h * FACE)>>
<1>7. ASSUME NEW h \in {0, 1} PROVE Move(h) = Transfer(otr, otc, lr, h)
  <2> DEFINE c == otc * TILE + h * FACE
  <2>1. c \in Nat /\ c % FACE = 0
    BY <1>3, FaceColumn
  <2>2. spage(source_row(row), c) = Place(row, c)[1] /\ soff(source_row(row), c) = Place(row, c)[2]
    <3> HIDE DEF c, row
    <3> QED BY <1>1, <1>4, <1>6, <2>1, FacePlace
  <2>3. Transfer(otr, otc, lr, h) = <<f0e(lr) + h * RIGHT_FACE, Place(row, c)[1], Place(row, c)[2]>>
    BY DEF Transfer
  <2> QED BY <1>6, <2>2, <2>3
<1> QED BY <1>7 DEF RowMoves, RowReference

\* A page that whole_tile_ok takes for a tile is that tile: its rows are TILE
\* consecutive rows of one group, from a tile row of the source on.
LEMMA PageExact ==
  ASSUME TypeOK, whole_tile_ok(otr * TILE, otc * TILE)
  PROVE  PageMoves(spage((otr * TILE) % m.P, otc * TILE)) = Reference(otr, otc, TILE)
<1>1. SourceTyped
  BY SourceOf
<1>2. m.P \in Nat \ {0} /\ TILE \in Nat \ {0} /\ FACE \in Nat \ {0} /\ TILE = 2 * FACE
  BY MapTyped, TilingAssumption DEF TypeOK
<1>3. otr \in Nat /\ otc \in Nat
  BY MapTyped DEF TypeOK
<1> DEFINE r0 == otr * TILE
           a0 == r0 % m.P
           u == a0 \div TILE
           page == u * m.nct + otc
<1>4. /\ m.base = 0 /\ m.A = 0 /\ m.B = 1 /\ m.S_row = m.Cs
      /\ m.P % TILE = 0 /\ a0 % TILE = 0
      /\ r0 + TILE <= m.Ro /\ otc * TILE + TILE <= m.Co
  BY DEF whole_tile_ok
<1>5. r0 \in Nat /\ a0 \in Nat /\ a0 < m.P /\ r0 = (r0 \div m.P) * m.P + a0 /\ r0 \div m.P \in Nat
  <2>1. r0 \in Nat
    BY <1>2, <1>3
  <2> HIDE DEF r0
  <2>2. /\ r0 \div m.P \in Nat /\ r0 % m.P \in 0 .. m.P - 1
        /\ (r0 \div m.P) * m.P + (r0 % m.P) = r0
    BY <1>2, <2>1, Division, Zenon
  <2> HIDE DEF a0
  <2>3. a0 \in 0 .. m.P - 1 /\ (r0 \div m.P) * m.P + a0 = r0
    BY <2>2 DEF a0
  <2> QED BY <1>2, <2>1, <2>2, <2>3
<1>6. u \in Nat /\ a0 = u * TILE
  <2> HIDE DEF a0
  <2>1. u \in Nat /\ a0 = u * TILE + (a0 % TILE)
    BY <1>2, <1>5, Division
  <2> QED BY <1>2, <1>4, <2>1
<1>7. a0 + TILE <= m.P
  <2> DEFINE v == m.P \div TILE
  <2>1. v \in Nat /\ m.P = v * TILE + (m.P % TILE)
    BY <1>2, Division
  <2> HIDE DEF v, a0, u
  <2>2. m.P = v * TILE
    BY <1>2, <1>4, <2>1
  <2>3. u < v
    <3>1. SUFFICES ASSUME u >= v PROVE FALSE
      BY <1>6, <2>1
    <3>2. (u - v) * TILE >= 0 /\ (u - v) * TILE = u * TILE - v * TILE
      BY <1>2, <1>6, <2>1, <3>1, ProductNat, u - v \in Int
    <3> QED BY <1>2, <1>5, <1>6, <2>1, <2>2, <3>2
  <2>4. (v - u - 1) * TILE >= 0 /\ (v - u - 1) * TILE = v * TILE - u * TILE - TILE
    BY <1>2, <1>6, <2>1, <2>3, ProductNat, v - u - 1 \in Int
  <2> QED BY <1>2, <1>5, <1>6, <2>1, <2>2, <2>4
<1>8. /\ m.Cs \in Nat \ {0} /\ m.nct \in Nat \ {0} /\ m.Co \in Nat /\ m.Co <= m.Cs
      /\ m.Ro \in Nat
  BY <1>1, <1>4 DEF SourceTyped
<1> HIDE DEF a0, u
<1>9. ASSUME NEW s \in Nat, NEW c \in Nat, c < m.Cs
      PROVE  s * m.Cs + c \in Nat /\ (s * m.Cs + c) \div m.Cs = s /\ (s * m.Cs + c) % m.Cs = c
  <2> DEFINE k == s * m.Cs + c
  <2>1. k \in Nat /\ k = s * m.Cs + c
    BY <1>8, ProductNat
  <2> HIDE DEF k
  <2>2. k \div m.Cs = s /\ k % m.Cs = c
    BY <1>8, <1>9, <2>1, DivModUnique
  <2> QED BY <2>1, <2>2 DEF k
<1>10. ASSUME NEW i \in 0 .. TILE - 1, NEW h \in {0, 1}
       PROVE  /\ Transfer(otr, otc, i, h) = <<f0e(i) + h * RIGHT_FACE, page, f0e(i) + h * RIGHT_FACE>>
              /\ r0 + i < m.Ro /\ otc * TILE + h * FACE < m.Co
  <2> DEFINE row == r0 + i
             c == otc * TILE + h * FACE
             s == a0 + i
  <2>1. /\ row \in Nat /\ c \in Nat /\ s \in Nat /\ s < m.P /\ c < otc * TILE + TILE
        /\ row < m.Ro /\ c < m.Co /\ c < m.Cs
    <3>1. otc * TILE \in Nat /\ h * FACE \in Nat /\ h * FACE < TILE
      BY <1>2, <1>3
    <3> HIDE DEF r0
    <3> QED BY <1>2, <1>4, <1>5, <1>7, <1>8, <3>1
  <2>2. row % m.P = s
    <3> DEFINE q == r0 \div m.P
    <3>1. q \in Int /\ s \in Int /\ row \in Int /\ 0 <= s
      BY <1>5, <2>1
    <3>2. row = q * m.P + s
      <4> DEFINE y == q * m.P
      <4>1. y \in Int /\ r0 = y + a0
        BY <1>2, <1>5, <3>1
      <4> HIDE DEF y, r0
      <4>2. row = y + s
        BY <1>2, <1>5, <4>1
      <4> QED BY <4>2 DEF y
    <3> HIDE DEF q, row, s
    <3> QED BY <1>2, <2>1, <3>1, <3>2, DivModUnique
  <2>3. source_row(row) = s
    <3> HIDE DEF row
    <3>1. row \div m.P \in Nat
      BY <1>2, <2>1, Division
    <3>2. source_row(row) = 0 * (row \div m.P) + 1 * s
      BY <1>4, <2>2 DEF source_row
    <3> QED BY <2>1, <3>1, <3>2
  <2>4. Place(row, c) = <<(s \div TILE) * m.nct + (c \div TILE), in_page_elt(s % TILE, c % TILE)>>
    <3> HIDE DEF row, c, s
    <3>1. m.base + source_row(row) * m.S_row + c = s * m.Cs + c
      <4> DEFINE y == s * m.Cs
      <4>1. y \in Nat /\ m.base + source_row(row) * m.S_row + c = 0 + y + c
        BY <1>4, <1>8, <2>1, <2>3, ProductNat
      <4> HIDE DEF y
      <4>2. 0 + y + c = y + c
        BY <2>1, <4>1
      <4> QED BY <4>1, <4>2 DEF y
    <3>2. (s * m.Cs + c) \div m.Cs = s /\ (s * m.Cs + c) % m.Cs = c
      BY <1>9, <2>1
    <3> QED BY <3>1, <3>2 DEF Place
  <2>5. s \div TILE = u /\ s % TILE = i
    <3>1. s = u * TILE + i /\ i \in Int /\ 0 <= i /\ i < TILE /\ s \in Int /\ u \in Int
      BY <1>2, <1>6, <2>1
    <3> HIDE DEF s
    <3> QED BY <1>2, <3>1, DivModUnique
  <2>6. c \div TILE = otc /\ c % TILE = h * FACE
    <3> DEFINE f == h * FACE
    <3>1. f \in Int /\ 0 <= f /\ f < TILE /\ c = otc * TILE + f /\ c \in Int /\ otc \in Int
      BY <1>2, <1>3, <2>1
    <3> HIDE DEF c, f
    <3>2. c \div TILE = otc /\ c % TILE = f
      BY <1>2, <3>1, DivModUnique
    <3> QED BY <3>2 DEF f
  <2>7. (h * FACE) \div FACE = h /\ (h * FACE) % FACE = 0
    <3> DEFINE f == h * FACE
    <3>1. f = h * FACE + 0 /\ f \in Int /\ h \in Int
      BY <1>2
    <3> HIDE DEF f
    <3>2. f \div FACE = h /\ f % FACE = 0
      BY <1>2, <3>1, DivModUnique
    <3> QED BY <3>2 DEF f
  <2>8. in_page_elt(i, h * FACE) = f0e(i) + h * RIGHT_FACE
    <3>1. in_page_elt(i, h * FACE) = f0e(i) + h * (FACE * FACE) + 0
      BY <2>7 DEF in_page_elt
    <3>2. i \div FACE \in Nat /\ i % FACE \in Nat
      <4>1. i \in Nat
        BY <1>2
      <4> QED BY <1>2, <4>1, DivNat, Zenon
    <3>3. f0e(i) \in Int
      BY <1>2, <3>2 DEF f0e
    <3>4. h * (FACE * FACE) \in Int
      BY <1>2
    <3> DEFINE y == f0e(i)
               z == h * (FACE * FACE)
    <3>5. y \in Int /\ z \in Int /\ in_page_elt(i, h * FACE) = y + z + 0
      BY <3>1, <3>3, <3>4
    <3> HIDE DEF y, z
    <3>6. in_page_elt(i, h * FACE) = y + z
      BY <3>5
    <3> QED BY <3>6 DEF y, z, RIGHT_FACE
  <2>9. Transfer(otr, otc, i, h) = <<f0e(i) + h * RIGHT_FACE, Place(row, c)[1], Place(row, c)[2]>>
    BY DEF Transfer
  <2>10. Place(row, c) = <<page, f0e(i) + h * RIGHT_FACE>>
    BY <2>4, <2>5, <2>6, <2>8
  <2> QED
    <3>1. Place(row, c)[1] = page /\ Place(row, c)[2] = f0e(i) + h * RIGHT_FACE
      BY <2>10
    <3> QED BY <2>1, <2>9, <3>1
<1>11. spage(a0, otc * TILE) = page
  <2> DEFINE c == otc * TILE
  <2>1. c \in Nat /\ c < m.Cs /\ c = otc * TILE + 0
    BY <1>2, <1>3, <1>4, <1>8
  <2> HIDE DEF c
  <2>2. (a0 * m.Cs + c) \div m.Cs = a0 /\ (a0 * m.Cs + c) % m.Cs = c /\ a0 * m.Cs + c \in Nat
    BY <1>5, <1>9, <2>1
  <2>3. sk(a0, c) = a0 * m.Cs + c
    <3> DEFINE y == a0 * m.Cs
    <3>1. y \in Nat /\ sk(a0, c) = 0 + y + c
      BY <1>4, <1>5, <1>8, ProductNat DEF sk
    <3> HIDE DEF y
    <3>2. 0 + y + c = y + c
      BY <2>1, <3>1
    <3> QED BY <3>1, <3>2 DEF y
  <2>4. fdiv(sk(a0, c), m.Cs) = a0 /\ fmod_(sk(a0, c), m.Cs) = c
    <3> DEFINE k == a0 * m.Cs + c
    <3>1. k \in Nat /\ k \div m.Cs = a0 /\ k % m.Cs = c /\ sk(a0, c) = k
      BY <2>2, <2>3
    <3> HIDE DEF k
    <3> QED BY <1>8, <3>1, FloorDivides
  <2>5. fdiv(a0, TILE) = u
    BY <1>2, <1>5, FloorDivides DEF u
  <2>6. c \div TILE = otc
    BY <1>2, <1>3, <2>1, DivModUnique
  <2> QED BY <2>4, <2>5, <2>6 DEF spage, c
<1>12. PageMoves(page)
         = {<<f0e(x[1]) + x[2] * RIGHT_FACE, page, f0e(x[1]) + x[2] * RIGHT_FACE>> :
              x \in (0 .. TILE - 1) \X {0, 1}}
  <2> DEFINE Off(i, h) == f0e(i) + h * RIGHT_FACE
             Cells == (0 .. TILE - 1) \X {0, 1}
  <2>1. FaceOffsets = {Off(i, h) : i \in 0 .. TILE - 1, h \in {0, 1}}
    BY DEF FaceOffsets
  <2>2. \A x \in Cells : x[1] \in 0 .. TILE - 1 /\ x[2] \in {0, 1}
    OBVIOUS
  <2>3. \A i \in 0 .. TILE - 1, h \in {0, 1} :
          <<i, h>> \in Cells /\ <<i, h>>[1] = i /\ <<i, h>>[2] = h
    OBVIOUS
  <2> HIDE DEF Off, Cells
  <2>4. FaceOffsets = {Off(x[1], x[2]) : x \in Cells}
    <3>1. ASSUME NEW v \in FaceOffsets PROVE v \in {Off(x[1], x[2]) : x \in Cells}
      <4>1. PICK i \in 0 .. TILE - 1 : \E h \in {0, 1} : v = Off(i, h)
        BY <2>1
      <4>2. PICK h \in {0, 1} : v = Off(i, h)
        BY <4>1
      <4> DEFINE w == <<i, h>>
      <4>3. w \in Cells /\ w[1] = i /\ w[2] = h
        BY <2>3
      <4> HIDE DEF w
      <4> QED BY <4>2, <4>3
    <3>2. ASSUME NEW v \in {Off(x[1], x[2]) : x \in Cells} PROVE v \in FaceOffsets
      BY <2>1, <2>2, <3>2
    <3> QED BY <3>1, <3>2
  <2>5. PageMoves(page) = {<<o, page, o>> : o \in FaceOffsets}
    BY DEF PageMoves
  <2> HIDE DEF page
  <2>6. PageMoves(page) = {<<Off(x[1], x[2]), page, Off(x[1], x[2])>> : x \in Cells}
    BY <2>4, <2>5
  <2> QED BY <2>6 DEF Off, Cells
<1> HIDE DEF page, r0
<1>13. Reference(otr, otc, TILE)
         = {<<f0e(x[1]) + x[2] * RIGHT_FACE, page, f0e(x[1]) + x[2] * RIGHT_FACE>> :
              x \in (0 .. TILE - 1) \X {0, 1}}
  <2>1. {y \in (0 .. TILE - 1) \X {0, 1} :
           otr * TILE + y[1] < m.Ro /\ otc * TILE + y[2] * FACE < m.Co}
          = (0 .. TILE - 1) \X {0, 1}
    BY <1>10 DEF r0
  <2>2. Reference(otr, otc, TILE)
          = {Transfer(otr, otc, x[1], x[2]) : x \in (0 .. TILE - 1) \X {0, 1}}
    BY <2>1 DEF Reference
  <2>3. \A x \in (0 .. TILE - 1) \X {0, 1} :
          Transfer(otr, otc, x[1], x[2])
            = <<f0e(x[1]) + x[2] * RIGHT_FACE, page, f0e(x[1]) + x[2] * RIGHT_FACE>>
    BY <1>10
  <2> QED BY <2>2, <2>3
<1> QED BY <1>11, <1>12, <1>13 DEF a0, r0

-----------------------------------------------------------------------------
\* What has been moved of the current tile, which lies on the grid.
MovesExact ==
  /\ pc = "ready" => moves = {}
  /\ pc = "faces" => moves = Reference(otr, otc, lr)
  /\ pc = "moved" => moves = Reference(otr, otc, TILE)

ViewInv == CounterInv /\ MovesExact /\ (pc # "ready" => Ordinal < NTiles)

LEMMA ViewInit == Init => ViewInv
BY CounterInvInit DEF Init, ViewInv, MovesExact

LEMMA ViewStep == ViewInv /\ [Next]_vars => ViewInv'
<1> SUFFICES ASSUME ViewInv, [Next]_vars PROVE ViewInv'
  OBVIOUS
<1>1. CounterInv /\ CounterInv' /\ TILE \in Nat \ {0}
  BY CounterInvStep, TilingAssumption DEF ViewInv
<1>2. ASSUME NEW t0 \in 0 .. NTiles - 1, Reset(t0) PROVE ViewInv'
  BY <1>1, <1>2 DEF Reset, ViewInv, MovesExact
<1>3. CASE GatherPage
  <2>1. pc' = "moved" /\ UNCHANGED <<m, otr, otc>> /\ (Ordinal < NTiles)'
    BY <1>3 DEF GatherPage, Ordinal, NTiles
  <2>2. moves' = Reference(otr, otc, TILE)
    BY <1>1, <1>3, PageExact DEF GatherPage, CounterInv
  <2>3. Reference(otr, otc, TILE)' = Reference(otr, otc, TILE)
    BY <2>1 DEF Reference, Transfer, Place, source_row
  <2> QED BY <1>1, <2>1, <2>2, <2>3 DEF ViewInv, MovesExact
<1>4. CASE BeginTile
  <2>1. /\ moves' = {} /\ lr' = 0 /\ pc' = "faces" /\ UNCHANGED <<m, otr, otc>>
        /\ (Ordinal < NTiles)'
    BY <1>4 DEF BeginTile, ViewInv, MovesExact, Ordinal, NTiles
  <2>2. Reference(otr, otc, lr)' = {}
    BY <2>1, ReferenceEmpty, ReferenceStable
  <2> QED BY <1>1, <2>1, <2>2 DEF ViewInv, MovesExact
<1>5. CASE FaceRow
  <2>1. /\ pc = "faces" /\ lr \in Nat /\ lr' = lr + 1
        /\ moves' = moves \cup RowMoves(lr, m.A * g + m.B * t)
        /\ pc' = IF lr + 1 = TILE THEN "moved" ELSE "faces"
        /\ UNCHANGED <<m, otr, otc>>
    BY <1>1, <1>5 DEF FaceRow, CounterInv, TypeOK
  <2>2. moves = Reference(otr, otc, lr)
    BY <2>1 DEF ViewInv, MovesExact
  <2>3. moves' = Reference(otr, otc, lr + 1)
    BY <1>1, <2>1, <2>2, RowExact, ReferenceGrows
  <2>4. Reference(otr, otc, lr + 1) = Reference(otr, otc, lr)'
    BY <2>1 DEF Reference, Transfer, Place, source_row
  <2>5. pc' = "moved" => Reference(otr, otc, lr + 1) = Reference(otr, otc, TILE)'
    BY <2>1 DEF Reference, Transfer, Place, source_row
  <2>6. (Ordinal < NTiles)'
    BY <2>1 DEF Ordinal, NTiles, ViewInv
  <2> QED BY <1>1, <2>1, <2>3, <2>4, <2>5, <2>6 DEF ViewInv, MovesExact
<1>6. CASE Advance
  BY <1>1, <1>6 DEF Advance, LastColumn, ViewInv, MovesExact
<1>7. CASE UNCHANGED vars
  BY <1>1, <1>7 DEF vars, ViewInv, MovesExact, Ordinal, NTiles, Reference, Transfer,
     Place, source_row
<1> QED BY <1>2, <1>3, <1>4, <1>5, <1>6, <1>7 DEF Next

\* The tile coordinate is the split of the tile's ordinal, and stepping to the
\* next tile adds one to it.
LEMMA OrdinalSplit ==
  ASSUME TypeOK
  PROVE  /\ Ordinal \in Nat /\ NTiles \in Nat
         /\ otr = Ordinal \div m.n_otc /\ otc = Ordinal % m.n_otc
<1>1. m.n_otc \in Nat \ {0} /\ m.n_otr \in Nat /\ otr \in Nat /\ otc \in 0 .. m.n_otc - 1
  BY MapTyped DEF TypeOK
<1>2. otr * m.n_otc \in Nat /\ NTiles \in Nat
  BY <1>1, ProductNat DEF NTiles
<1> DEFINE n == m.n_otc
<1> HIDE DEF n
<1>3. Ordinal = otr * n + otc /\ Ordinal \in Nat
  BY <1>1, <1>2 DEF n, Ordinal
<1> QED BY <1>1, <1>2, <1>3, DivModUnique DEF n

LEMMA OrdinalNext ==
  ASSUME TypeOK, Advance
  PROVE  Ordinal' = Ordinal + 1
<1>1. m.n_otc \in Nat \ {0} /\ otr \in Nat /\ otc \in 0 .. m.n_otc - 1 /\ m' = m
  BY MapTyped DEF TypeOK, Advance
<1>2. CASE LastColumn
  <2>1. otc' = 0 /\ otr' = otr + 1
    BY <1>2 DEF Advance
  <2>2. (otr + 1) * m.n_otc = otr * m.n_otc + m.n_otc /\ otr * m.n_otc \in Int
    BY <1>1
  <2> QED BY <1>1, <1>2, <2>1, <2>2 DEF Ordinal, LastColumn
<1>3. CASE ~LastColumn
  <2>1. otc' = otc + 1 /\ otr' = otr
    BY <1>3 DEF Advance
  <2>2. otr * m.n_otc \in Int
    BY <1>1
  <2> QED BY <1>1, <2>1, <2>2 DEF Ordinal
<1> QED BY <1>2, <1>3

\* Whole pages, face-rows and rewinds in any mix implement the tile cursor: a
\* tile read as one page is moved as its face-rows would have been, and a
\* counter seeded at any tile walks the grouped map.
THEOREM GroupedImplementsTileCopy == Spec => ImplementsTileCopy
<1>1. ASSUME Init PROVE TileCursor!Init
  <2>1. PICK e \in Endpoints : m = e.map /\ kind = e.kind
    BY <1>1 DEF Init
  <2>2. PICK t0 \in 0 .. NTiles - 1 : otr = t0 \div m.n_otc /\ otc = t0 % m.n_otc
    BY <1>1 DEF Init
  <2>3. m.n_otc \in Nat \ {0} /\ t0 \in Nat
    <3>1. m.n_otc \in Nat \ {0} /\ m.n_otr \in Nat
      BY <2>1, MapTyped
    <3>2. NTiles \in Nat
      BY <3>1, ProductNat DEF NTiles
    <3> QED BY <3>1, <3>2
  <2>4. Ordinal = t0
    BY <2>2, <2>3, Division DEF Ordinal
  <2> QED BY <1>1, <2>4 DEF TileCursor!Init, TileCursor!Ordinals, Presented, Init
<1>2. ASSUME ViewInv, [Next]_vars PROVE [TileCursor!Next]_(TileCursor!vars)
  <2>1. TypeOK /\ ViewInv' /\ Ordinal \in Nat /\ NTiles \in Nat
    BY <1>2, ViewStep, OrdinalSplit DEF ViewInv, CounterInv
  <2>2. m' = m => Presented' = Presented
    BY DEF Presented, NTiles, Reference, Transfer, Place, source_row
  <2>3. Ordinal < NTiles =>
          Ordinal \in DOMAIN Presented /\ Presented[Ordinal] = Reference(otr, otc, TILE)
    BY <2>1, OrdinalSplit DEF Presented
  <2>4. ASSUME NEW t0 \in 0 .. NTiles - 1, Reset(t0) PROVE TileCursor!Next
    <3>1. t0 \in DOMAIN Presented
      BY DEF Presented
    <3>2. otr' = t0 \div m.n_otc /\ otc' = t0 % m.n_otc /\ m' = m /\ pc' = "ready"
      BY <2>4 DEF Reset
    <3>3. Ordinal' = t0
      <4>1. m.n_otc \in Nat \ {0} /\ t0 \in Nat
        BY <2>1, MapTyped DEF TypeOK
      <4> QED BY <3>2, <4>1, Division DEF Ordinal
    <3>4. TileCursor!Seek(t0)
      BY <2>2, <3>2, <3>3 DEF TileCursor!Seek
    <3> QED BY <3>1, <3>4 DEF TileCursor!Next, TileCursor!Ordinals
  <2>5. ASSUME GatherPage PROVE TileCursor!Next
    <3>1. /\ m' = m /\ otr' = otr /\ otc' = otc /\ pc = "ready" /\ pc' = "moved"
          /\ Ordinal < NTiles
      BY <2>5 DEF GatherPage
    <3>2. moves' = Reference(otr, otc, TILE)
      BY <2>1, <2>5, PageExact DEF GatherPage
    <3>3. Ordinal' = Ordinal /\ Presented' = Presented
      BY <2>2, <3>1 DEF Ordinal
    <3>4. TileCursor!Transfer
      BY <2>3, <3>1, <3>2, <3>3 DEF TileCursor!Transfer, TileCursor!Ordinals
    <3> QED BY <3>4 DEF TileCursor!Next
  <2>6. ASSUME BeginTile PROVE UNCHANGED TileCursor!vars
    BY <2>2, <2>6 DEF BeginTile, TileCursor!vars, Ordinal
  <2>7. ASSUME FaceRow PROVE TileCursor!Next \/ UNCHANGED TileCursor!vars
    <3>1. m' = m /\ otr' = otr /\ otc' = otc /\ pc = "faces" /\ Ordinal < NTiles
      BY <1>2, <2>7 DEF FaceRow, ViewInv
    <3>2. Ordinal' = Ordinal /\ Presented' = Presented
      BY <2>2, <3>1 DEF Ordinal
    <3>3. CASE pc' = "faces"
      BY <3>1, <3>2, <3>3 DEF TileCursor!vars
    <3>4. CASE pc' = "moved"
      <4>1. moves' = Reference(otr, otc, TILE)
        BY <2>1, <3>1, <3>4, ReferenceStable DEF ViewInv, MovesExact
      <4>2. TileCursor!Transfer
        BY <2>3, <3>1, <3>2, <3>4, <4>1 DEF TileCursor!Transfer, TileCursor!Ordinals
      <4> QED BY <4>2 DEF TileCursor!Next
    <3> QED BY <2>7, <3>3, <3>4 DEF FaceRow
  <2>8. ASSUME Advance PROVE TileCursor!Next
    <3>1. m' = m /\ pc = "moved" /\ pc' = "ready" /\ Ordinal < NTiles
      BY <1>2, <2>8 DEF Advance, ViewInv
    <3>2. Ordinal' = Ordinal + 1
      BY <2>1, <2>8, OrdinalNext
    <3>3. Presented[Ordinal] = moves
      BY <1>2, <2>3, <3>1 DEF ViewInv, MovesExact
    <3>4. TileCursor!Step
      BY <2>2, <3>1, <3>2, <3>3 DEF TileCursor!Step
    <3> QED BY <3>4 DEF TileCursor!Next
  <2>9. ASSUME UNCHANGED vars PROVE UNCHANGED TileCursor!vars
    BY <2>2, <2>9 DEF vars, TileCursor!vars, Ordinal
  <2> QED BY <1>2, <2>4, <2>5, <2>6, <2>7, <2>8, <2>9 DEF Next
<1> QED BY <1>1, <1>2, ViewInit, ViewStep, PTL
        DEF Spec, ImplementsTileCopy, TileCursor!Spec
=============================================================================
