---------------------------- MODULE Eltwise_proofs ----------------------------
(***************************************************************************)
(* The fused elementwise ops are correct for any tile size, number of      *)
(* cores, buffer depth and calls with non-empty operands: proofs about     *)
(* Eltwise.                                                                *)
(***************************************************************************)
EXTENDS Eltwise, FiniteSetTheorems, TLAPS

-----------------------------------------------------------------------------
\* Integer division by a positive divisor, and rings of pages.
LEMMA DivModFloor ==
  ASSUME NEW a \in Int, NEW b \in Nat \ {0}
  PROVE  /\ a \div b \in Int /\ a % b \in Int
         /\ a = ((a \div b) * b) + (a % b)
         /\ 0 <= a % b /\ a % b < b
OBVIOUS

LEMMA ProductNat ==
  ASSUME NEW a \in Int, NEW b \in Int, a >= 0, b >= 0
  PROVE  a * b \in Int /\ a * b >= 0
OBVIOUS

LEMMA DivModUnique ==
  ASSUME NEW k \in Int, NEW b \in Nat \ {0}, NEW q \in Int, NEW s \in Int,
         k = q * b + s, 0 <= s, s < b
  PROVE  q = k \div b /\ s = k % b
OBVIOUS

LEMMA SmallRemainder ==
  ASSUME NEW r \in Nat, NEW n \in Nat \ {0}, r < n
  PROVE  r % n = r /\ r \div n = 0 /\ r \div 1 = r
OBVIOUS

\* A digit of a number is that of its remainder by a multiple of the base.
LEMMA NestedRemainder ==
  ASSUME NEW t \in Nat, NEW a \in Nat \ {0}, NEW m \in Nat \ {0}, m % a = 0
  PROVE  (t % m) % a = t % a /\ (t % m) \div a = (t \div a) % (m \div a)
<1> DEFINE n == m \div a
           q == t \div a
           r == t % a
<1>1. q \in Int /\ r \in Int /\ t = (q * a) + r /\ 0 <= r /\ r < a
  BY DivModFloor
<1>2. n \in Int /\ m = n * a
  BY DivModFloor
<1> HIDE DEF q, r, n
<1>3. n \in Nat \ {0}
  <2> SUFFICES ASSUME n <= 0 PROVE FALSE
    BY <1>2
  <2>1. (-n) * a >= 0
    BY <1>2, ProductNat, -n \in Nat
  <2>2. (-n) * a = -(n * a)
    BY <1>2
  <2> QED BY <1>2, <2>1, <2>2
<1> DEFINE q2 == q \div n
           r2 == q % n
<1>4. q2 \in Int /\ r2 \in Int /\ q = (q2 * n) + r2 /\ 0 <= r2 /\ r2 < n
  BY <1>1, <1>3, DivModFloor
<1> HIDE DEF q2, r2
<1> DEFINE s == r2 * a + r
<1>5. r2 * a \in Int /\ r2 * a >= 0 /\ (n - 1 - r2) * a \in Int /\ (n - 1 - r2) * a >= 0
  BY <1>3, <1>4, ProductNat, n - 1 - r2 \in Nat
<1>6. (n - 1 - r2) * a = m - a - r2 * a
  BY <1>2, <1>4
<1>7. s \in Int /\ 0 <= s /\ s < m
  BY <1>1, <1>5, <1>6
<1>8. t = q2 * m + s
  <2>1. q * a = q2 * m + r2 * a
    BY <1>2, <1>4
  <2> QED BY <1>1, <1>4, <1>5, <2>1
<1>9. s = t % m
  <2> HIDE DEF s
  <2> QED BY <1>4, <1>7, <1>8, DivModUnique
<1>10. r2 = s \div a /\ r = s % a
  BY <1>1, <1>4, <1>7, DivModUnique
<1> HIDE DEF s
<1>11. (t % m) % a = r /\ (t % m) \div a = r2
  BY <1>9, <1>10
<1> QED BY <1>11 DEF n, q, r, r2

\* Positions less than a lap of a ring apart have different pages.
LEMMA LapDistinct ==
  ASSUME NEW b \in Nat \ {0}, NEW i \in Nat, NEW j \in Nat, i < j, j - i < b
  PROVE  i % b # j % b
<1> DEFINE p == i \div b
           q == j \div b
           r == i % b
<1> SUFFICES ASSUME j % b = r PROVE FALSE
  OBVIOUS
<1>1. p \in Int /\ q \in Int /\ r \in Int /\ i = p * b + r /\ j = q * b + r
  BY DivModFloor
<1> HIDE DEF p, q, r
<1>2. (q - p) * b = j - i /\ q - p \in Int
  BY <1>1
<1>3. (q - p) * b < b /\ (q - p) * b > 0
  BY <1>2
<1>4. \A d \in Int : d >= 1 => d * b >= b
  OBVIOUS
<1>5. \A d \in Int : d <= 0 => d * b <= 0
  OBVIOUS
<1> QED BY <1>2, <1>3, <1>4, <1>5

-----------------------------------------------------------------------------
\* What the host hands to the device.
LEMMA AcrossPositive ==
  ASSUME NEW x \in Nat \ {0}
  PROVE  TilesAcross(x) \in Nat \ {0}
<1> DEFINE n == x + TILE - 1
<1>1. n \in Nat /\ n >= TILE /\ TILE \in Nat \ {0}
  BY TileAssumption
<1> HIDE DEF n
<1>2. n \div TILE \in Int /\ n % TILE \in Int /\ n = (n \div TILE) * TILE + (n % TILE)
      /\ 0 <= n % TILE /\ n % TILE < TILE
  BY <1>1, DivModFloor
<1> DEFINE q == n \div TILE
<1> HIDE DEF q
<1>3. q \in Int /\ q * TILE > 0
  BY <1>1, <1>2 DEF q
<1>4. q > 0
  <2> SUFFICES ASSUME q <= 0 PROVE FALSE
    BY <1>3
  <2>1. (-q) * TILE >= 0
    BY <1>1, <1>3, ProductNat, -q \in Nat
  <2>2. (-q) * TILE = -(q * TILE)
    BY <1>1, <1>3
  <2> QED BY <1>1, <1>3, <2>1, <2>2
<1> QED BY <1>3, <1>4 DEF TilesAcross, n, q

LEMMA TilesPositive ==
  ASSUME NEW d, NonEmpty(d)
  PROVE  out_tiles(d) \in Nat \ {0}
<1>1. n_otr(d) \in Nat \ {0} /\ n_otc(d) \in Nat \ {0}
  BY AcrossPositive DEF NonEmpty, n_otr, n_otc
<1> QED BY <1>1 DEF out_tiles

\* The output of a call is not empty.
LEMMA OutNonEmpty ==
  ASSUME NEW c \in Calls
  PROVE  NonEmpty(EltwiseOut(c).desc)
<1> DEFINE ds == Descs(c)
<1>1. /\ DOMAIN ds \in {1 .. 2, 1 .. 3}
      /\ \A x \in DOMAIN ds : NonEmpty(ds[x]) /\ out_tiles(ds[x]) \in Nat \ {0}
  BY CallsAssumption, TilesPositive DEF Descs
<1> HIDE DEF ds
<1>2. \E i \in DOMAIN ds : \A j \in DOMAIN ds :
        \/ out_tiles(ds[i]) > out_tiles(ds[j])
        \/ out_tiles(ds[i]) = out_tiles(ds[j]) /\ i <= j
  <2> DEFINE n(x) == out_tiles(ds[x])
  <2>1. \A x \in DOMAIN ds : n(x) \in Nat
    BY <1>1
  <2> HIDE DEF n
  <2>2. CASE DOMAIN ds = 1 .. 2
    <3>1. n(1) \in Nat /\ n(2) \in Nat
      BY <2>1, <2>2
    <3>2. \E i \in 1 .. 2 : \A j \in 1 .. 2 : n(i) > n(j) \/ (n(i) = n(j) /\ i <= j)
      <4>1. CASE n(1) >= n(2)
        BY <3>1, <4>1
      <4>2. CASE n(2) > n(1)
        BY <3>1, <4>2
      <4> QED BY <3>1, <4>1, <4>2
    <3> QED BY <2>2, <3>2 DEF n
  <2>3. CASE DOMAIN ds = 1 .. 3
    <3>1. n(1) \in Nat /\ n(2) \in Nat /\ n(3) \in Nat
      BY <2>1, <2>3
    <3>2. \E i \in 1 .. 3 : \A j \in 1 .. 3 : n(i) > n(j) \/ (n(i) = n(j) /\ i <= j)
      <4>1. CASE n(1) >= n(2) /\ n(1) >= n(3)
        BY <3>1, <4>1
      <4>2. CASE n(2) > n(1) /\ n(2) >= n(3)
        BY <3>1, <4>2
      <4>3. CASE n(3) > n(1) /\ n(3) > n(2)
        BY <3>1, <4>3
      <4> QED BY <3>1, <4>1, <4>2, <4>3
    <3> QED BY <2>3, <3>2 DEF n
  <2> QED BY <1>1, <2>2, <2>3
<1>3. Largest(ds) \in DOMAIN ds
  BY <1>2 DEF Largest
<1> DEFINE d == ds[IF c.op = "k_update" THEN 1 ELSE Largest(ds)]
<1>4. NonEmpty(d)
  BY <1>1, <1>3
<1>5. EltwiseOut(c) = OutLike(c, d)
  BY DEF EltwiseOut, ds
<1> HIDE DEF d
<1>6. NonEmpty(of_shape(d.Ro, d.Co).desc)
  BY <1>4 DEF of_shape, tensor, view, dense, linear, NonEmpty
<1> QED BY <1>5, <1>6, CallsAssumption DEF OutLike

\* How an accepted call is fed: resident groups divide the output.
LEMMA FeedTyped ==
  ASSUME NEW c \in Calls, Accepted(c)
  PROVE  /\ DOMAIN Feed(c).maps = DOMAIN c.views /\ Feed(c).bcast \in [DOMAIN c.views -> BOOLEAN]
         /\ out_tiles(EltwiseOut(c).desc) \in Nat \ {0}
         /\ Feed(c).tpg \in 1 .. out_tiles(EltwiseOut(c).desc)
         /\ out_tiles(EltwiseOut(c).desc) % Feed(c).tpg = 0
<1> DEFINE o == EltwiseOut(c)
           n == out_tiles(o.desc)
<1>1. n \in Nat \ {0}
  BY OutNonEmpty, TilesPositive
<1>2. n % n = 0
  <2> HIDE DEF n
  <2> QED BY <1>1, DivModUnique, n = 1 * n + 0
<1>3. CASE Shifted(c, o)
  <2>1. /\ Feed(c).maps = ShiftMaps(c, o) /\ Feed(c).tpg = n
        /\ Feed(c).bcast = [x \in DOMAIN c.views |-> FALSE]
    BY <1>3 DEF Feed
  <2>2. DOMAIN c.views = 1 .. 3
    BY <1>3, CallsAssumption DEF Shifted, IsTokenShift, Binary
  <2>3. DOMAIN ShiftMaps(c, o) = 1 .. 3
    BY DEF ShiftMaps
  <2>4. n \in 1 .. n
    <3> HIDE DEF n
    <3> QED BY <1>1
  <2>5. Feed(c).bcast \in [DOMAIN c.views -> BOOLEAN]
    BY <2>1
  <2> QED BY <1>1, <1>2, <2>1, <2>2, <2>3, <2>4, <2>5, Zenon
<1>4. CASE ~Shifted(c, o)
  <2>1. /\ Feed(c).maps = [x \in DOMAIN c.views |-> Widened(c.views[x].desc, o.desc, o.rows)]
        /\ Feed(c).bcast = [x \in DOMAIN c.views |-> Resident(c.views[x].desc, o.desc, o.rows)]
        /\ Feed(c).tpg = IF Groups(c, o) = {} THEN n ELSE CHOOSE m \in Groups(c, o) : TRUE
    BY <1>4 DEF Feed
  <2>2. Feed(c).bcast \in [DOMAIN c.views -> BOOLEAN]
    BY <2>1 DEF Resident, RowBroadcast
  <2>3. ASSUME NEW m \in Groups(c, o) PROVE m \in 1 .. n /\ n % m = 0
    <3>1. PICK x \in DOMAIN c.views :
            Resident(c.views[x].desc, o.desc, o.rows) /\ m = out_tiles(c.views[x].desc)
      BY <2>3 DEF Groups, Descs
    <3>2. m \in Nat \ {0} /\ n % m = 0
      <4>1. Classified(c.views[x].desc, o.desc, o.rows)
        BY <1>4, <3>1 DEF Accepted
      <4>2. n % m = 0
        BY <3>1, <4>1 DEF Classified, Resident
      <4> QED BY <3>1, <4>2, CallsAssumption, TilesPositive
    <3> HIDE DEF n
    <3>3. m <= n
      <4> SUFFICES ASSUME n < m PROVE FALSE
        BY <1>1, <3>2
      <4>1. n % m = n
        BY <1>1, <3>2, DivModUnique, n = 0 * m + n
      <4> QED BY <1>1, <3>2, <4>1
    <3> QED BY <1>1, <3>2, <3>3
  <2>4. Feed(c).tpg \in 1 .. n /\ n % Feed(c).tpg = 0
    <3>1. CASE Groups(c, o) = {}
      <4> HIDE DEF n
      <4> QED BY <1>1, <1>2, <2>1, <3>1
    <3>2. CASE Groups(c, o) # {}
      <4>1. Feed(c).tpg \in Groups(c, o)
        BY <2>1, <3>2
      <4> QED BY <2>3, <4>1
    <3> QED BY <3>1, <3>2
  <2>5. DOMAIN Feed(c).maps = DOMAIN c.views
    BY <2>1
  <2> QED BY <1>1, <2>2, <2>4, <2>5
<1> QED BY <1>3, <1>4

-----------------------------------------------------------------------------
(***************************************************************************)
(* The inductive invariant.  CallInv: a group of tiles divides the output. *)
(* Shaped: functions over cores, buffers of the size they were made.       *)
(* Per core: what is in flight is the group or the tile being gathered,    *)
(* and what is not in flight of them has landed (ReaderInv); published     *)
(* pages keep the right tiles (RingInv); the math unit's registers hold    *)
(* the next result (ComputeInv); and the tiles of the output not yet       *)
(* reached are untouched (OutInv).                                         *)
(***************************************************************************)
CallInv ==
  /\ wt \in Nat \ {0} /\ tpg \in 1 .. wt /\ wt % tpg = 0
  /\ bcast \in [Operands -> BOOLEAN]

Shaped ==
  /\ rpc \in [Cores -> {"start", "residents", "stream"}]
  /\ cpc \in [Cores -> {"zero", "math", "pack"}]
  /\ wpc \in [Cores -> {"wait", "flying", "landed"}]
  /\ published \in [Cores -> BOOLEAN]
  /\ issued \in [Cores -> SUBSET Streams] /\ reads \in [Cores -> SUBSET (Operands \X Nat)]
  /\ sent \in [Cores -> Nat] /\ made \in [Cores -> Nat] /\ written \in [Cores -> Nat]
  /\ DOMAIN dst = Cores /\ DOMAIN cb = Cores /\ DOMAIN cb_out = Cores
  /\ DOMAIN out = 0 .. wt - 1

\* The transfers a reader may have in flight.
GroupReads == Residents \X (0 .. tpg - 1)
TileReads(k) == issued[k] \X {sent[k]}

CountsInv(k) ==
  /\ sent[k] <= Count(k) /\ made[k] <= Count(k) /\ written[k] <= made[k]
  /\ made[k] - written[k] <= DEPTH
  /\ Streams # {} => made[k] <= sent[k] /\ sent[k] - made[k] <= DEPTH
  /\ issued[k] # {} => sent[k] < Count(k) /\ sent[k] - made[k] < DEPTH
  /\ cpc[k] = "pack" => made[k] < Count(k) /\ (Streams # {} => made[k] < sent[k])

ReaderInv(k) ==
  /\ rpc[k] = "start" => reads[k] = {}
  /\ rpc[k] # "stream" => issued[k] = {} /\ sent[k] = 0 /\ ~published[k]
  /\ reads[k] \subseteq GroupReads \cup TileReads(k)
  /\ published[k] => reads[k] \cap GroupReads = {}
  /\ \A x \in issued[k] :
       <<x, sent[k]>> \in reads[k] \/ cb[k][x][sent[k] % DEPTH] = First(k) + sent[k]
  /\ rpc[k] # "start" =>
       \A x \in Residents, p \in 0 .. tpg - 1 : <<x, p>> \in reads[k] \/ cb[k][x][p] = p

RingInv(k) ==
  /\ DOMAIN cb[k] = Operands /\ \A x \in Operands : DOMAIN cb[k][x] = 0 .. Pages(x) - 1
  /\ \A x \in Streams : \A i \in made[k] .. sent[k] - 1 : cb[k][x][i % DEPTH] = First(k) + i

ComputeInv(k) ==
  /\ cpc[k] = "pack" => dst[k] = Right(First(k) + made[k])
  /\ DOMAIN cb_out[k] = 0 .. DEPTH - 1
  /\ \A i \in written[k] .. made[k] - 1 : cb_out[k][i % DEPTH] = Right(First(k) + i)

Reached(k) == written[k] + (IF wpc[k] = "landed" THEN 1 ELSE 0)
OutInv(k) ==
  /\ wpc[k] # "wait" => written[k] < made[k]
  /\ \A i \in Reached(k) .. Count(k) - 1 : out[First(k) + i] = Old

CoreInv(k) == CountsInv(k) /\ ReaderInv(k) /\ RingInv(k) /\ ComputeInv(k)
FeedInv == CallInv /\ Shaped /\ (\A k \in Cores : CoreInv(k)) /\ (\A k \in Cores : OutInv(k))

-----------------------------------------------------------------------------
\* The shares of the cores.
LEMMA Units ==
  ASSUME CallInv
  PROVE  /\ units \in Nat /\ per_unit \in Nat \ {0} /\ units * per_unit = wt
         /\ Residents # {} => per_unit = tpg
<1>1. wt \in Nat \ {0} /\ tpg \in Nat \ {0} /\ wt % tpg = 0
  BY DEF CallInv
<1> DEFINE w == wt
<1> HIDE DEF w
<1>2. w \div tpg \in Int /\ w = (w \div tpg) * tpg
  BY <1>1, DivModFloor DEF w
<1> DEFINE q == w \div tpg
<1>3. q \in Int /\ w = q * tpg /\ w \in Nat
  BY <1>1, <1>2 DEF w
<1> HIDE DEF q
<1>4. q >= 0
  <2> SUFFICES ASSUME q < 0 PROVE FALSE
    BY <1>3
  <2>1. (-1 - q) * tpg >= 0
    BY <1>1, <1>3, ProductNat, -1 - q \in Nat
  <2>2. (-1 - q) * tpg = -tpg - q * tpg
    BY <1>1, <1>3
  <2> QED BY <1>1, <1>3, <2>1, <2>2
<1>5. units = (IF Residents # {} THEN q ELSE w) /\ per_unit = IF Residents # {} THEN tpg ELSE 1
  BY DEF units, per_unit, q, w
<1> QED BY <1>1, <1>3, <1>4, <1>5 DEF w

\* Shares are intervals of units that follow each other from 0 to units.
LEMMA ShareBounds ==
  ASSUME CallInv, NEW k \in Cores
  PROVE  /\ Share(k) \in Nat /\ Before(k) \in Nat /\ Before(k) + Share(k) <= units
         /\ \A j \in Cores : k < j => Before(k) + Share(k) <= Before(j)
<1> DEFINE q == units \div NumCores
           r == units % NumCores
<1>1. NumCores \in Nat \ {0} /\ k \in 0 .. NumCores - 1 /\ units \in Nat
  BY EltwiseAssumption, Units DEF Cores
<1>2. q \in Int /\ r \in 0 .. NumCores - 1 /\ units = q * NumCores + r
  BY <1>1, DivModFloor
<1>3. /\ Share(k) = q + (IF k < r THEN 1 ELSE 0)
      /\ \A j : Before(j) = j * q + (IF j < r THEN j ELSE r)
  BY DEF Share, Before
<1> HIDE DEF q, r
<1>4. q >= 0
  <2> SUFFICES ASSUME q < 0 PROVE FALSE
    BY <1>2
  <2>1. (-1 - q) * NumCores >= 0
    BY <1>1, <1>2, ProductNat, -1 - q \in Nat
  <2>2. (-1 - q) * NumCores = -NumCores - q * NumCores
    BY <1>1, <1>2
  <2> QED BY <1>1, <1>2, <2>1, <2>2
<1>5. k * q \in Nat
  BY <1>1, <1>2, <1>4, ProductNat
<1>6. Share(k) \in Nat /\ Before(k) \in Nat
  BY <1>1, <1>2, <1>3, <1>4, <1>5
<1>7. Before(k) + Share(k) = (k + 1) * q + (IF k < r THEN k + 1 ELSE r)
  <2>1. (k + 1) * q = k * q + q
    BY <1>1, <1>2
  <2> QED BY <1>1, <1>2, <1>3, <1>5, <2>1
<1>8. ASSUME NEW j \in k + 1 .. NumCores
      PROVE  Before(k) + Share(k) <= j * q + (IF j < r THEN j ELSE r)
  <2>1. (j - (k + 1)) * q >= 0
    BY <1>1, <1>2, <1>4, ProductNat, j - (k + 1) \in Nat
  <2>2. (j - (k + 1)) * q = j * q - (k + 1) * q
    BY <1>1, <1>2
  <2>3. j * q \in Int /\ (k + 1) * q \in Int
    BY <1>1, <1>2
  <2>4. (IF k < r THEN k + 1 ELSE r) <= (IF j < r THEN j ELSE r)
    BY <1>1, <1>2
  <2>5. Before(k) + Share(k) = (k + 1) * q + (IF k < r THEN k + 1 ELSE r)
    BY <1>7
  <2> QED BY <1>1, <1>2, <2>1, <2>2, <2>3, <2>4, <2>5
<1>9. Before(k) + Share(k) <= units
  BY <1>1, <1>2, <1>8
<1> QED BY <1>1, <1>3, <1>6, <1>8, <1>9 DEF Cores

LEMMA Shares ==
  ASSUME CallInv, NEW k \in Cores
  PROVE  /\ First(k) \in Nat /\ Count(k) \in Nat /\ First(k) + Count(k) <= wt
         /\ \A j \in Cores : k < j => First(k) + Count(k) <= First(j)
<1> DEFINE u == per_unit
           b == Before(k)
           s == Share(k)
<1>1. /\ b \in Nat /\ s \in Nat /\ b + s <= units /\ units \in Nat /\ u \in Nat \ {0}
      /\ units * u = wt
  BY ShareBounds, Units
<1>2. First(k) = b * u /\ Count(k) = s * u
  BY DEF First, Count
<1> HIDE DEF u, b, s
<1>3. b * u \in Nat /\ s * u \in Nat
  BY <1>1, ProductNat
<1>4. ASSUME NEW m \in Nat, b + s <= m PROVE b * u + s * u <= m * u
  <2>1. (m - (b + s)) * u >= 0
    BY <1>1, <1>4, ProductNat, m - (b + s) \in Nat
  <2>2. (m - (b + s)) * u = m * u - (b * u + s * u)
    BY <1>1
  <2>3. m * u \in Int
    BY <1>1
  <2> QED BY <1>3, <2>1, <2>2, <2>3
<1>5. b * u + s * u <= wt
  BY <1>1, <1>4
<1>6. ASSUME NEW j \in Cores, k < j PROVE b * u + s * u <= First(j)
  <2>1. Before(j) \in Nat /\ b + s <= Before(j)
    BY <1>6, ShareBounds DEF b, s
  <2> QED BY <1>4, <2>1 DEF First, u
<1> QED BY <1>2, <1>3, <1>5, <1>6

LEMMA SharesApart ==
  ASSUME CallInv, NEW j \in Cores, NEW k \in Cores, j # k,
         NEW a \in 0 .. Count(j) - 1, NEW b \in 0 .. Count(k) - 1
  PROVE  First(j) + a # First(k) + b
<1>1. j \in Int /\ k \in Int
  BY EltwiseAssumption DEF Cores
<1>2. /\ First(j) \in Nat /\ Count(j) \in Nat /\ First(k) \in Nat /\ Count(k) \in Nat
      /\ First(j) + Count(j) <= First(k) \/ First(k) + Count(k) <= First(j)
  BY <1>1, Shares
<1> QED BY <1>2

\* The compute kernel's place in the group is the output tile's.
LEMMA ResidentPlace ==
  ASSUME CallInv, NEW k \in Cores, NEW t \in Nat
  PROVE  ResidentTile(k, t) = (First(k) + t) % tpg /\ ResidentTile(k, t) \in 0 .. tpg - 1
<1> DEFINE f == First(k)
           q == f \div tpg
           r == f % tpg
           q2 == (r + t) \div tpg
           r2 == (r + t) % tpg
<1>1. f \in Nat /\ tpg \in Nat \ {0}
  BY Shares DEF CallInv
<1> HIDE DEF f
<1>2. q \in Int /\ r \in Int /\ f = q * tpg + r
  BY <1>1, DivModFloor
<1> HIDE DEF q, r
<1>3. q2 \in Int /\ r2 \in Int /\ r + t = q2 * tpg + r2 /\ 0 <= r2 /\ r2 < tpg
  BY <1>1, <1>2, DivModFloor
<1> HIDE DEF q2, r2
<1> DEFINE g == f + t
           p == q + q2
<1>4. g \in Int /\ p \in Int /\ g = p * tpg + r2
  BY <1>1, <1>2, <1>3
<1> HIDE DEF g, p
<1>5. r2 = g % tpg
  BY <1>1, <1>3, <1>4, DivModUnique
<1> QED BY <1>1, <1>3, <1>5 DEF ResidentTile, f, r, r2, g

-----------------------------------------------------------------------------
\* How the work is split and fed depends on the call only.
LEMMA CallStable ==
  ASSUME call' = call
  PROVE  /\ Operands' = Operands /\ Residents' = Residents /\ Streams' = Streams
         /\ wt' = wt /\ tpg' = tpg /\ bcast' = bcast /\ (CallInv => CallInv')
         /\ \A k : First(k)' = First(k) /\ Count(k)' = Count(k)
         /\ \A x : Pages(x)' = Pages(x)
         /\ \A t : Right(t)' = Right(t)
<1>1. /\ Operands' = Operands /\ Residents' = Residents /\ Streams' = Streams
      /\ wt' = wt /\ tpg' = tpg /\ bcast' = bcast
  BY DEF call, Operands, Residents, Streams, wt
<1>2. units' = units /\ per_unit' = per_unit
  BY <1>1 DEF units, per_unit
<1>3. \A k : First(k)' = First(k) /\ Count(k)' = Count(k)
  BY <1>2 DEF First, Count, Before, Share
<1> QED BY <1>1, <1>3 DEF CallInv, Pages, Right

\* A step of one core leaves what another core relies on alone.
LEMMA OtherCore ==
  ASSUME NEW j \in Cores, CoreInv(j), call' = call,
         rpc'[j] = rpc[j], issued'[j] = issued[j], reads'[j] = reads[j], sent'[j] = sent[j],
         published'[j] = published[j], cpc'[j] = cpc[j], dst'[j] = dst[j], made'[j] = made[j],
         written'[j] = written[j], cb'[j] = cb[j], cb_out'[j] = cb_out[j]
  PROVE  CoreInv(j)'
<1>1. CountsInv(j)'
  BY CallStable DEF CoreInv, CountsInv
<1>2. ReaderInv(j)'
  BY CallStable DEF CoreInv, ReaderInv, GroupReads, TileReads
<1>3. RingInv(j)'
  BY CallStable DEF CoreInv, RingInv
<1>4. ComputeInv(j)'
  BY CallStable DEF CoreInv, ComputeInv
<1> QED BY <1>1, <1>2, <1>3, <1>4 DEF CoreInv

LEMMA OtherOut ==
  ASSUME NEW j \in Cores, OutInv(j), call' = call, made'[j] >= made[j], made[j] \in Nat,
         written[j] \in Nat, made'[j] \in Nat,
         wpc'[j] = wpc[j], written'[j] = written[j], out' = out
  PROVE  OutInv(j)'
BY CallStable DEF OutInv, Reached

\* What the steps of a core rely on.
LEMMA CoreFacts ==
  ASSUME FeedInv, NEW k \in Cores
  PROVE  /\ CallInv /\ Shaped /\ CoreInv(k) /\ OutInv(k)
         /\ CountsInv(k) /\ ReaderInv(k) /\ RingInv(k) /\ ComputeInv(k)
         /\ Count(k) \in Nat /\ First(k) \in Nat /\ First(k) + Count(k) <= wt
         /\ sent[k] \in Nat /\ made[k] \in Nat /\ written[k] \in Nat
         /\ DEPTH \in Nat \ {0} /\ tpg \in Nat \ {0} /\ wt \in Nat \ {0}
BY Shares, EltwiseAssumption DEF FeedInv, CoreInv, Shaped, CallInv

\* The shared part of every step: the call and the output's shape stay.
LEMMA FillZeroStep ==
  ASSUME FeedInv, NEW k \in Cores, FillZero(k)
  PROVE  FeedInv'
<1> USE DEF FillZero, reader, writer
<1>0. call' = call /\ CallInv /\ Shaped /\ CallInv'
  BY CallStable, CoreFacts
<1>1. cpc' = [cpc EXCEPT ![k] = "math"] /\ cpc' \in [Cores -> {"zero", "math", "pack"}]
  BY <1>0 DEF Shaped
<1>2. Shaped'
  BY <1>0, <1>1, CallStable DEF Shaped
<1>3. ASSUME NEW j \in Cores PROVE CoreInv(j)' /\ OutInv(j)'
  <2>1. OutInv(j)'
    BY <1>0, CoreFacts, OtherOut
  <2>2. CASE j # k
    BY <1>0, <1>1, <2>1, <2>2, CoreFacts, OtherCore DEF Shaped
  <2>3. CASE j = k
    <3>1. CountsInv(k)' /\ RingInv(k)'
      <4>1. CountsInv(k) /\ RingInv(k) /\ cpc'[k] = "math"
        BY <1>0, <1>1, CoreFacts DEF Shaped
      <4> QED BY <1>0, <4>1, CallStable DEF CountsInv, RingInv
    <3>2. ReaderInv(k)'
      BY <1>0, CallStable, CoreFacts DEF ReaderInv, GroupReads, TileReads
    <3>3. ComputeInv(k)'
      BY <1>0, <1>1, CallStable, CoreFacts DEF ComputeInv, Shaped
    <3> QED BY <2>1, <2>3, <3>1, <3>2, <3>3 DEF CoreInv
  <2> QED BY <2>2, <2>3
<1> QED BY <1>0, <1>2, <1>3 DEF FeedInv

LEMMA ReaderStartStep ==
  ASSUME FeedInv, NEW k \in Cores, ReaderStart(k)
  PROVE  FeedInv'
<1> USE DEF ReaderStart, compute, writer
<1>0. call' = call /\ CallInv /\ Shaped /\ CallInv' /\ ReaderInv(k) /\ rpc[k] = "start"
  BY CallStable, CoreFacts
<1>1. /\ reads' = [reads EXCEPT ![k] = GroupReads]
      /\ rpc'[k] \in {"residents", "stream"} /\ rpc' \in [Cores -> {"start", "residents", "stream"}]
      /\ \A j \in Cores : j # k => rpc'[j] = rpc[j]
  BY <1>0 DEF Shaped, GroupReads
<1>2. GroupReads \in SUBSET (Operands \X Nat)
  BY <1>0 DEF CallInv, GroupReads, Residents
<1>3. reads' \in [Cores -> SUBSET (Operands \X Nat)] /\ reads'[k] = GroupReads
      /\ \A j \in Cores : j # k => reads'[j] = reads[j]
  BY <1>0, <1>1, <1>2 DEF Shaped
<1>4. Shaped'
  BY <1>0, <1>1, <1>3, CallStable DEF Shaped
<1>5. ASSUME NEW j \in Cores PROVE CoreInv(j)' /\ OutInv(j)'
  <2>1. OutInv(j)'
    BY <1>0, CoreFacts, OtherOut
  <2>2. CASE j # k
    BY <1>0, <1>1, <1>3, <2>1, <2>2, CoreFacts, OtherCore
  <2>3. CASE j = k
    <3>1. CountsInv(k)' /\ RingInv(k)' /\ ComputeInv(k)'
      <4>1. CountsInv(k) /\ RingInv(k) /\ ComputeInv(k)
        BY CoreFacts
      <4> QED BY <1>0, <4>1, CallStable DEF CountsInv, RingInv, ComputeInv
    <3>2. GroupReads' = GroupReads /\ Residents' = Residents /\ tpg' = tpg
      BY <1>0, CallStable DEF GroupReads
    <3>3. \A x \in Residents, p \in 0 .. tpg - 1 : <<x, p>> \in reads'[k]
      BY <1>3 DEF GroupReads
    <3>4. issued'[k] = {} /\ sent'[k] = 0 /\ ~published'[k]
      BY <1>0 DEF ReaderInv
    <3>5. ReaderInv(k)'
      BY <1>1, <1>3, <3>2, <3>3, <3>4 DEF ReaderInv
    <3> QED BY <2>1, <2>3, <3>1, <3>5 DEF CoreInv
  <2> QED BY <2>2, <2>3
<1> QED BY <1>0, <1>4, <1>5 DEF FeedInv

LEMMA PublishStep ==
  ASSUME FeedInv, NEW k \in Cores, PublishResidents(k)
  PROVE  FeedInv'
<1> USE DEF PublishResidents, ReadsLanded, compute, writer
<1>0. /\ call' = call /\ CallInv /\ Shaped /\ CallInv' /\ ReaderInv(k)
      /\ rpc[k] = "residents" /\ reads[k] = {}
  BY CallStable, CoreFacts
<1>1. /\ rpc'[k] = "stream" /\ rpc' \in [Cores -> {"start", "residents", "stream"}]
      /\ published'[k] /\ published' \in [Cores -> BOOLEAN]
      /\ \A j \in Cores : j # k => rpc'[j] = rpc[j] /\ published'[j] = published[j]
  BY <1>0 DEF Shaped
<1>2. Shaped'
  BY <1>0, <1>1, CallStable DEF Shaped
<1>3. ASSUME NEW j \in Cores PROVE CoreInv(j)' /\ OutInv(j)'
  <2>1. OutInv(j)'
    BY <1>0, CoreFacts, OtherOut
  <2>2. CASE j # k
    BY <1>0, <1>1, <2>1, <2>2, CoreFacts, OtherCore
  <2>3. CASE j = k
    <3>1. CountsInv(k)' /\ RingInv(k)' /\ ComputeInv(k)'
      <4>1. CountsInv(k) /\ RingInv(k) /\ ComputeInv(k)
        BY CoreFacts
      <4> QED BY <1>0, <4>1, CallStable DEF CountsInv, RingInv, ComputeInv
    <3>2. ReaderInv(k)'
      BY <1>0, <1>1, CallStable DEF ReaderInv
    <3> QED BY <2>1, <2>3, <3>1, <3>2 DEF CoreInv
  <2> QED BY <2>2, <2>3
<1> QED BY <1>0, <1>2, <1>3 DEF FeedInv

\* A tile of one more operand is asked for: there is a free page for it.
LEMMA GatherStep ==
  ASSUME FeedInv, NEW k \in Cores, NEW x \in Operands, Gather(k, x)
  PROVE  FeedInv'
<1> USE DEF Gather, SpaceFree, compute, writer
<1> DEFINE g == <<x, sent[k]>>
<1>0. /\ call' = call /\ CallInv /\ Shaped /\ CallInv' /\ ReaderInv(k) /\ CountsInv(k)
      /\ rpc[k] = "stream" /\ sent[k] < Count(k) /\ sent[k] - made[k] < DEPTH
      /\ x \in Streams /\ x \notin issued[k] /\ sent[k] \in Nat
  BY CallStable, CoreFacts
<1>1. /\ reads'[k] = reads[k] \cup {g} /\ reads' \in [Cores -> SUBSET (Operands \X Nat)]
      /\ issued'[k] = issued[k] \cup {x} /\ issued' \in [Cores -> SUBSET Streams]
      /\ \A j \in Cores : j # k => reads'[j] = reads[j] /\ issued'[j] = issued[j]
  <2>1. g \in Operands \X Nat
    BY <1>0
  <2> HIDE DEF g
  <2>2. reads' = [reads EXCEPT ![k] = @ \cup {g}] /\ issued' = [issued EXCEPT ![k] = @ \cup {x}]
    BY DEF g
  <2> QED BY <1>0, <2>1, <2>2 DEF Shaped
<1>2. Shaped'
  BY <1>0, <1>1, CallStable DEF Shaped
<1>3. ASSUME NEW j \in Cores PROVE CoreInv(j)' /\ OutInv(j)'
  <2>1. OutInv(j)'
    BY <1>0, CoreFacts, OtherOut
  <2>2. CASE j # k
    BY <1>0, <1>1, <2>1, <2>2, CoreFacts, OtherCore
  <2>3. CASE j = k
    <3>1. CountsInv(k)'
      BY <1>0, CallStable DEF CountsInv
    <3>7. RingInv(k)' /\ ComputeInv(k)'
      BY <1>0, CallStable, CoreFacts DEF RingInv, ComputeInv
    <3>2. /\ Residents' = Residents /\ tpg' = tpg /\ GroupReads' = GroupReads
          /\ First(k)' = First(k) /\ sent'[k] = sent[k] /\ cb' = cb
          /\ TileReads(k)' = TileReads(k) \cup {g}
      BY <1>0, <1>1, CallStable DEF GroupReads, TileReads
    <3>3. g \notin GroupReads
      BY <1>0 DEF GroupReads, Streams
    <3>4. reads'[k] \subseteq GroupReads' \cup TileReads(k)'
      BY <1>0, <1>1, <3>2 DEF ReaderInv
    <3>5. published[k] => reads'[k] \cap GroupReads = {}
      BY <1>0, <1>1, <3>3 DEF ReaderInv
    <3>6. ReaderInv(k)'
      BY <1>0, <1>1, <3>2, <3>4, <3>5 DEF ReaderInv
    <3> QED BY <2>1, <2>3, <3>1, <3>6, <3>7 DEF CoreInv
  <2> QED BY <2>2, <2>3
<1> QED BY <1>0, <1>2, <1>3 DEF FeedInv

\* Behind the barrier the tile of every streamed operand has landed.
LEMMA PushStep ==
  ASSUME FeedInv, NEW k \in Cores, Push(k)
  PROVE  FeedInv'
<1> USE DEF Push, ReadsLanded, compute, writer
<1>0. /\ call' = call /\ CallInv /\ Shaped /\ CallInv' /\ CoreInv(k) /\ ReaderInv(k)
      /\ CountsInv(k) /\ RingInv(k) /\ Count(k) \in Nat /\ made[k] \in Nat /\ sent[k] \in Nat
      /\ DEPTH \in Nat
      /\ rpc[k] = "stream" /\ sent[k] < Count(k) /\ issued[k] = Streams /\ reads[k] = {}
  BY CallStable, CoreFacts
<1>1. /\ sent'[k] = sent[k] + 1 /\ sent' \in [Cores -> Nat]
      /\ issued'[k] = {} /\ issued' \in [Cores -> SUBSET Streams]
      /\ published' \in [Cores -> BOOLEAN]
      /\ \A j \in Cores : j # k => /\ sent'[j] = sent[j] /\ issued'[j] = issued[j]
                                  /\ published'[j] = published[j]
  BY <1>0 DEF Shaped
<1>2. Shaped'
  BY <1>0, <1>1, CallStable DEF Shaped
<1>3. ASSUME NEW j \in Cores PROVE CoreInv(j)' /\ OutInv(j)'
  <2>1. OutInv(j)'
    BY <1>0, CoreFacts, OtherOut
  <2>2. CASE j # k
    BY <1>0, <1>1, <2>1, <2>2, CoreFacts, OtherCore
  <2>3. CASE j = k
    <3>1. CountsInv(k)'
      BY <1>0, <1>1, CallStable DEF CountsInv
    <3>2. RingInv(k)'
      <4> SUFFICES ASSUME NEW x \in Streams, NEW i \in made[k] .. sent[k]
                   PROVE  cb[k][x][i % DEPTH] = First(k) + i
        BY <1>0, <1>1, CallStable DEF RingInv
      <4>1. CASE i = sent[k]
        BY <1>0, <4>1 DEF ReaderInv
      <4>2. CASE i # sent[k]
        BY <1>0, <4>2 DEF RingInv
      <4> QED BY <4>1, <4>2
    <3>3. ComputeInv(k)'
      <4>1. ComputeInv(k)
        BY CoreFacts
      <4> QED BY <1>0, <4>1, CallStable DEF ComputeInv
    <3>4. ReaderInv(k)'
      BY <1>0, <1>1, CallStable DEF ReaderInv
    <3> QED BY <2>1, <2>3, <3>1, <3>2, <3>3, <3>4 DEF CoreInv
  <2> QED BY <2>2, <2>3
<1> QED BY <1>0, <1>2, <1>3 DEF FeedInv

\* A read lands in the page of its tile: no published tile of a streamed
\* operand has that page, and a resident group has a page for each of its.
LEMMA NocReadStep ==
  ASSUME FeedInv, NEW k \in Cores, NEW x \in Operands, NEW i \in Nat, NocRead(k, x, i)
  PROVE  FeedInv'
<1> USE DEF NocRead, compute, writer
<1> DEFINE g == <<x, i>>
           p == i % Pages(x)
           v == IF bcast[x] THEN i ELSE First(k) + i
<1>0. /\ call' = call /\ CallInv /\ Shaped /\ CallInv' /\ CoreInv(k) /\ ReaderInv(k)
      /\ CountsInv(k) /\ RingInv(k) /\ made[k] \in Nat /\ sent[k] \in Nat /\ Count(k) \in Nat
      /\ DEPTH \in Nat \ {0} /\ tpg \in Nat \ {0}
      /\ g \in reads[k] /\ reads' = [reads EXCEPT ![k] = @ \ {g}]
      /\ cb' = [cb EXCEPT ![k][x][p] = v] /\ g \in GroupReads \cup TileReads(k)
  BY CallStable, CoreFacts DEF ReaderInv
<1>1. \/ x \in Residents /\ i \in 0 .. tpg - 1 /\ p = i /\ v = i /\ Pages(x) = tpg
      \/ /\ x \in issued[k] /\ x \in Streams /\ i = sent[k] /\ p = i % DEPTH
         /\ v = First(k) + i /\ Pages(x) = DEPTH
  <2>1. CASE g \in GroupReads
    <3>1. x \in Residents /\ i \in 0 .. tpg - 1 /\ Pages(x) = tpg /\ bcast[x]
      BY <2>1 DEF GroupReads, Residents, Pages
    <3>2. i % tpg = i
      BY <1>0, <3>1, DivModUnique, i = 0 * tpg + i
    <3> QED BY <3>1, <3>2
  <2>2. CASE g \in TileReads(k)
    <3>1. x \in issued[k] /\ i = sent[k] /\ x \in Streams
      BY <1>0, <2>2 DEF TileReads, Shaped
    <3>2. ~bcast[x] /\ Pages(x) = DEPTH
      BY <3>1 DEF Streams, Residents, Pages
    <3> QED BY <3>1, <3>2
  <2> QED BY <1>0, <2>1, <2>2
<1> HIDE DEF p, v
<1>2. p \in 0 .. Pages(x) - 1
  <2>1. i % DEPTH \in 0 .. DEPTH - 1
    BY <1>0, DivModFloor
  <2> QED BY <1>1, <2>1
<1>3. /\ DOMAIN cb' = Cores /\ DOMAIN cb'[k] = Operands
      /\ \A y \in Operands : DOMAIN cb'[k][y] = 0 .. Pages(y) - 1
      /\ cb'[k][x][p] = v
      /\ \A y \in Operands : y # x => cb'[k][y] = cb[k][y]
      /\ \A q \in 0 .. Pages(x) - 1 : q # p => cb'[k][x][q] = cb[k][x][q]
      /\ \A j \in Cores : j # k => cb'[j] = cb[j]
  <2> DEFINE pages == [cb[k][x] EXCEPT ![p] = v]
             rings == [cb[k] EXCEPT ![x] = pages]
  <2>1. cb' = [cb EXCEPT ![k] = rings]
    BY <1>0
  <2>2. /\ DOMAIN cb = Cores /\ DOMAIN cb[k] = Operands
        /\ \A y \in Operands : DOMAIN cb[k][y] = 0 .. Pages(y) - 1
    BY <1>0 DEF RingInv, Shaped
  <2>3. /\ DOMAIN pages = 0 .. Pages(x) - 1 /\ pages[p] = v
        /\ \A q \in 0 .. Pages(x) - 1 : q # p => pages[q] = cb[k][x][q]
    BY <1>2, <2>2
  <2> HIDE DEF pages
  <2>4. /\ DOMAIN rings = Operands /\ rings[x] = pages
        /\ \A y \in Operands : y # x => rings[y] = cb[k][y]
    BY <2>2
  <2> HIDE DEF rings
  <2>5. /\ DOMAIN cb' = Cores /\ cb'[k] = rings /\ \A j \in Cores : j # k => cb'[j] = cb[j]
    BY <2>1, <2>2
  <2> QED BY <2>2, <2>3, <2>4, <2>5
<1>4. /\ reads'[k] = reads[k] \ {g} /\ reads' \in [Cores -> SUBSET (Operands \X Nat)]
      /\ \A j \in Cores : j # k => reads'[j] = reads[j]
  BY <1>0 DEF Shaped
<1>5. Shaped'
  BY <1>0, <1>3, <1>4, CallStable DEF Shaped
<1>6. ASSUME NEW j \in Cores PROVE CoreInv(j)' /\ OutInv(j)'
  <2>1. OutInv(j)'
    BY <1>0, CoreFacts, OtherOut
  <2>2. CASE j # k
    BY <1>0, <1>3, <1>4, <2>1, <2>2, CoreFacts, OtherCore
  <2>3. CASE j = k
    <3>1. CountsInv(k)' /\ ComputeInv(k)'
      <4>1. CountsInv(k) /\ ComputeInv(k) /\ call' = call
        BY <1>0, CoreFacts
      <4> QED BY <4>1, CallStable DEF CountsInv, ComputeInv
    <3>2. ASSUME NEW y \in Streams, NEW n \in made[k] .. sent[k] - 1
          PROVE  cb'[k][y][n % DEPTH] = First(k) + n
      <4>1. cb[k][y][n % DEPTH] = First(k) + n /\ y \in Operands /\ Pages(y) = DEPTH /\ n \in Nat
        BY <1>0 DEF RingInv, Streams, Residents, Pages
      <4>2. n % DEPTH \in 0 .. DEPTH - 1
        BY <1>0, <4>1, DivModFloor
      <4>3. y = x => n % DEPTH # p
        <5> SUFFICES ASSUME y = x PROVE n % DEPTH # i % DEPTH
          BY <1>1 DEF Streams
        <5>1. i = sent[k] /\ x \in issued[k]
          BY <1>1 DEF Streams
        <5>2. sent[k] - made[k] < DEPTH
          BY <1>0, <5>1 DEF CountsInv
        <5>3. n < i /\ i - n < DEPTH
          BY <1>0, <4>1, <5>1, <5>2
        <5> QED BY <1>0, <4>1, <5>3, LapDistinct
      <4> QED BY <1>3, <4>1, <4>2, <4>3
    <3>3. RingInv(k)'
      BY <1>0, <1>3, <3>2, CallStable DEF RingInv
    <3>4. ASSUME NEW y \in Residents, NEW q \in 0 .. tpg - 1, rpc[k] # "start"
          PROVE  <<y, q>> \in reads'[k] \/ cb'[k][y][q] = q
      <4>1. y \in Operands /\ Pages(y) = tpg /\ (<<y, q>> \in reads[k] \/ cb[k][y][q] = q)
        BY <1>0, <3>4 DEF ReaderInv, Residents, Pages
      <4>2. CASE y = x
        <5>1. p = i /\ v = i
          BY <1>1, <4>2 DEF Streams
        <5>2. CASE q = i
          BY <1>3, <4>2, <5>1, <5>2
        <5>3. CASE q # i
          BY <1>3, <1>4, <4>1, <5>1, <5>3
        <5> QED BY <5>2, <5>3
      <4>3. CASE y # x
        BY <1>3, <1>4, <4>1, <4>3
      <4> QED BY <4>2, <4>3
    <3>5. ASSUME NEW y \in issued[k]
          PROVE  <<y, sent[k]>> \in reads'[k] \/ cb'[k][y][sent[k] % DEPTH] = First(k) + sent[k]
      <4>1. /\ y \in Operands /\ y \in Streams /\ Pages(y) = DEPTH
            /\ <<y, sent[k]>> \in reads[k] \/ cb[k][y][sent[k] % DEPTH] = First(k) + sent[k]
        BY <1>0 DEF ReaderInv, Shaped, Streams, Residents, Pages
      <4>2. sent[k] % DEPTH \in 0 .. DEPTH - 1
        BY <1>0, DivModFloor
      <4>3. CASE y = x
        BY <1>1, <1>3, <4>1, <4>3 DEF Streams
      <4>4. CASE y # x
        BY <1>3, <1>4, <4>1, <4>2, <4>4
      <4> QED BY <4>3, <4>4
    <3>6. GroupReads' = GroupReads /\ TileReads(k)' = TileReads(k) /\ First(k)' = First(k)
          /\ Residents' = Residents /\ tpg' = tpg
      BY <1>0, CallStable DEF GroupReads, TileReads
    <3>7. ReaderInv(k)'
      <4>1. /\ rpc' = rpc /\ issued' = issued /\ sent' = sent /\ published' = published
            /\ reads'[k] \subseteq reads[k]
        BY <1>4
      <4> QED BY <1>0, <3>4, <3>5, <3>6, <4>1 DEF ReaderInv
    <3> QED BY <2>1, <2>3, <3>1, <3>3, <3>7 DEF CoreInv
  <2> QED BY <2>2, <2>3
<1> QED BY <1>0, <1>5, <1>6 DEF FeedInv

\* The tiles the math units are given are the right ones.
LEMMA FrontsRight ==
  ASSUME FeedInv, NEW k \in Cores, Residents # {} => published[k],
         Streams # {} => sent[k] > made[k]
  PROVE  Fronts(k, made[k]) = Right(First(k) + made[k])
<1>0. /\ CallInv /\ ReaderInv(k) /\ RingInv(k) /\ made[k] \in Nat /\ sent[k] \in Nat
      /\ tpg \in Nat \ {0}
  BY CoreFacts
<1>1. ASSUME NEW x \in Operands, bcast[x]
      PROVE  cb[k][x][ResidentTile(k, made[k])] = (First(k) + made[k]) % tpg
  <2> DEFINE p == ResidentTile(k, made[k])
  <2>1. x \in Residents /\ published[k]
    BY <1>1 DEF Residents
  <2>2. p = (First(k) + made[k]) % tpg /\ p \in 0 .. tpg - 1
    BY <1>0, ResidentPlace
  <2> HIDE DEF p
  <2>3. rpc[k] # "start" /\ <<x, p>> \notin reads[k]
    BY <1>0, <2>1, <2>2 DEF ReaderInv, GroupReads
  <2>4. cb[k][x][p] = p
    BY <1>0, <2>1, <2>2, <2>3 DEF ReaderInv
  <2> QED BY <2>2, <2>4 DEF p
<1>2. ASSUME NEW x \in Operands, ~bcast[x]
      PROVE  cb[k][x][made[k] % DEPTH] = First(k) + made[k]
  <2>1. x \in Streams /\ made[k] \in made[k] .. sent[k] - 1
    BY <1>0, <1>2 DEF Streams, Residents
  <2> QED BY <1>0, <2>1 DEF RingInv
<1> QED BY <1>1, <1>2 DEF Fronts, Right

LEMMA MathStep ==
  ASSUME FeedInv, NEW k \in Cores, Math(k)
  PROVE  FeedInv'
<1> USE DEF Math, reader, writer
<1>0. /\ call' = call /\ CallInv /\ Shaped /\ CallInv' /\ CountsInv(k) /\ ComputeInv(k)
      /\ made[k] < Count(k) /\ (Streams # {} => sent[k] > made[k])
      /\ made[k] \in Nat /\ sent[k] \in Nat
  BY CallStable, CoreFacts
<1>1. /\ cpc'[k] = "pack" /\ cpc' \in [Cores -> {"zero", "math", "pack"}]
      /\ dst'[k] = Right(First(k) + made[k]) /\ DOMAIN dst' = Cores
      /\ \A j \in Cores : j # k => cpc'[j] = cpc[j] /\ dst'[j] = dst[j]
  BY <1>0, FrontsRight DEF Shaped
<1>2. Shaped'
  BY <1>0, <1>1, CallStable DEF Shaped
<1>3. ASSUME NEW j \in Cores PROVE CoreInv(j)' /\ OutInv(j)'
  <2>1. OutInv(j)'
    BY <1>0, CoreFacts, OtherOut
  <2>2. CASE j # k
    BY <1>0, <1>1, <2>1, <2>2, CoreFacts, OtherCore
  <2>3. CASE j = k
    <3>1. CountsInv(k)' /\ ComputeInv(k)'
      BY <1>0, <1>1, CallStable DEF CountsInv, ComputeInv
    <3>2. RingInv(k)'
      BY <1>0, CallStable, CoreFacts DEF RingInv
    <3>3. ReaderInv(k)'
      BY <1>0, CallStable, CoreFacts DEF ReaderInv, GroupReads, TileReads
    <3> QED BY <2>1, <2>3, <3>1, <3>2, <3>3 DEF CoreInv
  <2> QED BY <2>2, <2>3
<1> QED BY <1>0, <1>2, <1>3 DEF FeedInv

\* A result is packed into a page no unwritten result has.
LEMMA PackStep ==
  ASSUME FeedInv, NEW k \in Cores, Pack(k)
  PROVE  FeedInv'
<1> USE DEF Pack, reader, writer
<1> DEFINE p == made[k] % DEPTH
<1>0. /\ call' = call /\ CallInv /\ Shaped /\ CallInv' /\ CountsInv(k) /\ ComputeInv(k)
      /\ cpc[k] = "pack" /\ made[k] - written[k] < DEPTH
      /\ made[k] \in Nat /\ sent[k] \in Nat /\ written[k] \in Nat /\ Count(k) \in Nat
      /\ DEPTH \in Nat \ {0}
  BY CallStable, CoreFacts
<1>1. p \in 0 .. DEPTH - 1 /\ cb_out' = [cb_out EXCEPT ![k][p] = dst[k]]
  BY <1>0, DivModFloor
<1> HIDE DEF p
<1>2. /\ cpc'[k] = "math" /\ cpc' \in [Cores -> {"zero", "math", "pack"}]
      /\ made'[k] = made[k] + 1 /\ made' \in [Cores -> Nat]
      /\ DOMAIN cb_out' = Cores /\ DOMAIN cb_out'[k] = 0 .. DEPTH - 1
      /\ cb_out'[k][p] = dst[k]
      /\ \A q \in 0 .. DEPTH - 1 : q # p => cb_out'[k][q] = cb_out[k][q]
      /\ \A j \in Cores : j # k => /\ cpc'[j] = cpc[j] /\ made'[j] = made[j]
                                  /\ cb_out'[j] = cb_out[j]
  <2>1. DOMAIN cb_out = Cores /\ DOMAIN cb_out[k] = 0 .. DEPTH - 1
    BY <1>0 DEF Shaped, ComputeInv
  <2>2. /\ DOMAIN cb_out' = Cores /\ DOMAIN cb_out'[k] = 0 .. DEPTH - 1
        /\ cb_out'[k][p] = dst[k]
        /\ \A q \in 0 .. DEPTH - 1 : q # p => cb_out'[k][q] = cb_out[k][q]
        /\ \A j \in Cores : j # k => cb_out'[j] = cb_out[j]
    BY <1>1, <2>1
  <2> QED BY <1>0, <2>2 DEF Shaped
<1>3. Shaped'
  BY <1>0, <1>2, CallStable DEF Shaped
<1>4. ASSUME NEW j \in Cores PROVE CoreInv(j)' /\ OutInv(j)'
  <2>1. OutInv(j)'
    <3>1. made'[j] >= made[j] /\ made'[j] \in Nat /\ made[j] \in Nat /\ written[j] \in Nat
      BY <1>0, <1>2 DEF Shaped
    <3> QED BY <1>0, <3>1, CoreFacts, OtherOut
  <2>2. CASE j # k
    BY <1>0, <1>2, <2>1, <2>2, CoreFacts, OtherCore
  <2>3. CASE j = k
    <3>1. CountsInv(k)'
      <4>1. /\ made'[k] = made[k] + 1 /\ sent'[k] = sent[k] /\ written'[k] = written[k]
            /\ issued'[k] = issued[k] /\ cpc'[k] # "pack"
        BY <1>0, <1>2
      <4>2. Count(k)' = Count(k) /\ Streams' = Streams
        BY <1>0, CallStable
      <4>3. /\ sent[k] <= Count(k) /\ made[k] < Count(k) /\ written[k] <= made[k]
            /\ Streams # {} => made[k] < sent[k] /\ sent[k] - made[k] <= DEPTH
            /\ issued[k] # {} => sent[k] < Count(k) /\ sent[k] - made[k] < DEPTH
        BY <1>0 DEF CountsInv
      <4> HIDE DEF Pack
      <4> QED BY <1>0, <4>1, <4>2, <4>3 DEF CountsInv
    <3>2. RingInv(k)'
      <4>1. \A i \in made'[k] .. sent[k] - 1 : i \in made[k] .. sent[k] - 1
        BY <1>0, <1>2
      <4> QED BY <1>0, <4>1, CallStable, CoreFacts DEF RingInv
    <3>3. ReaderInv(k)'
      BY <1>0, CallStable, CoreFacts DEF ReaderInv, GroupReads, TileReads
    <3>4. ASSUME NEW i \in written[k] .. made[k]
          PROVE  cb_out'[k][i % DEPTH] = Right(First(k) + i)
      <4>1. CASE i = made[k]
        BY <1>0, <1>2, <4>1 DEF ComputeInv, p
      <4>2. CASE i # made[k]
        <5>1. i \in Nat /\ i < made[k] /\ made[k] - i < DEPTH /\ i \in written[k] .. made[k] - 1
          BY <1>0, <4>2
        <5>2. i % DEPTH # p
          BY <1>0, <5>1, LapDistinct DEF p
        <5>3. i % DEPTH \in 0 .. DEPTH - 1
          BY <1>0, <5>1, DivModFloor
        <5> QED BY <1>0, <1>2, <5>1, <5>2, <5>3 DEF ComputeInv
      <4> QED BY <4>1, <4>2
    <3>5. ComputeInv(k)'
      BY <1>0, <1>2, <3>4, CallStable DEF ComputeInv
    <3> QED BY <2>1, <2>3, <3>1, <3>2, <3>3, <3>5 DEF CoreInv
  <2> QED BY <2>2, <2>3
<1> QED BY <1>0, <1>3, <1>4 DEF FeedInv

LEMMA ScatterStep ==
  ASSUME FeedInv, NEW k \in Cores, Scatter(k)
  PROVE  FeedInv'
<1> USE DEF Scatter, reader, compute
<1>0. /\ call' = call /\ CallInv /\ Shaped /\ CallInv' /\ OutInv(k) /\ wpc[k] = "wait"
      /\ made[k] > written[k]
  BY CallStable, CoreFacts
<1>1. /\ wpc'[k] = "flying" /\ wpc' \in [Cores -> {"wait", "flying", "landed"}]
      /\ \A j \in Cores : j # k => wpc'[j] = wpc[j]
  BY <1>0 DEF Shaped
<1>2. Shaped'
  BY <1>0, <1>1, CallStable DEF Shaped
<1>3. ASSUME NEW j \in Cores PROVE CoreInv(j)' /\ OutInv(j)'
  <2>1. CoreInv(j)'
    BY <1>0, CoreFacts, OtherCore
  <2>2. CASE j # k
    BY <1>0, <1>1, <2>1, <2>2, CoreFacts, OtherOut
  <2>3. CASE j = k
    BY <1>0, <1>1, <2>1, <2>3, CallStable DEF OutInv, Reached
  <2> QED BY <2>2, <2>3
<1> QED BY <1>0, <1>2, <1>3 DEF FeedInv

\* A write reaches an output tile no other core has a share in.
LEMMA NocWriteStep ==
  ASSUME FeedInv, NEW k \in Cores, NocWrite(k)
  PROVE  /\ FeedInv' /\ call' = call /\ First(k) + written[k] \in 0 .. wt - 1
         /\ out[First(k) + written[k]] = Old
         /\ out' = [out EXCEPT ![First(k) + written[k]] = Right(First(k) + written[k])]
<1> USE DEF NocWrite, reader, compute
<1> DEFINE t == First(k) + written[k]
<1>0. /\ call' = call /\ CallInv /\ Shaped /\ CallInv' /\ OutInv(k) /\ ComputeInv(k)
      /\ CountsInv(k) /\ wpc[k] = "flying"
      /\ made[k] \in Nat /\ written[k] \in Nat /\ Count(k) \in Nat /\ First(k) \in Nat
      /\ First(k) + Count(k) <= wt /\ wt \in Nat
  BY CallStable, CoreFacts
<1>1. written[k] < made[k] /\ written[k] < Count(k) /\ t \in 0 .. wt - 1
  BY <1>0 DEF OutInv, CountsInv
<1>2. out[t] = Old
  BY <1>0, <1>1 DEF OutInv, Reached
<1>3. out' = [out EXCEPT ![t] = Right(t)]
  <2>1. written[k] \in written[k] .. made[k] - 1
    BY <1>0, <1>1
  <2> QED BY <1>0, <2>1 DEF ComputeInv
<1> HIDE DEF t
<1>4. /\ wpc'[k] = "landed" /\ wpc' \in [Cores -> {"wait", "flying", "landed"}]
      /\ \A j \in Cores : j # k => wpc'[j] = wpc[j]
  BY <1>0 DEF Shaped
<1>5. Shaped'
  BY <1>0, <1>3, <1>4, CallStable DEF Shaped
<1>6. ASSUME NEW j \in Cores PROVE CoreInv(j)' /\ OutInv(j)'
  <2>1. CoreInv(j)'
    BY <1>0, CoreFacts, OtherCore
  <2>0. /\ OutInv(j) /\ written[j] \in Nat /\ Count(j) \in Nat /\ First(j) \in Nat
        /\ First(j) + Count(j) <= wt
    BY CoreFacts
  <2>2. CASE j # k
    <3>1. /\ Reached(j)' = Reached(j) /\ Reached(j) \in Nat
          /\ Count(j)' = Count(j) /\ First(j)' = First(j)
      BY <1>0, <1>4, <2>0, <2>2, CallStable DEF Reached
    <3>2. ASSUME NEW i \in Reached(j) .. Count(j) - 1 PROVE out'[First(j) + i] = Old
      <4>1. i \in 0 .. Count(j) - 1 /\ written[k] \in 0 .. Count(k) - 1 /\ First(j) + i \in 0 .. wt - 1
        BY <1>0, <1>1, <2>0, <3>1
      <4>2. First(j) + i # t
        BY <1>0, <2>2, <4>1, SharesApart DEF t
      <4>3. out[First(j) + i] = Old
        BY <2>0 DEF OutInv
      <4> QED BY <1>0, <1>3, <4>1, <4>2, <4>3 DEF Shaped
    <3> QED BY <1>0, <1>4, <2>0, <2>1, <2>2, <3>1, <3>2 DEF OutInv
  <2>3. CASE j = k
    <3>1. /\ Reached(k) = written[k] /\ Reached(k)' = written[k] + 1
          /\ Count(k)' = Count(k) /\ First(k)' = First(k)
      BY <1>0, <1>4, CallStable DEF Reached
    <3>2. ASSUME NEW i \in written[k] + 1 .. Count(k) - 1 PROVE out'[First(k) + i] = Old
      <4>1. First(k) + i # t /\ First(k) + i \in 0 .. wt - 1 /\ i \in Reached(k) .. Count(k) - 1
        BY <1>0, <3>1 DEF t
      <4>2. out[First(k) + i] = Old
        BY <1>0, <4>1 DEF OutInv
      <4> QED BY <1>0, <1>3, <4>1, <4>2 DEF Shaped
    <3> QED BY <1>0, <1>1, <2>1, <2>3, <3>1, <3>2 DEF OutInv
  <2> QED BY <2>2, <2>3
<1> QED BY <1>0, <1>1, <1>2, <1>3, <1>5, <1>6 DEF FeedInv, t

LEMMA PopStep ==
  ASSUME FeedInv, NEW k \in Cores, Pop(k)
  PROVE  FeedInv'
<1> USE DEF Pop, reader, compute
<1>0. /\ call' = call /\ CallInv /\ Shaped /\ CallInv' /\ OutInv(k) /\ wpc[k] = "landed"
      /\ CountsInv(k) /\ ComputeInv(k)
      /\ made[k] \in Nat /\ written[k] \in Nat /\ written[k] < made[k] /\ DEPTH \in Nat
  BY CallStable, CoreFacts DEF OutInv
<1>1. /\ wpc'[k] = "wait" /\ wpc' \in [Cores -> {"wait", "flying", "landed"}]
      /\ written'[k] = written[k] + 1 /\ written' \in [Cores -> Nat]
      /\ \A j \in Cores : j # k => wpc'[j] = wpc[j] /\ written'[j] = written[j]
  BY <1>0 DEF Shaped
<1>2. Shaped'
  BY <1>0, <1>1, CallStable DEF Shaped
<1>3. ASSUME NEW j \in Cores PROVE CoreInv(j)' /\ OutInv(j)'
  <2>1. CASE j # k
    <3>1. OutInv(j)'
      BY <1>0, <1>1, <2>1, CoreFacts, OtherOut
    <3> QED BY <1>0, <1>1, <2>1, <3>1, CoreFacts, OtherCore
  <2>2. CASE j = k
    <3>1. OutInv(k)'
      BY <1>0, <1>1, CallStable DEF OutInv, Reached
    <3>2. CountsInv(k)'
      BY <1>0, <1>1, CallStable DEF CountsInv
    <3>3. ComputeInv(k)'
      <4>1. \A i \in written'[k] .. made[k] - 1 : i \in written[k] .. made[k] - 1
        BY <1>0, <1>1
      <4> QED BY <1>0, <4>1, CallStable DEF ComputeInv
    <3>4. RingInv(k)'
      BY <1>0, CallStable, CoreFacts DEF RingInv
    <3>5. ReaderInv(k)'
      BY <1>0, CallStable, CoreFacts DEF ReaderInv, GroupReads, TileReads
    <3> QED BY <2>2, <3>1, <3>2, <3>3, <3>4, <3>5 DEF CoreInv
  <2> QED BY <2>1, <2>2
<1> QED BY <1>0, <1>2, <1>3 DEF FeedInv

-----------------------------------------------------------------------------
\* An accepted call starts in order.
THEOREM FeedInit == Init => FeedInv
<1> SUFFICES ASSUME Init PROVE FeedInv
  OBVIOUS
<1>0. PICK c \in Calls :
        /\ Accepted(c) /\ dout = EltwiseOut(c).desc
        /\ desc = Feed(c).maps /\ bcast = Feed(c).bcast /\ tpg = Feed(c).tpg
        /\ cb = [k \in Cores |-> [x \in DOMAIN c.views |-> [p \in 0 .. Pages(x) - 1 |-> Junk]]]
  BY DEF Init
<1>1. /\ rpc = [k \in Cores |-> "start"] /\ issued = [k \in Cores |-> {}]
      /\ reads = [k \in Cores |-> {}] /\ sent = [k \in Cores |-> 0]
      /\ published = [k \in Cores |-> FALSE]
      /\ cpc = [k \in Cores |-> "zero"] /\ dst = [k \in Cores |-> Junk]
      /\ made = [k \in Cores |-> 0]
      /\ wpc = [k \in Cores |-> "wait"] /\ written = [k \in Cores |-> 0]
      /\ cb_out = [k \in Cores |-> [p \in 0 .. DEPTH - 1 |-> Junk]]
      /\ out = [t \in 0 .. wt - 1 |-> Old]
  BY DEF Init, wt
<1>2. CallInv /\ Operands = DOMAIN c.views
  BY <1>0, FeedTyped DEF CallInv, Operands, wt
<1>3. Shaped
  BY <1>0, <1>1 DEF Shaped
<1>4. ASSUME NEW k \in Cores PROVE CoreInv(k) /\ OutInv(k)
  <2>0. /\ Count(k) \in Nat /\ First(k) \in Nat /\ First(k) + Count(k) <= wt
        /\ DEPTH \in Nat /\ wt \in Nat
    BY <1>2, Shares, EltwiseAssumption DEF CallInv
  <2>1. /\ rpc[k] = "start" /\ issued[k] = {} /\ reads[k] = {} /\ sent[k] = 0 /\ ~published[k]
        /\ cpc[k] = "zero" /\ made[k] = 0 /\ wpc[k] = "wait" /\ written[k] = 0
    BY <1>1
  <2>2. CountsInv(k)
    BY <2>0, <2>1 DEF CountsInv
  <2>3. ReaderInv(k)
    BY <2>1 DEF ReaderInv
  <2>4. RingInv(k)
    BY <1>0, <1>2, <2>1 DEF RingInv
  <2>5. ComputeInv(k)
    BY <1>1, <2>1 DEF ComputeInv
  <2>6. OutInv(k)
    <3>1. \A i \in 0 .. Count(k) - 1 : First(k) + i \in 0 .. wt - 1
      BY <2>0
    <3> QED BY <1>1, <2>0, <2>1, <3>1 DEF OutInv, Reached
  <2> QED BY <2>2, <2>3, <2>4, <2>5, <2>6 DEF CoreInv
<1> QED BY <1>2, <1>3, <1>4 DEF FeedInv

LEMMA FeedStutter ==
  ASSUME FeedInv, UNCHANGED vars
  PROVE  FeedInv'
<1> USE DEF vars, reader, compute, writer
<1>1. call' = call /\ CallInv' /\ Shaped'
  BY CallStable DEF FeedInv, Shaped
<1>2. ASSUME NEW j \in Cores PROVE CoreInv(j)' /\ OutInv(j)'
  BY <1>1, CoreFacts, OtherCore, OtherOut
<1> QED BY <1>1, <1>2 DEF FeedInv

\* Every step keeps the invariant.
THEOREM FeedStep == FeedInv /\ [Next]_vars => FeedInv'
<1> SUFFICES ASSUME FeedInv, [Next]_vars PROVE FeedInv'
  OBVIOUS
<1>1. ASSUME NEW k \in Cores, Reader(k) PROVE FeedInv'
  BY <1>1, ReaderStartStep, PublishStep, PushStep, GatherStep DEF Reader
<1>2. ASSUME NEW k \in Cores, Compute(k) PROVE FeedInv'
  BY <1>2, FillZeroStep, MathStep, PackStep DEF Compute
<1>3. ASSUME NEW k \in Cores, Writer(k) PROVE FeedInv'
  BY <1>3, ScatterStep, PopStep DEF Writer
<1>4. ASSUME NEW k \in Cores, Noc(k) PROVE FeedInv'
  <2>1. ASSUME NEW x \in Operands, NEW i \in 0 .. wt - 1, NocRead(k, x, i) PROVE FeedInv'
    BY <2>1, NocReadStep, i \in Nat
  <2> QED BY <1>4, <2>1, NocWriteStep DEF Noc
<1>5. CASE UNCHANGED vars
  BY <1>5, FeedStutter
<1> QED BY <1>1, <1>2, <1>3, <1>4, <1>5 DEF Next, Terminated, Active

\* No buffer is overfilled, no kernel handles more than its share, and what
\* is in flight belongs to the output.
THEOREM TypesHold == Spec => []TypeOK
<1>1. ASSUME FeedInv PROVE TypeOK
  <2>1. CallInv /\ Shaped
    BY <1>1 DEF FeedInv
  <2>2. ASSUME NEW k \in Cores
        PROVE  /\ issued[k] \subseteq Streams
               /\ reads[k] \subseteq Operands \X (0 .. wt - 1)
               /\ sent[k] \in 0 .. Count(k) /\ made[k] \in 0 .. Count(k)
               /\ Streams # {} => made[k] <= sent[k]
               /\ sent[k] - made[k] + (IF issued[k] # {} THEN 1 ELSE 0) <= DEPTH \/ Streams = {}
               /\ written[k] \in 0 .. made[k] /\ made[k] - written[k] <= DEPTH
    <3>1. /\ CountsInv(k) /\ ReaderInv(k) /\ Count(k) \in Nat /\ First(k) \in Nat
          /\ First(k) + Count(k) <= wt /\ wt \in Nat /\ DEPTH \in Nat
          /\ sent[k] \in Nat /\ made[k] \in Nat /\ written[k] \in Nat
          /\ issued[k] \subseteq Streams /\ tpg \in 1 .. wt
      BY <1>1, CoreFacts DEF Shaped, CallInv
    <3>2. issued[k] # {} => sent[k] \in 0 .. wt - 1
      BY <3>1 DEF CountsInv
    <3>3. GroupReads \subseteq Operands \X (0 .. wt - 1)
      <4>1. 0 .. tpg - 1 \subseteq 0 .. wt - 1
        BY <3>1
      <4> QED BY <4>1 DEF GroupReads, Residents
    <3>4. TileReads(k) \subseteq Operands \X (0 .. wt - 1)
      BY <3>1, <3>2 DEF TileReads, Streams
    <3>5. reads[k] \subseteq Operands \X (0 .. wt - 1)
      BY <3>1, <3>3, <3>4 DEF ReaderInv
    <3>6. issued[k] # {} => Streams # {}
      BY <3>1
    <3> QED BY <3>1, <3>5, <3>6 DEF CountsInv
  <2> QED BY <2>1, <2>2 DEF TypeOK, CallInv, Shaped
<1> QED BY <1>1, FeedInit, FeedStep, PTL DEF Spec

\* Whatever a kernel may read is the right tile: streamed fronts, the resident
\* group, and results waiting to be written.
THEOREM PublishedHolds == Spec => []PublishedExact
<1>1. ASSUME FeedInv, NEW k \in Active
      PROVE  /\ \A x \in Streams : \A i \in made[k] .. sent[k] - 1 :
                   cb[k][x][i % DEPTH] = First(k) + i
             /\ published[k] => \A x \in Residents : \A p \in 0 .. tpg - 1 : cb[k][x][p] = p
             /\ \A i \in written[k] .. made[k] - 1 : cb_out[k][i % DEPTH] = Right(First(k) + i)
  <2>1. ReaderInv(k) /\ RingInv(k) /\ ComputeInv(k)
    BY <1>1, CoreFacts DEF Active
  <2>2. ASSUME published[k], NEW x \in Residents, NEW p \in 0 .. tpg - 1 PROVE cb[k][x][p] = p
    <3>1. rpc[k] # "start" /\ <<x, p>> \notin reads[k]
      BY <2>1, <2>2 DEF ReaderInv, GroupReads
    <3> QED BY <2>1, <3>1 DEF ReaderInv
  <2> QED BY <2>1, <2>2 DEF RingInv, ComputeInv
<1>2. FeedInv => PublishedExact
  BY <1>1 DEF PublishedExact
<1> QED BY <1>2, FeedInit, FeedStep, PTL DEF Spec

-----------------------------------------------------------------------------
(***************************************************************************)
(* Refinement: a NoC write that reaches the output emits a tile that was   *)
(* Old; every other step leaves the result as it is.                       *)
(***************************************************************************)
LEMMA MeaningStable ==
  ASSUME call' = call
  PROVE  /\ \A t, f : MadeOf(t, f)' = MadeOf(t, f)
         /\ \A t : Promise!Want(t)' = Promise!Want(t)
         /\ OperandsCover => OperandsCover'
         /\ UNCHANGED <<meant, dout.Ro, dout.Co>>
<1>1. desc' = desc /\ dout' = dout /\ meant' = meant
  BY DEF call
<1>2. ASSUME NEW t, NEW f PROVE MadeOf(t, f)' = MadeOf(t, f)
  BY <1>1 DEF MadeOf, Cells, Element, Operands
<1>3. ASSUME NEW t PROVE Promise!Want(t)' = Promise!Want(t)
  BY <1>1 DEF Promise!Want, Promise!Live, Promise!Row, Promise!Col, Promise!Across
<1>4. ASSUME OperandsCover PROVE OperandsCover'
  <2>1. wt' = wt /\ \A t : Right(t)' = Right(t)
    BY CallStable
  <2> QED BY <1>2, <1>3, <1>4, <2>1 DEF OperandsCover
<1> QED BY <1>1, <1>2, <1>3, <1>4

LEMMA QuietStep ==
  ASSUME call' = call, out' = out
  PROVE  UNCHANGED Promise!vars
<1>1. result' = result
  BY MeaningStable DEF result
<1> QED BY <1>1, MeaningStable DEF Promise!vars

LEMMA WriteEmits ==
  ASSUME FeedInv, OperandsCover, NEW k \in Cores, NocWrite(k)
  PROVE  [Promise!Next]_(Promise!vars)
<1> DEFINE t == First(k) + written[k]
           v == Right(t)
<1>1. /\ call' = call /\ t \in 0 .. wt - 1 /\ out[t] = Old /\ out' = [out EXCEPT ![t] = v]
      /\ DOMAIN out = 0 .. wt - 1
  BY NocWriteStep, CoreFacts DEF Shaped
<1>2. MadeOf(t, v) = Promise!Want(t)
  BY <1>1 DEF OperandsCover
<1> HIDE DEF t, v
<1>3. CASE v = Old
  <2>1. DOMAIN out' = DOMAIN out /\ \A n \in DOMAIN out : out'[n] = out[n]
    BY <1>1, <1>3
  <2>2. result' = result
    BY <1>1, <2>1, MeaningStable DEF result
  <2> QED BY <1>1, <2>2, MeaningStable DEF Promise!vars
<1>4. CASE v # Old
  <2>1. result[t] = Old /\ t \in DOMAIN result /\ DOMAIN result = DOMAIN out
    BY <1>1 DEF result
  <2>2. result' = [result EXCEPT ![t] = Promise!Want(t)]
    <3>1. /\ result = [n \in DOMAIN out |-> IF out[n] = Old THEN Old ELSE MadeOf(n, out[n])]
          /\ result' = [n \in DOMAIN out' |->
                          IF out'[n] = Old THEN Old ELSE MadeOf(n, out'[n])]
      BY <1>1, MeaningStable DEF result
    <3> QED BY <1>1, <1>2, <1>4, <3>1
  <2> QED BY <1>1, <2>1, <2>2, MeaningStable DEF Promise!Next, Promise!Emit
<1> QED BY <1>3, <1>4

\* When the operands cover the output, each of its elements is made of the
\* right source elements, appears once and never changes, in every
\* interleaving and however the operands are fed.
THEOREM FeedImplementsElementwise == Spec /\ OperandsCover => ImplementsElementwise
<1>1. ASSUME Init PROVE Promise!Init
  <2>1. out = [t \in 0 .. wt - 1 |-> Old]
    BY <1>1 DEF Init, wt
  <2> QED BY <2>1 DEF Promise!Init, result
<1>2. ASSUME FeedInv, OperandsCover, [Next]_vars
      PROVE  OperandsCover' /\ [Promise!Next]_(Promise!vars)
  <2> USE DEF vars, reader, compute, writer
  <2>1. ASSUME NEW k \in Cores, NocWrite(k)
        PROVE  OperandsCover' /\ [Promise!Next]_(Promise!vars)
    BY <1>2, <2>1, WriteEmits, MeaningStable DEF NocWrite
  <2>2. ASSUME call' = call, out' = out
        PROVE  OperandsCover' /\ [Promise!Next]_(Promise!vars)
    BY <1>2, <2>2, QuietStep, MeaningStable
  <2>3. ASSUME NEW k \in Cores,
               Reader(k) \/ Compute(k) \/ Writer(k)
                 \/ \E x \in Operands : \E i \in 0 .. wt - 1 : NocRead(k, x, i)
        PROVE  call' = call /\ out' = out
    <3>1. Reader(k) => call' = call /\ out' = out
      BY DEF Reader, ReaderStart, PublishResidents, Push, Gather
    <3>2. Compute(k) => call' = call /\ out' = out
      BY DEF Compute, FillZero, Math, Pack
    <3>3. Writer(k) => call' = call /\ out' = out
      BY DEF Writer, Scatter, Pop
    <3>4. ASSUME NEW x, NEW i, NocRead(k, x, i) PROVE call' = call /\ out' = out
      BY <3>4 DEF NocRead
    <3> QED BY <2>3, <3>1, <3>2, <3>3, <3>4
  <2>4. CASE UNCHANGED vars
    BY <2>2, <2>4
  <2> QED BY <1>2, <2>1, <2>2, <2>3, <2>4 DEF Next, Terminated, Active, Noc
<1> QED BY <1>1, <1>2, FeedInit, FeedStep, PTL DEF Spec, ImplementsElementwise, Promise!Spec
-----------------------------------------------------------------------------
(***************************************************************************)
(* Which operands cover the output.  They present linear maps as wide as   *)
(* the output, and an operand with fewer rows than the output's view is    *)
(* one row for a tensor of several, or whole tile rows.  In a token shift  *)
(* a and b have a row for each token, and the weights' rows are as far     *)
(* apart as the host takes them to be; otherwise no row is stretched.      *)
(***************************************************************************)
Stretched(c, o) ==
  c.op = "lerp" /\ c.views[2].rows = Tokens(c) /\ o.desc.Ro = Tokens(c) * c.views[3].rows
RowMap == [base : Int, S_row : Int, Cs : Int, Ro : Int, Co : Int, P : Int, A : Int, B : Int]
Presents(v, o) ==
  /\ v.desc \in RowMap /\ v.desc.P = 0 /\ v.desc.Co = o.desc.Co
  /\ v.rows \in Nat \ {0}
Regular(c, o) ==
  /\ o.desc \in RowMap /\ \A x \in DOMAIN c.views : Presents(c.views[x], o)
  /\ IF Shifted(c, o)
     THEN /\ \A x \in 1 .. 2 : c.views[x].desc.Ro = Tokens(c)
          /\ o.desc.Ro = Tokens(c) * WeightRows(c)
          /\ c.views[3].desc.Ro \div WeightRows(c) = wstride(c)
     ELSE /\ \A x \in DOMAIN c.views :
               LET d == c.views[x].desc
               IN  RowBroadcast(d, o.rows) \/ d.Ro >= o.desc.Ro \/ d.Ro % TILE = 0
          /\ Stretched(c, o) => Tokens(c) = 1 /\ WeightRows(c) = c.views[3].desc.Ro
RegularCalls == \A c \in Calls : Accepted(c) => Regular(c, EltwiseOut(c))

\* The output cell of a tile: a row and a column of the output.
LEMMA CellPlace ==
  ASSUME CallInv, NonEmpty(dout), NEW t \in 0 .. wt - 1, NEW cell \in Cells(t)
  PROVE  /\ n_otc(dout) \in Nat \ {0} /\ t \in Nat /\ cell[1] \in 0 .. TILE - 1
         /\ (t \div n_otc(dout)) * TILE + cell[1] \in 0 .. dout.Ro - 1
         /\ (t % n_otc(dout)) * TILE + cell[2] \in 0 .. dout.Co - 1
<1> DEFINE a == n_otc(dout)
<1>1. a \in Nat \ {0}
  BY AcrossPositive DEF NonEmpty, n_otc
<1>2. t \in Nat /\ TILE \in Nat \ {0}
  BY TileAssumption DEF CallInv
<1>3. cell[1] \in 0 .. TILE - 1 /\ cell[2] \in 0 .. TILE - 1
      /\ (t \div a) * TILE + cell[1] < dout.Ro /\ (t % a) * TILE + cell[2] < dout.Co
  BY DEF Cells
<1> HIDE DEF a
<1>4. /\ t \div a \in Int /\ t % a \in Int /\ t = ((t \div a) * a) + (t % a)
      /\ 0 <= t % a /\ t % a < a
  BY <1>1, <1>2, DivModFloor
<1> DEFINE q == t \div a
           r == t % a
<1>5. /\ q \in Int /\ r \in Int /\ t = q * a + r /\ 0 <= r /\ r < a
      /\ q * TILE + cell[1] < dout.Ro /\ r * TILE + cell[2] < dout.Co
  BY <1>3, <1>4
<1> HIDE DEF q, r
<1>6. q >= 0
  <2> SUFFICES ASSUME q < 0 PROVE FALSE
    BY <1>5
  <2>1. (-1 - q) * a >= 0
    BY <1>1, <1>5, ProductNat, -1 - q \in Nat
  <2>2. (-1 - q) * a = -a - q * a
    BY <1>1, <1>5
  <2> QED BY <1>1, <1>2, <1>5, <2>1, <2>2
<1>7. q * TILE \in Nat /\ r * TILE \in Nat
  BY <1>2, <1>5, <1>6, ProductNat
<1>8. q * TILE + cell[1] \in 0 .. dout.Ro - 1 /\ r * TILE + cell[2] \in 0 .. dout.Co - 1
  BY <1>2, <1>3, <1>5, <1>7 DEF NonEmpty
<1> QED BY <1>1, <1>2, <1>3, <1>8 DEF a, q, r

-----------------------------------------------------------------------------
\* What a linear map of the output's width holds at a cell of its tile t,
\* and what the row map of a token shift does.
LEMMA LinearElement ==
  ASSUME CallInv, NonEmpty(dout), NEW t \in 0 .. wt - 1, NEW cell \in Cells(t), NEW d,
         d.P = 0, d.Co = dout.Co, NEW u \in Nat,
         u % n_otc(dout) = t % n_otc(dout),
         (u \div n_otc(dout)) * TILE + cell[1] < d.Ro
  PROVE  Element(d, u, cell)
           = d.base + ((u \div n_otc(dout)) * TILE + cell[1]) * d.S_row
               + ((t % n_otc(dout)) * TILE + cell[2])
<1>1. n_otc(d) = n_otc(dout)
  BY DEF n_otc
<1>2. (t % n_otc(dout)) * TILE + cell[2] < d.Co
  BY CellPlace DEF NonEmpty
<1> QED BY <1>1, <1>2 DEF Element

LEMMA GroupedElement ==
  ASSUME CallInv, NonEmpty(dout), dout \in RowMap,
         NEW t \in 0 .. wt - 1, NEW cell \in Cells(t), NEW e, NEW P \in Nat \ {0}, NEW A, NEW B
  PROVE  Element(make_grouped_desc(e, dout, P, A, B), t, cell)
           = e.base + (A * (((t \div n_otc(dout)) * TILE + cell[1]) \div P)
                        + B * (((t \div n_otc(dout)) * TILE + cell[1]) % P)) * e.S_row
               + ((t % n_otc(dout)) * TILE + cell[2])
<1> DEFINE d == make_grouped_desc(e, dout, P, A, B)
<1>1. /\ d.Ro = dout.Ro /\ d.Co = dout.Co /\ d.P = P /\ d.A = A /\ d.B = B
      /\ d.base = e.base /\ d.S_row = e.S_row
  BY DEF make_grouped_desc, RowMap
<1> HIDE DEF d
<1>2. n_otc(d) = n_otc(dout)
  BY <1>1 DEF n_otc
<1>3. (t \div n_otc(dout)) * TILE + cell[1] < d.Ro /\ (t % n_otc(dout)) * TILE + cell[2] < d.Co
  BY <1>1 DEF Cells
<1>4. Element(d, t, cell)
        = d.base + (d.A * (((t \div n_otc(dout)) * TILE + cell[1]) \div d.P)
                      + d.B * (((t \div n_otc(dout)) * TILE + cell[1]) % d.P)) * d.S_row
            + ((t % n_otc(dout)) * TILE + cell[2])
  BY <1>1, <1>2, <1>3 DEF Element
<1> QED BY <1>1, <1>4 DEF d

-----------------------------------------------------------------------------
\* The state of a call: how it is fed and what it means.
Called(c) ==
  /\ c \in Calls /\ Accepted(c) /\ CallInv /\ NonEmpty(dout)
  /\ dout = EltwiseOut(c).desc /\ Regular(c, EltwiseOut(c))
  /\ meant = [x \in DOMAIN c.views |-> Meant(c, EltwiseOut(c), x)]
  /\ desc = Feed(c).maps /\ bcast = Feed(c).bcast /\ tpg = Feed(c).tpg

\* The tile an operand is fed gives what it is meant to give, cell by cell.
Covers(x) ==
  \A t \in 0 .. wt - 1 : \A cell \in Cells(t) :
    Element(desc[x], Right(t)[x], cell)
      = meant[x].base
          + ((((t \div n_otc(dout)) * TILE + cell[1]) \div meant[x].span) % meant[x].Ro)
              * meant[x].S_row
          + ((t % n_otc(dout)) * TILE + cell[2])

\* Outside a token shift an operand is meant to repeat its rows.
LEMMA MeantPlain ==
  ASSUME NEW c, Called(c), ~Shifted(c, EltwiseOut(c)), NEW x \in DOMAIN c.views
  PROVE  /\ meant[x].base = c.views[x].desc.base /\ meant[x].span = 1
         /\ meant[x].Ro = c.views[x].desc.Ro /\ meant[x].S_row = c.views[x].desc.S_row
         /\ c.views[x].desc.base \in Int /\ c.views[x].desc.S_row \in Int
         /\ c.views[x].desc.Ro \in Nat \ {0}
<1> DEFINE o == EltwiseOut(c)
           d == c.views[x].desc
           stretched == /\ c.op = "lerp" /\ x = 3
                        /\ c.views[2].rows = Tokens(c) /\ o.desc.Ro = Tokens(c) * c.views[x].rows
<1>1. d.base \in Int /\ d.S_row \in Int /\ d.Ro \in Nat \ {0}
  BY CallsAssumption DEF Called, Regular, Presents, NonEmpty, RowMap
<1>2. meant[x] = [base |-> d.base, Co |-> d.Co,
                  S_row |-> d.S_row * (IF stretched THEN d.Ro \div c.views[x].rows ELSE 1),
                  Ro |-> IF stretched THEN c.views[x].rows ELSE d.Ro,
                  span |-> IF stretched THEN Tokens(c) ELSE 1]
  BY Zenon DEF Called, Meant
<1>3. CASE stretched
  <2>1. Tokens(c) = 1 /\ c.views[x].rows = d.Ro
    BY <1>3, Zenon DEF Called, Regular, Stretched, WeightRows
  <2>2. d.Ro \div d.Ro = 1
    <3> HIDE DEF d
    <3>1. d.Ro = 1 * d.Ro + 0
      BY <1>1
    <3> QED BY <1>1, <3>1, DivModUnique
  <2> HIDE DEF d, stretched
  <2> QED BY <1>1, <1>2, <1>3, <2>1, <2>2 DEF d
<1>4. CASE ~stretched
  <2> HIDE DEF d, stretched
  <2> QED BY <1>1, <1>2, <1>4 DEF d
<1> QED BY <1>3, <1>4

\* How an operand is walked outside a token shift.
LEMMA FedPlain ==
  ASSUME NEW c, Called(c), ~Shifted(c, EltwiseOut(c)), NEW x \in DOMAIN c.views
  PROVE  /\ desc[x] = Widened(c.views[x].desc, dout, EltwiseOut(c).rows)
         /\ bcast[x] = Resident(c.views[x].desc, dout, EltwiseOut(c).rows)
         /\ x \in Operands /\ c.views[x].desc \in RowMap
         /\ c.views[x].desc.P = 0 /\ c.views[x].desc.Co = dout.Co
         /\ Classified(c.views[x].desc, dout, EltwiseOut(c).rows)
<1>1. /\ desc = [y \in DOMAIN c.views |-> Widened(c.views[y].desc, dout, EltwiseOut(c).rows)]
      /\ bcast = [y \in DOMAIN c.views |-> Resident(c.views[y].desc, dout, EltwiseOut(c).rows)]
  BY DEF Called, Feed
<1>2. c.views[x].desc.P = 0 /\ c.views[x].desc.Co = dout.Co /\ c.views[x].desc \in RowMap
  BY DEF Called, Regular, Presents
<1>3. Classified(c.views[x].desc, dout, EltwiseOut(c).rows)
  BY DEF Called, Accepted
<1> QED BY <1>1, <1>2, <1>3 DEF Operands

\* One row, replicated.
LEMMA RowCovers ==
  ASSUME NEW c, Called(c), ~Shifted(c, EltwiseOut(c)), NEW x \in DOMAIN c.views,
         RowBroadcast(c.views[x].desc, EltwiseOut(c).rows)
  PROVE  Covers(x)
<1> DEFINE d == c.views[x].desc
           w == [d EXCEPT !.S_row = 0, !.Ro = dout.Ro]
<1>1. /\ desc[x] = w /\ bcast[x] = FALSE /\ x \in Operands
      /\ d.P = 0 /\ d.Co = dout.Co /\ d \in RowMap
  BY FedPlain DEF Widened, Resident
<1>2. /\ meant[x].base = d.base /\ meant[x].Ro = 1 /\ meant[x].S_row = d.S_row
      /\ d.base \in Int /\ d.S_row \in Int /\ meant[x].span = 1
  BY MeantPlain DEF RowBroadcast
<1>3. /\ w.P = 0 /\ w.Co = dout.Co /\ w.base = d.base /\ w.Ro = dout.Ro /\ w.S_row = 0
  BY <1>1 DEF RowMap
<1> HIDE DEF w, d
<1>4. ASSUME NEW t \in 0 .. wt - 1, NEW cell \in Cells(t)
      PROVE  Element(desc[x], Right(t)[x], cell)
               = meant[x].base
                   + ((((t \div n_otc(dout)) * TILE + cell[1]) \div meant[x].span) % meant[x].Ro)
                       * meant[x].S_row
                   + ((t % n_otc(dout)) * TILE + cell[2])
  <2> DEFINE R == (t \div n_otc(dout)) * TILE + cell[1]
             C == (t % n_otc(dout)) * TILE + cell[2]
  <2>1. R \in 0 .. dout.Ro - 1 /\ C \in 0 .. dout.Co - 1 /\ t \in Nat /\ dout.Ro \in Nat
    BY <1>4, CellPlace DEF Called, NonEmpty
  <2>2. Right(t)[x] = t
    BY <1>1 DEF Right
  <2>3. Element(w, t, cell) = w.base + R * w.S_row + C
    BY <1>3, <1>4, <2>1, LinearElement DEF Called
  <2> HIDE DEF R, C
  <2>4. (R \div 1) % 1 = 0
    <3>1. R \div 1 = R
      BY <2>1, DivModUnique, R = R * 1 + 0
    <3>2. R % 1 = 0
      BY <2>1, DivModUnique, R = R * 1 + 0
    <3> QED BY <3>1, <3>2
  <2>5. Element(w, t, cell) = d.base + C
    BY <1>2, <1>3, <2>1, <2>3
  <2>6. d.base + ((R \div 1) % 1) * d.S_row + C = d.base + C
    BY <1>2, <2>1, <2>4
  <2> QED BY <1>1, <1>2, <2>2, <2>5, <2>6 DEF R, C
<1> QED BY <1>4 DEF Covers

\* Whole tiles.
LEMMA TileRows ==
  ASSUME NEW x \in Nat \ {0}
  PROVE  /\ TilesAcross(x) \in Nat \ {0} /\ x <= TilesAcross(x) * TILE
         /\ x % TILE = 0 => TilesAcross(x) * TILE = x
<1> DEFINE q == TilesAcross(x)
<1>1. q \in Nat \ {0} /\ TILE \in Nat \ {0}
  BY AcrossPositive, TileAssumption
<1>2. /\ (x + TILE - 1) % TILE \in 0 .. TILE - 1
      /\ x + TILE - 1 = (q * TILE) + ((x + TILE - 1) % TILE)
  BY <1>1, DivModFloor DEF TilesAcross
<1>3. x <= q * TILE
  <2> HIDE DEF q
  <2>1. q * TILE \in Int
    BY <1>1
  <2> QED BY <1>1, <1>2, <2>1
<1>4. ASSUME x % TILE = 0 PROVE q * TILE = x
  <2> DEFINE p == x \div TILE
  <2>1. p \in Int /\ x = p * TILE
    BY <1>1, <1>4, DivModFloor
  <2> HIDE DEF p
  <2>2. x + TILE - 1 = p * TILE + (TILE - 1)
    BY <1>1, <2>1
  <2>3. p = q
    BY <1>1, <2>1, <2>2, DivModUnique DEF TilesAcross
  <2> QED BY <2>1, <2>3
<1> QED BY <1>1, <1>3, <1>4

\* As many tiles as the output, streamed.
LEMMA StreamCovers ==
  ASSUME NEW c, Called(c), ~Shifted(c, EltwiseOut(c)), NEW x \in DOMAIN c.views,
         ~RowBroadcast(c.views[x].desc, EltwiseOut(c).rows),
         out_tiles(c.views[x].desc) = out_tiles(dout)
  PROVE  Covers(x)
<1> DEFINE d == c.views[x].desc
<1>1. /\ desc[x] = d /\ bcast[x] = FALSE /\ x \in Operands
      /\ d.P = 0 /\ d.Co = dout.Co /\ d \in RowMap
  BY FedPlain DEF Widened, Resident
<1>2. /\ meant[x].base = d.base /\ meant[x].Ro = d.Ro /\ meant[x].S_row = d.S_row
      /\ d.base \in Int /\ d.S_row \in Int /\ meant[x].span = 1 /\ d.Ro \in Nat \ {0}
  BY MeantPlain
<1>3. dout.Ro \in Nat \ {0} /\ n_otc(dout) \in Nat \ {0} /\ TILE \in Nat \ {0}
  BY AcrossPositive, TileAssumption DEF Called, NonEmpty, n_otc
<1>4. d.Ro >= dout.Ro
  <2>1. d.Ro >= dout.Ro \/ d.Ro % TILE = 0
    BY DEF Called, Regular
  <2>2. ASSUME d.Ro % TILE = 0 PROVE d.Ro >= dout.Ro
    <3> DEFINE a == n_otc(dout)
               m == n_otr(d)
               n == n_otr(dout)
    <3>1. m \in Nat /\ n \in Nat /\ m * TILE = d.Ro /\ dout.Ro <= n * TILE
      BY <1>2, <1>3, <2>2, TileRows DEF n_otr
    <3>2. m * a = n * a
      BY <1>1 DEF out_tiles, n_otc
    <3>3. a \in Nat \ {0}
      BY <1>3
    <3> HIDE DEF a, m, n
    <3>4. m = n
      <4>1. m = (m * a) \div a
        BY <3>1, <3>3, DivModUnique, m * a = m * a + 0
      <4>2. n = (n * a) \div a
        BY <3>1, <3>3, DivModUnique, n * a = n * a + 0
      <4> QED BY <3>2, <4>1, <4>2
    <3> QED BY <1>2, <1>3, <3>1, <3>4
  <2> QED BY <2>1, <2>2
<1> HIDE DEF d
<1>5. ASSUME NEW t \in 0 .. wt - 1, NEW cell \in Cells(t)
      PROVE  Element(desc[x], Right(t)[x], cell)
               = meant[x].base
                   + ((((t \div n_otc(dout)) * TILE + cell[1]) \div meant[x].span) % meant[x].Ro)
                       * meant[x].S_row
                   + ((t % n_otc(dout)) * TILE + cell[2])
  <2> DEFINE R == (t \div n_otc(dout)) * TILE + cell[1]
             C == (t % n_otc(dout)) * TILE + cell[2]
  <2>1. R \in 0 .. dout.Ro - 1 /\ C \in 0 .. dout.Co - 1 /\ t \in Nat
    BY <1>5, CellPlace DEF Called
  <2>2. Right(t)[x] = t
    BY <1>1 DEF Right
  <2>3. R < d.Ro /\ R \in Nat
    BY <1>2, <1>3, <1>4, <2>1
  <2>4. Element(d, t, cell) = d.base + R * d.S_row + C
    BY <1>1, <1>5, <2>1, <2>3, LinearElement DEF Called
  <2> HIDE DEF R, C
  <2>5. (R \div 1) % d.Ro = R
    BY <1>2, <2>3, SmallRemainder
  <2> QED BY <1>1, <1>2, <2>2, <2>4, <2>5 DEF R, C
<1> QED BY <1>5 DEF Covers

\* Every resident operand is as large as the group.
LEMMA OneGroup ==
  ASSUME NEW c, Called(c), ~Shifted(c, EltwiseOut(c)), NEW x \in DOMAIN c.views,
         Resident(c.views[x].desc, dout, EltwiseOut(c).rows)
  PROVE  tpg = out_tiles(c.views[x].desc)
<1> DEFINE S == Groups(c, EltwiseOut(c))
           f(y) == out_tiles(c.views[y].desc)
<1>1. DOMAIN c.views \in {1 .. 2, 1 .. 3}
  BY CallsAssumption DEF Called
<1>2. S \subseteq {f(1)} \cup {f(2)} \cup {f(3)}
  <2> SUFFICES ASSUME NEW m \in S PROVE m \in {f(1)} \cup {f(2)} \cup {f(3)}
    OBVIOUS
  <2>1. PICK y \in DOMAIN c.views : m = f(y)
    BY DEF Groups, Descs
  <2>2. y = 1 \/ y = 2 \/ y = 3
    BY <1>1
  <2> HIDE DEF f
  <2> QED BY <2>1, <2>2
<1>3. f(x) \in S
  BY DEF Groups, Descs, Called
<1>4. Cardinality(S) <= 1
  BY DEF Called, Accepted
<1>5. tpg \in S
  BY <1>3 DEF Called, Feed
<1> HIDE DEF S, f
<1>6. IsFiniteSet({f(1)} \cup {f(2)} \cup {f(3)})
  <2>1. IsFiniteSet({f(1)})
    BY FS_Singleton
  <2>2. IsFiniteSet({f(1)} \cup {f(2)})
    BY <2>1, FS_AddElement
  <2> QED BY <2>2, FS_AddElement
<1>7. IsFiniteSet(S) /\ Cardinality(S) \in Nat
  BY <1>2, <1>6, FS_Subset, FS_CardinalityType
<1>8. Cardinality(S) = 1
  BY <1>3, <1>4, <1>7, FS_EmptySet
<1> QED BY <1>3, <1>5, <1>7, <1>8, FS_Singleton DEF f

\* A resident group, its rows repeated.
LEMMA GroupCovers ==
  ASSUME NEW c, Called(c), ~Shifted(c, EltwiseOut(c)), NEW x \in DOMAIN c.views,
         Resident(c.views[x].desc, dout, EltwiseOut(c).rows)
  PROVE  Covers(x)
<1> DEFINE d == c.views[x].desc
           n == n_otr(d)
           a == n_otc(dout)
<1>1. /\ desc[x] = d /\ bcast[x] = TRUE /\ x \in Operands /\ d.Ro % TILE = 0
      /\ d.P = 0 /\ d.Co = dout.Co /\ d \in RowMap
  BY FedPlain DEF Widened, Resident, Classified
<1>2. /\ meant[x].base = d.base /\ meant[x].Ro = d.Ro /\ meant[x].S_row = d.S_row
      /\ d.base \in Int /\ d.S_row \in Int /\ meant[x].span = 1 /\ d.Ro \in Nat \ {0}
  BY MeantPlain
<1>3. /\ dout.Ro \in Nat \ {0} /\ a \in Nat \ {0} /\ TILE \in Nat \ {0}
      /\ n \in Nat \ {0} /\ n * TILE = d.Ro
  BY <1>1, <1>2, AcrossPositive, TileAssumption, TileRows DEF Called, NonEmpty, n_otc, n_otr
<1>4. tpg = n * a
  BY <1>1, OneGroup DEF out_tiles, n_otc
<1> HIDE DEF d, n, a
<1>5. ASSUME NEW t \in 0 .. wt - 1, NEW cell \in Cells(t)
      PROVE  Element(desc[x], Right(t)[x], cell)
               = meant[x].base
                   + ((((t \div a) * TILE + cell[1]) \div meant[x].span) % meant[x].Ro)
                       * meant[x].S_row
                   + ((t % a) * TILE + cell[2])
  <2> DEFINE q == t \div a
             R == q * TILE + cell[1]
             C == (t % a) * TILE + cell[2]
             u == t % tpg
  <2>1. /\ R \in 0 .. dout.Ro - 1 /\ C \in 0 .. dout.Co - 1 /\ t \in Nat
        /\ cell[1] \in 0 .. TILE - 1
    BY <1>5, CellPlace DEF Called, a
  <2>2. Right(t)[x] = u
    BY <1>1 DEF Right
  <2>3. u % a = t % a /\ u \div a = q % n /\ u \in Nat /\ q \in Int
    <3>1. t \in Nat /\ a \in Nat \ {0} /\ tpg \in Nat \ {0}
      BY <1>3, <2>1 DEF Called, CallInv
    <3>2. n = tpg \div a /\ 0 = tpg % a
      BY <1>3, <1>4, <3>1, DivModUnique, tpg = n * a + 0
    <3>5. (t % tpg) % a = t % a /\ (t % tpg) \div a = (t \div a) % (tpg \div a)
      <4>1. tpg % a = 0
        BY <3>2
      <4> QED BY <3>1, <4>1, NestedRemainder, Zenon
    <3>3. (t % tpg) % a = t % a /\ (t % tpg) \div a = (t \div a) % n
      BY <3>2, <3>5
    <3>4. t % tpg \in Nat /\ t \div a \in Int
      BY <3>1, DivModFloor
    <3> QED BY <3>3, <3>4
  <2>4. R \in Nat /\ R \div TILE = q /\ R % TILE = cell[1]
    <3>1. R \in Nat
      BY <1>3, <2>1
    <3> HIDE DEF q
    <3>2. R = q * TILE + cell[1]
      OBVIOUS
    <3> HIDE DEF R
    <3> DEFINE i == cell[1]
    <3>4. /\ R \in Int /\ TILE \in Nat \ {0} /\ q \in Int /\ i \in Int
          /\ R = q * TILE + i /\ 0 <= i /\ i < TILE
      BY <1>3, <2>1, <2>3, <3>1, <3>2
    <3> HIDE DEF i
    <3>5. q = R \div TILE /\ i = R % TILE
      BY <3>4, DivModUnique
    <3>3. q = R \div TILE /\ cell[1] = R % TILE
      BY <3>5 DEF i
    <3> QED BY <3>1, <3>3
  <2>5. R % d.Ro = (q % n) * TILE + cell[1]
    <3> HIDE DEF R
    <3>1. R \in Nat /\ TILE \in Nat \ {0} /\ d.Ro \in Nat \ {0} /\ d.Ro % TILE = 0
      BY <1>1, <1>2, <1>3, <2>4
    <3>2. n = d.Ro \div TILE
      BY <1>3, <3>1, DivModUnique, d.Ro = n * TILE + 0
    <3>7. /\ (R % d.Ro) % TILE = R % TILE
          /\ (R % d.Ro) \div TILE = (R \div TILE) % (d.Ro \div TILE)
      BY <3>1, NestedRemainder, Zenon
    <3>3. (R % d.Ro) % TILE = R % TILE /\ (R % d.Ro) \div TILE = (R \div TILE) % n
      BY <3>2, <3>7
    <3> DEFINE s == R % d.Ro
    <3>4. s \in Int
      BY <3>1, DivModFloor
    <3> HIDE DEF s
    <3>5. s % TILE = cell[1] /\ s \div TILE = q % n
      BY <2>4, <3>3 DEF s
    <3>6. s = (s \div TILE) * TILE + (s % TILE)
      BY <3>1, <3>4, DivModFloor
    <3> QED BY <3>5, <3>6 DEF s
  <2>6. (q % n) * TILE + cell[1] < d.Ro
    <3> HIDE DEF R
    <3>1. R % d.Ro < d.Ro
      BY <1>2, <2>4, DivModFloor
    <3> QED BY <2>5, <3>1
  <2>7. Element(d, u, cell) = d.base + ((q % n) * TILE + cell[1]) * d.S_row + C
    <3> HIDE DEF u, q
    <3>1. Element(d, u, cell)
            = d.base + ((u \div a) * TILE + cell[1]) * d.S_row + ((t % a) * TILE + cell[2])
      BY <1>1, <1>5, <2>3, <2>6, LinearElement DEF Called, a
    <3> QED BY <2>3, <3>1
  <2>8. (R \div 1) = R
    <3> HIDE DEF R
    <3> QED BY <2>4, DivModUnique, R = R * 1 + 0
  <2> HIDE DEF u
  <2>9. Element(d, u, cell) = d.base + ((R \div 1) % d.Ro) * d.S_row + C
    <3> HIDE DEF C, q, R
    <3> QED BY <2>5, <2>7, <2>8
  <2> QED BY <1>1, <1>2, <2>2, <2>9
<1> QED BY <1>5 DEF Covers, a

\* The row maps of a token shift.
LEMMA ShiftFed ==
  ASSUME NEW c, Called(c), Shifted(c, EltwiseOut(c)), NEW x \in DOMAIN c.views
  PROVE  /\ x \in 1 .. 3 /\ x \in Operands /\ bcast[x] = FALSE /\ dout \in RowMap
         /\ desc[x] = make_grouped_desc(c.views[x].desc, dout, Tokens(c),
                                        IF x = 3 THEN wstride(c) ELSE 0, IF x = 3 THEN 0 ELSE 1)
         /\ Tokens(c) \in Nat \ {0} /\ WeightRows(c) \in Nat \ {0}
         /\ c.views[x].desc.base \in Int /\ c.views[x].desc.S_row \in Int
<1>1. DOMAIN c.views = 1 .. 3
  BY CallsAssumption DEF Called, Shifted, IsTokenShift, Binary
<1>2. desc = ShiftMaps(c, EltwiseOut(c)) /\ bcast = [y \in DOMAIN c.views |-> FALSE]
  BY DEF Called, Feed
<1>3. desc[x] = make_grouped_desc(c.views[x].desc, dout, Tokens(c),
                                  IF x = 3 THEN wstride(c) ELSE 0, IF x = 3 THEN 0 ELSE 1)
  <2>1. CASE x = 1
    BY <1>2, <2>1 DEF ShiftMaps, Called
  <2>2. CASE x = 2
    BY <1>2, <2>2 DEF ShiftMaps, Called
  <2>3. CASE x = 3
    BY <1>2, <2>3 DEF ShiftMaps, Called
  <2> QED BY <1>1, <2>1, <2>2, <2>3
<1>4. x \in Operands
  BY <1>1, <1>2 DEF ShiftMaps, Operands
<1>5. \A y \in 1 .. 3 : Presents(c.views[y], EltwiseOut(c))
  BY <1>1 DEF Called, Regular
<1>6. /\ Tokens(c) \in Nat \ {0} /\ WeightRows(c) \in Nat \ {0}
      /\ c.views[x].desc.base \in Int /\ c.views[x].desc.S_row \in Int
  BY <1>1, <1>5 DEF Presents, RowMap, Tokens, WeightRows
<1> QED BY <1>1, <1>2, <1>3, <1>4, <1>6 DEF Called, Regular

\* a and b have a row for each token, whatever its group.
LEMMA TokenCovers ==
  ASSUME NEW c, Called(c), Shifted(c, EltwiseOut(c)), NEW x \in DOMAIN c.views, x # 3
  PROVE  Covers(x)
<1> DEFINE d == c.views[x].desc
           P == Tokens(c)
<1>1. /\ desc[x] = make_grouped_desc(d, dout, P, 0, 1) /\ bcast[x] = FALSE /\ x \in Operands
      /\ P \in Nat \ {0} /\ d.base \in Int /\ d.S_row \in Int /\ dout \in RowMap
  BY ShiftFed
<1>2. meant[x] = [base |-> d.base, Co |-> d.Co, S_row |-> d.S_row * 1, Ro |-> d.Ro, span |-> 1]
  BY DEF Called, Meant
<1>3. d.Ro = P
  <2>1. x \in 1 .. 2
    <3>1. x \in 1 .. 3
      BY ShiftFed
    <3> QED BY <3>1
  <2> QED BY <2>1 DEF Called, Regular
<1> HIDE DEF d, P
<1>4. /\ meant[x].base = d.base /\ meant[x].S_row = d.S_row /\ meant[x].Ro = P
      /\ meant[x].span = 1
  BY <1>1, <1>2, <1>3
<1>5. ASSUME NEW t \in 0 .. wt - 1, NEW cell \in Cells(t)
      PROVE  Element(desc[x], Right(t)[x], cell)
               = meant[x].base
                   + ((((t \div n_otc(dout)) * TILE + cell[1]) \div meant[x].span) % meant[x].Ro)
                       * meant[x].S_row
                   + ((t % n_otc(dout)) * TILE + cell[2])
  <2> DEFINE R == (t \div n_otc(dout)) * TILE + cell[1]
             C == (t % n_otc(dout)) * TILE + cell[2]
  <2>1. R \in 0 .. dout.Ro - 1 /\ dout.Ro \in Nat /\ C \in Int
    BY <1>5, CellPlace DEF Called, NonEmpty
  <2>2. Right(t)[x] = t
    BY <1>1 DEF Right
  <2>3. Element(desc[x], t, cell) = d.base + (0 * (R \div P) + 1 * (R % P)) * d.S_row + C
    BY <1>1, <1>5, GroupedElement DEF Called
  <2> HIDE DEF R, C
  <2>4. R \div 1 = R
    BY <2>1, DivModUnique, R = R * 1 + 0
  <2>5. 0 * (R \div P) + 1 * (R % P) = R % P
    <3>1. R \div P \in Int /\ R % P \in Int
      BY <1>1, <2>1, DivModFloor
    <3> QED BY <3>1
  <2>6. Element(desc[x], t, cell) = d.base + ((R \div 1) % P) * d.S_row + C
    BY <2>3, <2>4, <2>5
  <2> QED BY <1>4, <2>2, <2>6 DEF R, C
<1> QED BY <1>5 DEF Covers

\* Each row of the weights is used for the tokens of its group, as far from
\* the next one as the host says.
LEMMA WeightCovers ==
  ASSUME NEW c, Called(c), Shifted(c, EltwiseOut(c)), NEW x \in DOMAIN c.views, x = 3
  PROVE  Covers(x)
<1> DEFINE d == c.views[x].desc
           P == Tokens(c)
           G == WeightRows(c)
           w == wstride(c)
<1>1. /\ desc[x] = make_grouped_desc(d, dout, P, w, 0) /\ bcast[x] = FALSE /\ x \in Operands
      /\ P \in Nat \ {0} /\ G \in Nat \ {0} /\ d.base \in Int /\ d.S_row \in Int
      /\ dout \in RowMap
  BY ShiftFed
<1>2. dout.Ro = P * G /\ d.Ro \div G = w /\ d.Ro \in Nat
  <2>1. EltwiseOut(c).desc.Ro = P * G /\ d.Ro \div G = w
    BY DEF Called, Regular
  <2>2. d.Ro \in Nat
    BY CallsAssumption DEF Called, NonEmpty
  <2> QED BY <2>1, <2>2 DEF Called
<1>3. meant[x] = [base |-> d.base, Co |-> d.Co, S_row |-> d.S_row * w, Ro |-> G, span |-> P]
  <2> DEFINE o == EltwiseOut(c)
  <2>1. /\ c.op = "lerp" /\ x = 3 /\ c.views[2].rows = Tokens(c)
        /\ o.desc.Ro = Tokens(c) * c.views[x].rows
    BY <1>2 DEF Called, Shifted, IsTokenShift, WeightRows
  <2>2. meant[x] = Meant(c, o, x)
    BY DEF Called
  <2>3. Meant(c, o, x)
          = [base |-> d.base, Co |-> d.Co, S_row |-> d.S_row * (d.Ro \div c.views[x].rows),
             Ro |-> c.views[x].rows, span |-> Tokens(c)]
    BY <2>1 DEF Meant
  <2> QED BY <1>2, <2>2, <2>3 DEF WeightRows
<1> HIDE DEF d, P, G, w
<1>4. w \in Int
  BY <1>1, <1>2, DivModFloor
<1>5. ASSUME NEW t \in 0 .. wt - 1, NEW cell \in Cells(t)
      PROVE  Element(desc[x], Right(t)[x], cell)
               = meant[x].base
                   + ((((t \div n_otc(dout)) * TILE + cell[1]) \div meant[x].span) % meant[x].Ro)
                       * meant[x].S_row
                   + ((t % n_otc(dout)) * TILE + cell[2])
  <2> DEFINE R == (t \div n_otc(dout)) * TILE + cell[1]
             C == (t % n_otc(dout)) * TILE + cell[2]
             q == R \div P
             s == R % P
  <2>1. R \in 0 .. dout.Ro - 1 /\ dout.Ro \in Nat /\ C \in Int
    BY <1>5, CellPlace DEF Called, NonEmpty
  <2>2. Right(t)[x] = t
    BY <1>1 DEF Right
  <2>3. Element(desc[x], t, cell) = d.base + (w * q + 0 * s) * d.S_row + C
    BY <1>1, <1>5, GroupedElement DEF Called
  <2> HIDE DEF R, C
  <2>4. q \in Int /\ s \in Int /\ R = q * P + s /\ 0 <= s /\ s < P
    BY <1>1, <2>1, DivModFloor
  <2> HIDE DEF q, s
  <2>5. q >= 0 /\ q < G
    <3>1. ASSUME q < 0 PROVE FALSE
      <4>1. (-1 - q) * P >= 0
        BY <1>1, <2>4, <3>1, ProductNat, -1 - q \in Nat
      <4>2. (-1 - q) * P = -P - q * P
        BY <1>1, <2>4
      <4> QED BY <1>1, <2>1, <2>4, <4>1, <4>2
    <3>2. ASSUME q >= G PROVE FALSE
      <4>1. (q - G) * P >= 0
        BY <1>1, <2>4, <3>2, ProductNat, q - G \in Nat
      <4>2. (q - G) * P = q * P - P * G
        BY <1>1, <2>4
      <4> QED BY <1>1, <1>2, <2>1, <2>4, <4>1, <4>2
    <3> QED BY <1>1, <2>4, <3>1, <3>2
  <2>6. q % G = q
    BY <1>1, <2>4, <2>5, DivModUnique, q = 0 * G + q
  <2>7. (w * q + 0 * s) * d.S_row = q * (d.S_row * w)
    BY <1>1, <1>4, <2>4
  <2>8. Element(desc[x], t, cell) = d.base + (q % G) * (d.S_row * w) + C
    BY <2>3, <2>6, <2>7
  <2> QED BY <1>3, <2>2, <2>8 DEF R, C, q
<1> QED BY <1>5 DEF Covers

\* So the operands of regular calls cover the output.
LEMMA RegularCovers ==
  ASSUME Init, RegularCalls
  PROVE  OperandsCover
<1>1. PICK c \in Calls :
        /\ Accepted(c) /\ dout = EltwiseOut(c).desc
        /\ meant = [x \in DOMAIN c.views |-> Meant(c, EltwiseOut(c), x)]
        /\ desc = Feed(c).maps /\ bcast = Feed(c).bcast /\ tpg = Feed(c).tpg
  BY DEF Init
<1>2. Called(c)
  BY <1>1, OutNonEmpty, FeedInit DEF Called, RegularCalls, FeedInv
<1>3. ASSUME NEW x \in DOMAIN c.views PROVE Covers(x)
  <2>1. CASE Shifted(c, EltwiseOut(c))
    BY <1>2, <1>3, <2>1, TokenCovers, WeightCovers
  <2>2. CASE ~Shifted(c, EltwiseOut(c))
    BY <1>2, <1>3, <2>2, RowCovers, StreamCovers, GroupCovers DEF Resident, Called
  <2> QED BY <2>1, <2>2
<1>4. Operands = DOMAIN c.views /\ DOMAIN meant = DOMAIN c.views
  BY <1>1, FeedTyped DEF Operands
<1>5. ASSUME NEW t \in 0 .. wt - 1 PROVE MadeOf(t, Right(t)) = Promise!Want(t)
  <2>1. Cells(t) = Promise!Live(t)
    BY DEF Cells, Promise!Live, Promise!Row, Promise!Col, Promise!Across, n_otc, TilesAcross
  <2>2. ASSUME NEW cell \in Cells(t), NEW x \in Operands
        PROVE  Element(desc[x], Right(t)[x], cell)
                 = meant[x].base
                     + ((Promise!Row(t, cell) \div meant[x].span) % meant[x].Ro) * meant[x].S_row
                     + Promise!Col(t, cell)
    BY <1>3, <1>4, <1>5, <2>2
       DEF Covers, Promise!Row, Promise!Col, Promise!Across, n_otc, TilesAcross
  <2> QED BY <1>4, <2>1, <2>2 DEF MadeOf, Promise!Want
<1> QED BY <1>5 DEF OperandsCover

\* Calls whose operands are regular deliver, element by element, what they
\* mean: once, for good, in every interleaving and however each operand is
\* fed, on any number of cores and for any buffer depth and tile size.
THEOREM RegularCallsDeliver == RegularCalls /\ Spec => ImplementsElementwise
<1>1. RegularCalls /\ Init => OperandsCover
  BY RegularCovers
<1> QED BY <1>1, FeedImplementsElementwise, PTL DEF Spec
=============================================================================
