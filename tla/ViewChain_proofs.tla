--------------------------- MODULE ViewChain_proofs ---------------------------
(***************************************************************************)
(* What ViewChain's verbs and plan() guarantee for every tensor, every     *)
(* shape, range and order a caller passes, chains of any length and every  *)
(* tile size and width of the integers.                                    *)
(*                                                                         *)
(* The order: induction and recursive functions on the naturals; products  *)
(* and sums of a shape's axes; positions and coordinates; two's            *)
(* complement; the types; face-rows and dense endpoints; and last that an  *)
(* accepted view presents the elements its verbs select.                   *)
(***************************************************************************)
EXTENDS ViewChain, WellFoundedInduction, TLAPS

-----------------------------------------------------------------------------
\* Integer division by a positive divisor: the only quotient and remainder.
LEMMA DivModFloor ==
  ASSUME NEW a \in Int, NEW b \in Nat \ {0}
  PROVE  /\ a \div b \in Int /\ a % b \in Int
         /\ a = ((a \div b) * b) + (a % b)
         /\ 0 <= a % b /\ a % b < b
OBVIOUS

LEMMA ProductNat ==
  ASSUME NEW a \in Int, NEW b \in Int, a >= 0, b >= 0
  PROVE  a * b \in Int /\ a * b >= 0
OBVIOUS

LEMMA DivModUnique ==
  ASSUME NEW k \in Int, NEW b \in Nat \ {0}, NEW q \in Int, NEW s \in Int,
         k = q * b + s, 0 <= s, s < b
  PROVE  q = k \div b /\ s = k % b
OBVIOUS

-----------------------------------------------------------------------------
(***************************************************************************)
(* Induction over the natural numbers, for a set, and the functions that   *)
(* it shows to exist.                                                      *)
(***************************************************************************)
LEMMA Least ==
  ASSUME NEW S \in SUBSET Nat, S # {}
  PROVE  \E m \in S : \A k \in S : m <= k
<1> DEFINE R == OpToRel(<, Nat)
<1>1. IsWellFoundedOn(R, Nat)
  BY NatLessThanWellFounded, Zenon
<1>2. \A x, y \in Nat : x < y => <<x, y>> \in R
  BY DEF OpToRel
<1> HIDE DEF R
<1>3. PICK x \in S : \A y \in S : ~ (<<y, x>> \in R)
  BY <1>1, WFMin, Zenon
<1>4. \A y \in S : ~ (y < x)
  BY <1>2, <1>3
<1> QED BY <1>4

LEMMA Induction ==
  ASSUME NEW S, 0 \in S, \A n \in Nat : n \in S => n + 1 \in S
  PROVE  \A n \in Nat : n \in S
<1> DEFINE T == {n \in Nat : n \notin S}
<1> SUFFICES ASSUME T # {} PROVE FALSE
  OBVIOUS
<1>1. PICK m \in T : \A k \in T : m <= k
  BY Least
<1>2. m \in Nat /\ m # 0 /\ m \notin S
  OBVIOUS
<1>3. m - 1 \in Nat /\ m - 1 \notin T
  BY <1>1, <1>2
<1>4. m - 1 \in S
  BY <1>3
<1>5. (m - 1) + 1 \in S
  BY <1>3, <1>4
<1> QED BY <1>2, <1>5

LEMMA Recursion ==
  ASSUME NEW c \in Int, NEW N \in Nat, NEW G \in [1 .. N -> [Int -> Int]]
  PROVE  \E f \in [0 .. N -> Int] : f[0] = c /\ \A k \in 1 .. N : f[k] = G[k][f[k - 1]]
<1> DEFINE P(n) == \E f \in [0 .. n -> Int] :
                     \A k \in 0 .. n : f[k] = IF k = 0 THEN c ELSE G[k][f[k - 1]]
           S == {n \in Nat : n <= N => P(n)}
<1>1. P(0)
  <2> DEFINE f == [k \in 0 .. 0 |-> c]
  <2>1. f \in [0 .. 0 -> Int] /\ \A k \in 0 .. 0 : f[k] = IF k = 0 THEN c ELSE G[k][f[k - 1]]
    OBVIOUS
  <2> QED BY <2>1
<1>2. ASSUME NEW n \in Nat, n + 1 <= N, P(n) PROVE P(n + 1)
  <2>1. PICK f \in [0 .. n -> Int] :
          \A k \in 0 .. n : f[k] = IF k = 0 THEN c ELSE G[k][f[k - 1]]
    BY <1>2
  <2> DEFINE g == [k \in 0 .. n + 1 |-> IF k = n + 1 THEN G[n + 1][f[n]] ELSE f[k]]
  <2>2. G[n + 1] \in [Int -> Int] /\ f[n] \in Int
    BY <1>2
  <2>3. g \in [0 .. n + 1 -> Int]
    BY <2>2
  <2>5. g[n + 1] = G[n + 1][f[n]] /\ \A k \in 0 .. n : g[k] = f[k]
    OBVIOUS
  <2> HIDE DEF g
  <2>4. ASSUME NEW k \in 0 .. n + 1 PROVE g[k] = IF k = 0 THEN c ELSE G[k][g[k - 1]]
    <3>1. CASE k = n + 1
      <4>1. k - 1 = n /\ k # 0 /\ g[n] = f[n]
        BY <2>5, <3>1
      <4> QED BY <2>5, <3>1, <4>1
    <3>2. CASE k # n + 1
      <4>1. k \in 0 .. n /\ (k # 0 => k - 1 \in 0 .. n)
        BY <3>2
      <4> QED BY <2>1, <2>5, <4>1
    <3> QED BY <3>1, <3>2
  <2> QED BY <2>3, <2>4
<1> HIDE DEF P
<1>3. 0 \in S /\ \A n \in Nat : n \in S => n + 1 \in S
  BY <1>1, <1>2
<1>4. P(N)
  <2> HIDE DEF S
  <2>1. N \in S
    BY <1>3, Induction
  <2> QED BY <2>1 DEF S
<1>5. PICK f \in [0 .. N -> Int] :
        \A k \in 0 .. N : f[k] = IF k = 0 THEN c ELSE G[k][f[k - 1]]
  BY <1>4 DEF P
<1>6. f[0] = c /\ \A k \in 1 .. N : f[k] = G[k][f[k - 1]]
  BY <1>5
<1> QED BY <1>6

-----------------------------------------------------------------------------
(***************************************************************************)
(* Products of extents.                                                    *)
(***************************************************************************)
LEMMA ExtentFunction ==
  ASSUME NEW s, NEW a \in Nat \ {0}, NEW b \in Nat, \A k \in a .. b : s[k] \in Int
  PROVE  \E p \in [0 .. b -> Int] :
           /\ Extent(s, a, b) = p[b]
           /\ \A k \in 0 .. b : p[k] = IF k < a THEN 1 ELSE p[k - 1] * s[k]
<1> DEFINE G == [k \in 1 .. b |-> [x \in Int |-> IF k < a THEN 1 ELSE x * s[k]]]
           F(p) == [k \in 0 .. b |-> IF k < a THEN 1 ELSE p[k - 1] * s[k]]
           q == CHOOSE p : p = F(p)
<1>0. 1 \in Int
  OBVIOUS
<1>1. G \in [1 .. b -> [Int -> Int]]
  OBVIOUS
<1> HIDE DEF G
<1>2. PICK f \in [0 .. b -> Int] : f[0] = 1 /\ \A k \in 1 .. b : f[k] = G[k][f[k - 1]]
  BY <1>0, <1>1, Recursion, Zenon
<1>3. ASSUME NEW k \in 0 .. b
      PROVE  f[k] = IF k < a THEN 1 ELSE f[k - 1] * s[k]
  <2>1. CASE k = 0
    BY <1>2, <2>1
  <2>2. CASE k # 0
    <3>1. k \in 1 .. b /\ k - 1 \in 0 .. b /\ f[k - 1] \in Int
      BY <2>2
    <3>2. G[k] = [x \in Int |-> IF k < a THEN 1 ELSE x * s[k]]
      BY <3>1 DEF G
    <3>3. G[k][f[k - 1]] = IF k < a THEN 1 ELSE f[k - 1] * s[k]
      BY <3>1, <3>2
    <3> QED BY <1>2, <3>1, <3>3
  <2> QED BY <2>1, <2>2
<1>4. f = F(f)
  BY <1>3
<1>5. q = F(q)
  BY <1>4
<1>6. Extent(s, a, b) = q[b]
  BY DEF Extent
<1> HIDE DEF q
<1>7. ASSUME NEW n \in Nat PROVE n <= b => q[n] = f[n]
  <2> DEFINE S == {m \in Nat : m <= b => q[m] = f[m]}
  <2>1. 0 \in S
    BY <1>4, <1>5
  <2>2. ASSUME NEW m \in Nat, m \in S PROVE m + 1 \in S
    <3> SUFFICES ASSUME m + 1 <= b PROVE q[m + 1] = f[m + 1]
      OBVIOUS
    <3>1. m + 1 \in 0 .. b /\ (m + 1) - 1 = m /\ q[m] = f[m]
      BY <2>2
    <3> QED BY <1>4, <1>5, <3>1
  <2> HIDE DEF S
  <2>3. n \in S
    BY <2>1, <2>2, Induction
  <2> QED BY <2>3 DEF S
<1>8. q \in [0 .. b -> Int]
  BY <1>5, <1>7
<1> QED BY <1>5, <1>6, <1>8

LEMMA ExtentStep ==
  ASSUME NEW s, NEW a \in Nat \ {0}, NEW b \in Nat, \A k \in a .. b : s[k] \in Int
  PROVE  /\ Extent(s, a, b) \in Int
         /\ b < a => Extent(s, a, b) = 1
         /\ b >= a => Extent(s, a, b) = Extent(s, a, b - 1) * s[b]
<1>1. PICK p \in [0 .. b -> Int] :
        /\ Extent(s, a, b) = p[b]
        /\ \A k \in 0 .. b : p[k] = IF k < a THEN 1 ELSE p[k - 1] * s[k]
  BY ExtentFunction
<1>2. ASSUME b >= a PROVE Extent(s, a, b - 1) = p[b - 1]
  <2>1. b - 1 \in Nat /\ \A k \in a .. b - 1 : s[k] \in Int
    BY <1>2
  <2>2. PICK q \in [0 .. b - 1 -> Int] :
          /\ Extent(s, a, b - 1) = q[b - 1]
          /\ \A k \in 0 .. b - 1 : q[k] = IF k < a THEN 1 ELSE q[k - 1] * s[k]
    BY <2>1, ExtentFunction
  <2> DEFINE S == {m \in Nat : m <= b - 1 => p[m] = q[m]}
  <2>3. 0 \in S
    BY <1>1, <1>2, <2>2
  <2>4. ASSUME NEW m \in Nat, m \in S PROVE m + 1 \in S
    <3> SUFFICES ASSUME m + 1 <= b - 1 PROVE p[m + 1] = q[m + 1]
      OBVIOUS
    <3>1. m + 1 \in 0 .. b - 1 /\ m + 1 \in 0 .. b /\ (m + 1) - 1 = m /\ p[m] = q[m]
      BY <2>4
    <3> QED BY <1>1, <2>2, <3>1
  <2> HIDE DEF S
  <2>5. b - 1 \in S
    BY <2>1, <2>3, <2>4, Induction
  <2> QED BY <1>2, <2>2, <2>5 DEF S
<1>3. b \in 0 .. b /\ (b >= a => b - 1 \in 0 .. b)
  OBVIOUS
<1> QED BY <1>1, <1>2, <1>3

\* A product of positive extents is positive, and so is every part of it.
LEMMA ExtentNat ==
  ASSUME NEW s, NEW a \in Nat \ {0}, NEW b \in Nat, \A k \in a .. b : s[k] \in Nat
  PROVE  /\ Extent(s, a, b) \in Nat
         /\ (\A k \in a .. b : s[k] # 0) => Extent(s, a, b) # 0
         /\ (\E k \in a .. b : s[k] = 0) => Extent(s, a, b) = 0
<1> DEFINE Claim(n) == /\ Extent(s, a, n) \in Nat
                       /\ (\A k \in a .. n : s[k] # 0) => Extent(s, a, n) # 0
                       /\ (\E k \in a .. n : s[k] = 0) => Extent(s, a, n) = 0
           S == {n \in Nat : n <= b => Claim(n)}
<1>1. 0 \in S
  <2>1. \A k \in a .. 0 : s[k] \in Int
    OBVIOUS
  <2>2. Extent(s, a, 0) = 1
    BY <2>1, ExtentStep, 0 \in Nat, 0 < a
  <2>3. \A k \in a .. 0 : FALSE
    OBVIOUS
  <2> QED BY <2>2, <2>3
<1>2. ASSUME NEW n \in Nat, n \in S PROVE n + 1 \in S
  <2> SUFFICES ASSUME n + 1 <= b PROVE Claim(n + 1)
    OBVIOUS
  <2>1. /\ n + 1 \in Nat /\ (n + 1) - 1 = n
        /\ \A k \in a .. n + 1 : s[k] \in Nat /\ s[k] \in Int
    OBVIOUS
  <2>2. CASE n + 1 < a
    <3>1. Extent(s, a, n + 1) = 1
      BY <2>1, <2>2, ExtentStep
    <3>2. \A k \in a .. n + 1 : FALSE
      BY <2>2
    <3> QED BY <3>1, <3>2
  <2>3. CASE n + 1 >= a
    <3>1. Extent(s, a, n + 1) = Extent(s, a, n) * s[n + 1]
      BY <2>1, <2>3, ExtentStep
    <3>2. Claim(n) /\ s[n + 1] \in Nat
      BY <1>2, <2>1, <2>3
    <3> DEFINE e == Extent(s, a, n)
               x == s[n + 1]
    <3>3. e \in Nat /\ x \in Nat
      BY <3>2
    <3>4. (\A k \in a .. n + 1 : s[k] # 0) => e # 0 /\ x # 0
      BY <2>3, <3>2
    <3>5. (\E k \in a .. n + 1 : s[k] = 0) => e = 0 \/ x = 0
      BY <2>3, <3>2
    <3> HIDE DEF e, x
    <3>6. e * x \in Nat /\ (e # 0 /\ x # 0 => e * x # 0) /\ (e = 0 \/ x = 0 => e * x = 0)
      BY <3>3
    <3> QED BY <3>1, <3>4, <3>5, <3>6 DEF e, x
  <2> QED BY <2>1, <2>2, <2>3
<1> HIDE DEF S
<1>3. b \in S
  BY <1>1, <1>2, Induction
<1> QED BY <1>3 DEF S

\* It depends on the extents alone.
LEMMA ExtentSame ==
  ASSUME NEW s, NEW t, NEW a \in Nat \ {0}, NEW b \in Nat,
         \A k \in a .. b : s[k] \in Int, \A k \in a .. b : t[k] = s[k]
  PROVE  Extent(t, a, b) = Extent(s, a, b)
<1> DEFINE S == {n \in Nat : n <= b => Extent(t, a, n) = Extent(s, a, n)}
<1>1. 0 \in S
  <2>1. (\A k \in a .. 0 : s[k] \in Int) /\ (\A k \in a .. 0 : t[k] \in Int)
    OBVIOUS
  <2>2. Extent(s, a, 0) = 1 /\ Extent(t, a, 0) = 1
    BY <2>1, ExtentStep, 0 \in Nat, 0 < a
  <2> QED BY <2>2
<1>2. ASSUME NEW n \in Nat, n \in S PROVE n + 1 \in S
  <2> SUFFICES ASSUME n + 1 <= b PROVE Extent(t, a, n + 1) = Extent(s, a, n + 1)
    OBVIOUS
  <2>1. /\ n + 1 \in Nat /\ (n + 1) - 1 = n
        /\ \A k \in a .. n + 1 : s[k] \in Int
        /\ \A k \in a .. n + 1 : t[k] \in Int
    OBVIOUS
  <2>2. /\ n + 1 < a => Extent(s, a, n + 1) = 1
        /\ n + 1 >= a => Extent(s, a, n + 1) = Extent(s, a, n) * s[n + 1]
    BY <2>1, ExtentStep
  <2>3. /\ n + 1 < a => Extent(t, a, n + 1) = 1
        /\ n + 1 >= a => Extent(t, a, n + 1) = Extent(t, a, n) * t[n + 1]
    BY <2>1, ExtentStep
  <2>4. n + 1 >= a => t[n + 1] = s[n + 1]
    OBVIOUS
  <2>5. Extent(t, a, n) = Extent(s, a, n)
    BY <1>2
  <2> QED BY <2>1, <2>2, <2>3, <2>4, <2>5
<1> HIDE DEF S
<1>3. b \in S
  BY <1>1, <1>2, Induction
<1> QED BY <1>3 DEF S

\* The first extent of a product can be taken out like the last.
LEMMA ExtentFirst ==
  ASSUME NEW s, NEW a \in Nat \ {0}, NEW b \in Nat, a <= b, \A k \in a .. b : s[k] \in Int
  PROVE  Extent(s, a, b) = s[a] * Extent(s, a + 1, b)
<1> DEFINE S == {n \in Nat : a <= n /\ n <= b => Extent(s, a, n) = s[a] * Extent(s, a + 1, n)}
<1>1. 0 \in S
  OBVIOUS
<1>2. ASSUME NEW n \in Nat, n \in S PROVE n + 1 \in S
  <2> SUFFICES ASSUME a <= n + 1, n + 1 <= b
               PROVE  Extent(s, a, n + 1) = s[a] * Extent(s, a + 1, n + 1)
    OBVIOUS
  <2>1. /\ n + 1 \in Nat /\ (n + 1) - 1 = n /\ a + 1 \in Nat \ {0} /\ s[a] \in Int /\ s[n + 1] \in Int
        /\ \A k \in a .. n + 1 : s[k] \in Int
        /\ \A k \in a .. n : s[k] \in Int
        /\ \A k \in a + 1 .. n : s[k] \in Int
        /\ \A k \in a + 1 .. n + 1 : s[k] \in Int
    OBVIOUS
  <2>2. Extent(s, a, n + 1) = Extent(s, a, n) * s[n + 1]
    BY <2>1, ExtentStep
  <2>3. Extent(s, a + 1, n) \in Int
    BY <2>1, ExtentStep
  <2>4. CASE a = n + 1
    <3>1. Extent(s, a, n) = 1
      BY <2>1, <2>4, ExtentStep
    <3>2. Extent(s, a + 1, n + 1) = 1
      BY <2>1, <2>4, ExtentStep
    <3>3. s[a] = s[n + 1]
      BY <2>4
    <3> QED BY <2>1, <2>2, <3>1, <3>2, <3>3
  <2>5. CASE a # n + 1
    <3>1. Extent(s, a, n) = s[a] * Extent(s, a + 1, n)
      BY <1>2, <2>5
    <3>2. n + 1 >= a + 1
      BY <2>5
    <3>3. Extent(s, a + 1, n + 1) = Extent(s, a + 1, n) * s[n + 1]
      BY <2>1, <3>2, ExtentStep
    <3> QED BY <2>1, <2>2, <2>3, <3>1, <3>3
  <2> QED BY <2>4, <2>5
<1> HIDE DEF S
<1>3. b \in S
  BY <1>1, <1>2, Induction
<1> QED BY <1>3 DEF S

-----------------------------------------------------------------------------
(***************************************************************************)
(* Sums.                                                                   *)
(***************************************************************************)
LEMMA TotalFunction ==
  ASSUME NEW f, NEW n \in Nat, \A k \in 1 .. n : f[k] \in Int
  PROVE  \E t \in [0 .. n -> Int] :
           /\ Total(f, n) = t[n]
           /\ \A k \in 0 .. n : t[k] = IF k = 0 THEN 0 ELSE t[k - 1] + f[k]
<1> DEFINE G == [k \in 1 .. n |-> [x \in Int |-> x + f[k]]]
           F(t) == [k \in 0 .. n |-> IF k = 0 THEN 0 ELSE t[k - 1] + f[k]]
           q == CHOOSE t : t = F(t)
<1>0. 0 \in Int
  OBVIOUS
<1>1. G \in [1 .. n -> [Int -> Int]]
  OBVIOUS
<1> HIDE DEF G
<1>2. PICK g \in [0 .. n -> Int] : g[0] = 0 /\ \A k \in 1 .. n : g[k] = G[k][g[k - 1]]
  BY <1>0, <1>1, Recursion, Zenon
<1>3. ASSUME NEW k \in 0 .. n
      PROVE  g[k] = IF k = 0 THEN 0 ELSE g[k - 1] + f[k]
  <2>1. CASE k = 0
    BY <1>2, <2>1
  <2>2. CASE k # 0
    <3>1. k \in 1 .. n /\ k - 1 \in 0 .. n /\ g[k - 1] \in Int
      BY <2>2
    <3>2. G[k] = [x \in Int |-> x + f[k]]
      BY <3>1 DEF G
    <3>3. G[k][g[k - 1]] = g[k - 1] + f[k]
      BY <3>1, <3>2
    <3> QED BY <1>2, <2>2, <3>1, <3>3
  <2> QED BY <2>1, <2>2
<1>4. g = F(g)
  BY <1>3
<1>5. q = F(q)
  BY <1>4
<1>6. Total(f, n) = q[n]
  BY DEF Total
<1> HIDE DEF q
<1>7. ASSUME NEW m \in Nat PROVE m <= n => q[m] = g[m]
  <2> DEFINE S == {i \in Nat : i <= n => q[i] = g[i]}
  <2>1. 0 \in S
    BY <1>4, <1>5
  <2>2. ASSUME NEW i \in Nat, i \in S PROVE i + 1 \in S
    <3> SUFFICES ASSUME i + 1 <= n PROVE q[i + 1] = g[i + 1]
      OBVIOUS
    <3>1. i + 1 \in 0 .. n /\ (i + 1) - 1 = i /\ q[i] = g[i]
      BY <2>2
    <3> QED BY <1>4, <1>5, <3>1
  <2> HIDE DEF S
  <2>3. m \in S
    BY <2>1, <2>2, Induction
  <2> QED BY <2>3 DEF S
<1>8. q \in [0 .. n -> Int]
  BY <1>5, <1>7
<1> QED BY <1>5, <1>6, <1>8

LEMMA TotalStep ==
  ASSUME NEW f, NEW n \in Nat, \A k \in 1 .. n : f[k] \in Int
  PROVE  /\ Total(f, n) \in Int
         /\ n = 0 => Total(f, n) = 0
         /\ n # 0 => Total(f, n) = Total(f, n - 1) + f[n]
<1>1. PICK p \in [0 .. n -> Int] :
        /\ Total(f, n) = p[n]
        /\ \A k \in 0 .. n : p[k] = IF k = 0 THEN 0 ELSE p[k - 1] + f[k]
  BY TotalFunction
<1>2. ASSUME n # 0 PROVE Total(f, n - 1) = p[n - 1]
  <2>1. n - 1 \in Nat /\ \A k \in 1 .. n - 1 : f[k] \in Int
    BY <1>2
  <2>2. PICK q \in [0 .. n - 1 -> Int] :
          /\ Total(f, n - 1) = q[n - 1]
          /\ \A k \in 0 .. n - 1 : q[k] = IF k = 0 THEN 0 ELSE q[k - 1] + f[k]
    BY <2>1, TotalFunction
  <2> DEFINE S == {m \in Nat : m <= n - 1 => p[m] = q[m]}
  <2>3. 0 \in S
    BY <1>1, <1>2, <2>2
  <2>4. ASSUME NEW m \in Nat, m \in S PROVE m + 1 \in S
    <3> SUFFICES ASSUME m + 1 <= n - 1 PROVE p[m + 1] = q[m + 1]
      OBVIOUS
    <3>1. m + 1 \in 0 .. n - 1 /\ m + 1 \in 0 .. n /\ (m + 1) - 1 = m /\ p[m] = q[m]
      BY <2>4
    <3> QED BY <1>1, <2>2, <3>1
  <2> HIDE DEF S
  <2>5. n - 1 \in S
    BY <2>1, <2>3, <2>4, Induction
  <2> QED BY <1>2, <2>2, <2>5 DEF S
<1>3. n \in 0 .. n /\ (n # 0 => n - 1 \in 0 .. n)
  OBVIOUS
<1> QED BY <1>1, <1>2, <1>3

\* Sums are linear in their terms.
LEMMA TotalLinear ==
  ASSUME NEW f, NEW g, NEW h, NEW c \in Int, NEW n \in Nat,
         \A k \in 1 .. n : g[k] \in Int, \A k \in 1 .. n : h[k] \in Int,
         \A k \in 1 .. n : f[k] = g[k] + c * h[k]
  PROVE  Total(f, n) = Total(g, n) + c * Total(h, n)
<1> DEFINE S == {m \in Nat : m <= n => Total(f, m) = Total(g, m) + c * Total(h, m)}
<1>0. ASSUME NEW k \in 1 .. n PROVE f[k] \in Int
  <2>1. g[k] \in Int /\ h[k] \in Int /\ f[k] = g[k] + c * h[k]
    OBVIOUS
  <2> QED BY <2>1
<1>1. 0 \in S
  <2>1. \A k \in 1 .. 0 : f[k] \in Int /\ g[k] \in Int /\ h[k] \in Int
    OBVIOUS
  <2>2. Total(f, 0) = 0 /\ Total(g, 0) = 0 /\ Total(h, 0) = 0
    BY <2>1, TotalStep, 0 \in Nat
  <2> QED BY <2>2
<1>2. ASSUME NEW m \in Nat, m \in S PROVE m + 1 \in S
  <2> SUFFICES ASSUME m + 1 <= n
               PROVE  Total(f, m + 1) = Total(g, m + 1) + c * Total(h, m + 1)
    OBVIOUS
  <2>1. /\ m + 1 \in Nat /\ (m + 1) - 1 = m /\ m + 1 # 0
        /\ \A k \in 1 .. m + 1 : f[k] \in Int
        /\ \A k \in 1 .. m + 1 : g[k] \in Int
        /\ \A k \in 1 .. m + 1 : h[k] \in Int
        /\ \A k \in 1 .. m : g[k] \in Int
        /\ \A k \in 1 .. m : h[k] \in Int
    BY <1>0
  <2>2. Total(f, m + 1) = Total(f, m) + f[m + 1]
    BY <2>1, TotalStep
  <2>3. Total(g, m + 1) = Total(g, m) + g[m + 1]
    BY <2>1, TotalStep
  <2>4. Total(h, m + 1) = Total(h, m) + h[m + 1]
    BY <2>1, TotalStep
  <2>5. Total(g, m) \in Int /\ Total(h, m) \in Int
    BY <2>1, TotalStep
  <2>6. /\ Total(f, m) = Total(g, m) + c * Total(h, m)
        /\ f[m + 1] = g[m + 1] + c * h[m + 1] /\ g[m + 1] \in Int /\ h[m + 1] \in Int
    BY <1>2, <2>1
  <2> DEFINE tg == Total(g, m)
             th == Total(h, m)
             x == g[m + 1]
             y == h[m + 1]
  <2>7. Total(f, m + 1) = (tg + c * th) + (x + c * y)
    BY <2>2, <2>6
  <2>8. tg \in Int /\ th \in Int /\ x \in Int /\ y \in Int
    BY <2>5, <2>6
  <2>9. Total(g, m + 1) = tg + x /\ Total(h, m + 1) = th + y
    BY <2>3, <2>4
  <2> HIDE DEF tg, th, x, y
  <2>10. (tg + c * th) + (x + c * y) = (tg + x) + c * (th + y)
    BY <2>8
  <2> QED BY <2>7, <2>9, <2>10
<1> HIDE DEF S
<1>3. n \in S
  BY <1>1, <1>2, Induction
<1> QED BY <1>3 DEF S

\* They depend on the terms alone, and scale with them.
LEMMA TotalSame ==
  ASSUME NEW f, NEW g, NEW n \in Nat,
         \A k \in 1 .. n : g[k] \in Int, \A k \in 1 .. n : f[k] = g[k]
  PROVE  Total(f, n) = Total(g, n)
<1>1. \A k \in 1 .. n : f[k] = g[k] + 0 * g[k]
  OBVIOUS
<1>2. Total(f, n) = Total(g, n) + 0 * Total(g, n)
  BY <1>1, TotalLinear, 0 \in Int
<1>3. PICK t \in Int : t = Total(g, n)
  BY TotalStep
<1>4. t + 0 * t = t
  OBVIOUS
<1> QED BY <1>2, <1>3, <1>4

LEMMA TotalZero ==
  ASSUME NEW f, NEW n \in Nat, \A k \in 1 .. n : f[k] = 0
  PROVE  Total(f, n) = 0
<1>1. (\A k \in 1 .. n : f[k] \in Int) /\ (\A k \in 1 .. n : f[k] = f[k] + 1 * f[k])
  OBVIOUS
<1>2. Total(f, n) = Total(f, n) + 1 * Total(f, n)
  BY <1>1, TotalLinear, 1 \in Int
<1>3. PICK t \in Int : t = Total(f, n)
  BY <1>1, TotalStep
<1>4. t = t + 1 * t => t = 0
  OBVIOUS
<1> QED BY <1>2, <1>3, <1>4

\* One term changed.
LEMMA TotalUpdate ==
  ASSUME NEW f, NEW g, NEW n \in Nat, NEW j \in 1 .. n,
         \A k \in 1 .. n : f[k] \in Int, g[j] \in Int,
         \A k \in 1 .. n : k # j => g[k] = f[k]
  PROVE  Total(g, n) = Total(f, n) + (g[j] - f[j])
<1> DEFINE d == g[j] - f[j]
           S == {m \in Nat : m <= n => Total(g, m) = Total(f, m) + (IF j <= m THEN d ELSE 0)}
<1>0. d \in Int /\ \A k \in 1 .. n : g[k] \in Int
  OBVIOUS
<1>1. 0 \in S
  <2>1. (\A k \in 1 .. 0 : f[k] \in Int) /\ (\A k \in 1 .. 0 : g[k] \in Int)
    OBVIOUS
  <2>2. Total(f, 0) = 0 /\ Total(g, 0) = 0
    BY <2>1, TotalStep, 0 \in Nat
  <2> QED BY <2>2
<1>2. ASSUME NEW m \in Nat, m \in S PROVE m + 1 \in S
  <2> SUFFICES ASSUME m + 1 <= n
               PROVE  Total(g, m + 1) = Total(f, m + 1) + (IF j <= m + 1 THEN d ELSE 0)
    OBVIOUS
  <2>1. /\ m + 1 \in Nat /\ (m + 1) - 1 = m /\ m + 1 # 0 /\ m + 1 \in 1 .. n
        /\ \A k \in 1 .. m + 1 : f[k] \in Int
        /\ \A k \in 1 .. m : f[k] \in Int
        /\ \A k \in 1 .. m + 1 : g[k] \in Int
    BY <1>0
  <2>2. Total(f, m + 1) = Total(f, m) + f[m + 1]
    BY <2>1, TotalStep
  <2>3. Total(g, m + 1) = Total(g, m) + g[m + 1]
    BY <2>1, TotalStep
  <2>4. Total(f, m) \in Int
    BY <2>1, TotalStep
  <2>5. Total(g, m) = Total(f, m) + (IF j <= m THEN d ELSE 0)
    BY <1>2
  <2>6. CASE m + 1 = j
    BY <1>0, <2>1, <2>2, <2>3, <2>4, <2>5, <2>6
  <2>7. CASE m + 1 # j
    <3>1. g[m + 1] = f[m + 1] /\ f[m + 1] \in Int
      BY <2>1, <2>7
    <3> QED BY <1>0, <2>2, <2>3, <2>4, <2>5, <2>7, <3>1
  <2> QED BY <2>6, <2>7
<1> HIDE DEF S, d
<1>3. n \in S
  BY <1>1, <1>2, Induction
<1> QED BY <1>3 DEF S, d

\* A sum of multiples.
LEMMA TotalDivides ==
  ASSUME NEW f, NEW n \in Nat, NEW b \in Nat \ {0},
         \A k \in 1 .. n : f[k] \in Int, \A k \in 1 .. n : f[k] % b = 0
  PROVE  Total(f, n) % b = 0
<1> DEFINE h == [k \in 1 .. n |-> f[k] \div b]
           z == [k \in 1 .. n |-> 0]
<1>1. ASSUME NEW k \in 1 .. n PROVE h[k] \in Int /\ f[k] = z[k] + b * h[k]
  <2>1. h[k] = f[k] \div b /\ f[k] \in Int /\ f[k] % b = 0 /\ z[k] = 0
    OBVIOUS
  <2> HIDE DEF h, z
  <2>2. f[k] \div b \in Int /\ f[k] = (f[k] \div b) * b + (f[k] % b)
    BY <2>1, DivModFloor
  <2> QED BY <2>1, <2>2
<1>2. \A k \in 1 .. n : z[k] = 0 /\ z[k] \in Int
  OBVIOUS
<1> HIDE DEF h, z
<1>3. Total(f, n) = Total(z, n) + b * Total(h, n)
  BY <1>1, <1>2, TotalLinear, b \in Int
<1>4. Total(z, n) = 0
  BY <1>2, TotalZero
<1>5. Total(h, n) \in Int
  BY <1>1, TotalStep
<1>6. Total(f, n) \in Int /\ Total(f, n) = Total(h, n) * b + 0
  BY <1>3, <1>4, <1>5
<1> QED BY <1>5, <1>6, DivModUnique

\* The order of the terms does not matter.
Orders(n) ==
  {p \in [1 .. n -> 1 .. n] : \A i \in 1 .. n : \E j \in 1 .. n : p[j] = i}

\* An order of a finite number of axes names none twice.
Injective(p, n) == \A i, j \in 1 .. n : p[i] = p[j] => i = j

LEMMA TotalPermuted ==
  ASSUME NEW n \in Nat, NEW f \in [1 .. n -> Int], NEW p \in Orders(n), Injective(p, n)
  PROVE  Total([k \in 1 .. n |-> f[p[k]]], n) = Total(f, n)
<1> DEFINE Claim(m) ==
             \A g \in [1 .. m -> Int], q \in [1 .. m -> 1 .. m] :
               Injective(q, m) /\ (\A i \in 1 .. m : \E j \in 1 .. m : q[j] = i)
                 => Total([k \in 1 .. m |-> g[q[k]]], m) = Total(g, m)
           S == {m \in Nat : Claim(m)}
<1>1. 0 \in S
  <2> SUFFICES ASSUME NEW g \in [1 .. 0 -> Int], NEW q \in [1 .. 0 -> 1 .. 0]
               PROVE  Total([k \in 1 .. 0 |-> g[q[k]]], 0) = Total(g, 0)
    OBVIOUS
  <2> DEFINE gq == [k \in 1 .. 0 |-> g[q[k]]]
  <2>1. (\A k \in 1 .. 0 : gq[k] \in Int) /\ (\A k \in 1 .. 0 : g[k] \in Int)
    OBVIOUS
  <2> HIDE DEF gq
  <2>2. Total(gq, 0) = 0 /\ Total(g, 0) = 0
    BY <2>1, TotalStep, 0 \in Nat
  <2> QED BY <2>2 DEF gq
<1>2. ASSUME NEW m \in Nat, m \in S PROVE m + 1 \in S
  <2>p. PICK M \in Nat : M = m + 1
    OBVIOUS
  <2> HIDE DEF Claim
  <2>0. /\ M # 0 /\ M - 1 = m /\ M \in 1 .. M
        /\ \A k \in 1 .. m : k \in 1 .. M /\ k # M
        /\ \A k \in 1 .. M : k # M => k \in 1 .. m
    BY <2>p
  <2> USE DEF Claim
  <2>s. SUFFICES Claim(M)
    BY <2>p
  <2> SUFFICES ASSUME NEW g \in [1 .. M -> Int], NEW q \in [1 .. M -> 1 .. M],
                      Injective(q, M), \A i \in 1 .. M : \E j \in 1 .. M : q[j] = i
               PROVE  Total([k \in 1 .. M |-> g[q[k]]], M) = Total(g, M)
    OBVIOUS
  <2>1. PICK j \in 1 .. M : q[j] = M
    BY <2>0
  <2> DEFINE r == [k \in 1 .. m |-> IF k = j THEN q[M] ELSE q[k]]
             h == [k \in 1 .. m |-> g[k]]
             gq == [k \in 1 .. M |-> g[q[k]]]
             hr == [k \in 1 .. m |-> h[r[k]]]
  <2>2. ASSUME NEW k \in 1 .. m PROVE r[k] \in 1 .. m
    <3>1. M # k /\ M \in 1 .. M /\ k \in 1 .. M
      BY <2>0
    <3>2. q[k] = M => k = j
      BY <2>1, <3>1 DEF Injective
    <3>3. k = j => q[M] # M
      BY <2>1, <3>1 DEF Injective
    <3>4. r[k] \in 1 .. M /\ r[k] # M
      BY <3>1, <3>2, <3>3
    <3>5. r[k] \in 1 .. m
      BY <3>4, <2>0
    <3> QED BY <3>5
  <2>3. r \in [1 .. m -> 1 .. m] /\ h \in [1 .. m -> Int]
    BY <2>0, <2>2
  <2>4. Injective(r, m)
    <3> SUFFICES ASSUME NEW i \in 1 .. m, NEW k \in 1 .. m, r[i] = r[k]
                 PROVE  i = k
      BY DEF Injective
    <3>1. i \in 1 .. M /\ k \in 1 .. M /\ i # M /\ k # M /\ M \in 1 .. M
      BY <2>0
    <3>2. (i = j /\ k # j => q[M] = q[k]) /\ (k = j /\ i # j => q[i] = q[M])
          /\ (i # j /\ k # j => q[i] = q[k])
      OBVIOUS
    <3> QED BY <3>1, <3>2 DEF Injective
  <2>5. \A i \in 1 .. m : \E k \in 1 .. m : r[k] = i
    <3> SUFFICES ASSUME NEW i \in 1 .. m PROVE \E k \in 1 .. m : r[k] = i
      OBVIOUS
    <3>1. PICK k \in 1 .. M : q[k] = i
      BY <2>0
    <3>2. i # M /\ k # j
      BY <2>0, <2>1, <3>1
    <3>3. CASE k = M
      <4>1. j \in 1 .. m /\ r[j] = i
        BY <2>0, <3>1, <3>2, <3>3
      <4> QED BY <4>1
    <3>4. CASE k # M
      <4>1. k \in 1 .. m /\ r[k] = i
        BY <2>0, <3>1, <3>2, <3>4
      <4> QED BY <4>1
    <3> QED BY <3>3, <3>4
  <2>6. Total(hr, m) = Total(h, m)
    BY <1>2, <2>3, <2>4, <2>5
  <2>7. /\ \A k \in 1 .. M : gq[k] = g[q[k]] /\ gq[k] \in Int /\ g[k] \in Int
        /\ \A k \in 1 .. m : hr[k] = h[r[k]] /\ hr[k] \in Int
        /\ \A k \in 1 .. m : h[k] = g[k] /\ h[k] \in Int
    <3>1. \A k \in 1 .. M : gq[k] = g[q[k]] /\ gq[k] \in Int /\ g[k] \in Int
      OBVIOUS
    <3>2. \A k \in 1 .. m : h[k] = g[k] /\ h[k] \in Int
      BY <2>0
    <3> HIDE DEF r, h
    <3>3. \A k \in 1 .. m : hr[k] = h[r[k]] /\ hr[k] \in Int
      BY <2>3
    <3> QED BY <3>1, <3>2, <3>3
  <2>8. \A k \in 1 .. m : k # j => hr[k] = gq[k]
    BY <2>7, <2>2, <2>0
  <2>9. j # M => hr[j] = gq[M] /\ gq[j] = g[M]
    <3> SUFFICES ASSUME j # M PROVE hr[j] = gq[M] /\ gq[j] = g[M]
      OBVIOUS
    <3>0. j \in 1 .. m
      BY <2>0
    <3>1. j \in 1 .. m /\ r[j] = q[M] /\ r[j] \in 1 .. m
      BY <2>2, <3>0
    <3> QED BY <2>1, <2>7, <3>1
  <2>10. j = M => gq[M] = g[M]
    BY <2>1, <2>7
  <2> HIDE DEF r, h, gq, hr
  <2>11. Total(gq, M) = Total(gq, m) + gq[M]
    <3>1. \A k \in 1 .. M : gq[k] \in Int
      BY <2>7
    <3> QED BY <2>0, <3>1, TotalStep
  <2>12. Total(g, M) = Total(g, m) + g[M]
    <3>1. \A k \in 1 .. M : g[k] \in Int
      BY <2>7
    <3> QED BY <2>0, <3>1, TotalStep
  <2>13. Total(h, m) = Total(g, m)
    <3>1. (\A k \in 1 .. m : g[k] \in Int) /\ (\A k \in 1 .. m : h[k] = g[k])
      BY <2>7
    <3> QED BY <3>1, TotalSame
  <2>14. Total(gq, m) \in Int /\ Total(g, m) \in Int /\ gq[M] \in Int /\ g[M] \in Int
    <3>1. (\A k \in 1 .. m : g[k] \in Int) /\ (\A k \in 1 .. m : gq[k] \in Int)
      BY <2>0, <2>7
    <3> QED BY <2>7, <2>0, <3>1, TotalStep
  <2>15. Total(gq, M) = Total(g, M)
    <3>1. CASE j = M
      <4>1. \A k \in 1 .. m : hr[k] = gq[k] /\ gq[k] \in Int
        BY <2>0, <2>7, <2>8, <3>1
      <4>2. Total(hr, m) = Total(gq, m)
        BY <4>1, TotalSame
      <4> QED BY <4>2, <2>6, <2>10, <2>11, <2>12, <2>13, <3>1
    <3>2. CASE j # M
      <4>1. j \in 1 .. m /\ gq[j] \in Int /\ hr[j] \in Int
        BY <2>7, <2>0, <3>2
      <4>2. (\A k \in 1 .. m : gq[k] \in Int) /\ (\A k \in 1 .. m : k # j => hr[k] = gq[k])
        BY <2>0, <2>7, <2>8
      <4>3. Total(hr, m) = Total(gq, m) + (hr[j] - gq[j])
        BY <4>1, <4>2, TotalUpdate
      <4>4. hr[j] = gq[M] /\ gq[j] = g[M]
        BY <2>9, <3>2
      <4>5. Total(hr, m) = Total(gq, m) + (gq[M] - g[M])
        BY <4>3, <4>4
      <4>6. Total(hr, m) = Total(g, m)
        BY <2>6, <2>13
      <4>7. Total(g, m) = Total(gq, m) + (gq[M] - g[M])
        BY <4>5, <4>6
      <4>8. Total(g, m) + g[M] = Total(gq, m) + gq[M]
        <5> DEFINE tg == Total(g, m)
                   tq == Total(gq, m)
                   u == gq[M]
                   v == g[M]
        <5>1. tg = tq + (u - v) /\ tg \in Int /\ tq \in Int /\ u \in Int /\ v \in Int
          BY <4>7, <2>14
        <5> HIDE DEF tg, tq, u, v
        <5>2. tg + v = tq + u
          BY <5>1
        <5> QED BY <5>2 DEF tg, tq, u, v
      <4> QED BY <4>8, <2>11, <2>12
    <3> QED BY <3>1, <3>2
  <2> QED BY <2>15 DEF gq
<1> HIDE DEF S
<1>3. n \in S
  BY <1>1, <1>2, Induction
<1>4. p \in [1 .. n -> 1 .. n] /\ \A i \in 1 .. n : \E j \in 1 .. n : p[j] = i
  BY DEF Orders
<1> QED BY <1>3, <1>4 DEF S

\* An axis of one array and the two it is split into in another: their terms,
\* and their extents.
\* The term j of f is the sum of two neighbouring terms of g; the others agree.
SumMerged(f, g, n, j) ==
  /\ \A k \in 1 .. n + 1 : g[k] \in Int
  /\ \A k \in 1 .. n : k < j => f[k] = g[k]
  /\ f[j] = g[j] + g[j + 1]
  /\ \A k \in 1 .. n : k > j => f[k] = g[k + 1]

LEMMA TotalMerged ==
  ASSUME NEW f, NEW g, NEW n \in Nat, NEW j \in 1 .. n, SumMerged(f, g, n, j)
  PROVE  Total(f, n) = Total(g, n + 1)
<1> SUFFICES ASSUME \A k \in 1 .. n + 1 : g[k] \in Int,
                    \A k \in 1 .. n : k < j => f[k] = g[k],
                    f[j] = g[j] + g[j + 1],
                    \A k \in 1 .. n : k > j => f[k] = g[k + 1]
             PROVE  Total(f, n) = Total(g, n + 1)
  BY DEF SumMerged
<1> DEFINE S == {m \in Nat : /\ m < j => Total(f, m) = Total(g, m)
                             /\ j <= m /\ m <= n => Total(f, m) = Total(g, m + 1)}
<1>0. ASSUME NEW k \in 1 .. n PROVE f[k] \in Int
  <2>1. k + 1 \in 1 .. n + 1 /\ k \in 1 .. n + 1
    OBVIOUS
  <2>2. g[k] \in Int /\ g[k + 1] \in Int
    BY <2>1
  <2> QED BY <2>2
<1>1. 0 \in S
  <2>1. (\A k \in 1 .. 0 : f[k] \in Int) /\ (\A k \in 1 .. 0 : g[k] \in Int)
    OBVIOUS
  <2>2. Total(f, 0) = 0 /\ Total(g, 0) = 0
    BY <2>1, TotalStep, 0 \in Nat
  <2> QED BY <2>2
<1>2. ASSUME NEW m \in Nat, m \in S PROVE m + 1 \in S
  <2> DEFINE M == m + 1
  <2>1. M \in Nat /\ M # 0 /\ M - 1 = m /\ M + 1 \in Nat /\ M + 1 # 0 /\ (M + 1) - 1 = M
    OBVIOUS
  <2>2. ASSUME M <= n
        PROVE  /\ Total(f, M) = Total(f, m) + f[M]
               /\ Total(g, M) = Total(g, m) + g[M] /\ g[M] \in Int
               /\ Total(g, M + 1) = Total(g, M) + g[M + 1] /\ g[M + 1] \in Int
               /\ Total(g, m) \in Int /\ Total(g, M) \in Int
    <3>1. /\ \A k \in 1 .. M : f[k] \in Int
          /\ \A k \in 1 .. m : g[k] \in Int
          /\ \A k \in 1 .. M : g[k] \in Int
          /\ \A k \in 1 .. M + 1 : g[k] \in Int
      BY <1>0, <2>2
    <3>2. Total(f, M) = Total(f, m) + f[M]
      BY <2>1, <3>1, TotalStep
    <3>3. Total(g, M) = Total(g, m) + g[M]
      BY <2>1, <3>1, TotalStep
    <3>4. Total(g, M + 1) = Total(g, M) + g[M + 1]
      BY <2>1, <3>1, TotalStep
    <3>5. Total(g, m) \in Int /\ Total(g, M) \in Int
      BY <2>1, <3>1, TotalStep
    <3>6. M \in 1 .. n + 1 /\ M + 1 \in 1 .. n + 1
      BY <2>2
    <3> QED BY <3>2, <3>3, <3>4, <3>5, <3>6
  <2>3. ASSUME M < j PROVE Total(f, M) = Total(g, M)
    <3>1. m < j /\ M \in 1 .. n /\ f[M] = g[M]
      BY <2>3
    <3> QED BY <1>2, <2>2, <3>1
  <2>4. ASSUME M = j PROVE Total(f, M) = Total(g, M + 1)
    <3>1. m < j /\ M <= n /\ f[M] = g[M] + g[M + 1]
      BY <2>4
    <3> QED BY <1>2, <2>2, <3>1
  <2>5. ASSUME j < M, M <= n PROVE Total(f, M) = Total(g, M + 1)
    <3>1. j <= m /\ m <= n /\ M \in 1 .. n /\ f[M] = g[M + 1]
      BY <2>5
    <3> QED BY <1>2, <2>2, <2>5, <3>1
  <2> QED BY <2>3, <2>4, <2>5
<1> HIDE DEF S
<1>3. n \in S
  BY <1>1, <1>2, Induction
<1>4. j <= n
  OBVIOUS
<1> QED BY <1>3, <1>4 DEF S

\* Merging two neighbouring extents changes no other part of the product.
\* The extent j of s is the product of two neighbouring extents of t; the others
\* agree: no other part of the product changes.
ProductMerged(s, t, n, j) ==
  /\ \A k \in 1 .. n + 1 : t[k] \in Int
  /\ \A k \in 1 .. n : k < j => s[k] = t[k]
  /\ s[j] = t[j] * t[j + 1]
  /\ \A k \in 1 .. n : k > j => s[k] = t[k + 1]

LEMMA ExtentMerged ==
  ASSUME NEW s, NEW t, NEW n \in Nat, NEW j \in 1 .. n, ProductMerged(s, t, n, j)
  PROVE  /\ \A a \in 1 .. j : Extent(t, a, n + 1) = Extent(s, a, n)
         /\ \A a \in j + 1 .. n + 1 : Extent(t, a + 1, n + 1) = Extent(s, a, n)
<1> SUFFICES ASSUME \A k \in 1 .. n + 1 : t[k] \in Int,
                    \A k \in 1 .. n : k < j => s[k] = t[k],
                    s[j] = t[j] * t[j + 1],
                    \A k \in 1 .. n : k > j => s[k] = t[k + 1]
             PROVE  /\ \A a \in 1 .. j : Extent(t, a, n + 1) = Extent(s, a, n)
                    /\ \A a \in j + 1 .. n + 1 : Extent(t, a + 1, n + 1) = Extent(s, a, n)
  BY DEF ProductMerged
<1>0. ASSUME NEW k \in 1 .. n PROVE s[k] \in Int
  <2>1. k + 1 \in 1 .. n + 1 /\ k \in 1 .. n + 1 /\ j + 1 \in 1 .. n + 1 /\ j \in 1 .. n + 1
    OBVIOUS
  <2>2. t[k] \in Int /\ t[k + 1] \in Int /\ t[j] \in Int /\ t[j + 1] \in Int
    BY <2>1
  <2> QED BY <2>2
<1>1. ASSUME NEW a \in Nat \ {0}, j + 1 <= a, a <= n + 1
      PROVE  Extent(t, a + 1, n + 1) = Extent(s, a, n)
  <2> DEFINE S == {m \in Nat : a <= m /\ m <= n => Extent(t, a + 1, m + 1) = Extent(s, a, m)}
             A == a + 1
  <2>1. A \in Nat \ {0}
    OBVIOUS
  <2>2. ASSUME NEW m \in Nat, m < a, m <= n PROVE Extent(t, A, m + 1) = Extent(s, a, m)
    <3>1. /\ m + 1 \in Nat /\ m + 1 < A
          /\ \A k \in A .. m + 1 : t[k] \in Int
          /\ \A k \in a .. m : s[k] \in Int
      BY <1>1, <2>2
    <3>2. Extent(t, A, m + 1) = 1
      BY <2>1, <3>1, ExtentStep
    <3>3. Extent(s, a, m) = 1
      BY <2>2, <3>1, ExtentStep
    <3> QED BY <3>2, <3>3
  <2>3. 0 \in S
    OBVIOUS
  <2>4. ASSUME NEW m \in Nat, m \in S PROVE m + 1 \in S
    <3> DEFINE M == m + 1
    <3> SUFFICES ASSUME a <= M, M <= n PROVE Extent(t, A, M + 1) = Extent(s, a, M)
      OBVIOUS
    <3>1. Extent(t, A, M) = Extent(s, a, m)
      BY <2>2, <2>4
    <3>2. M \in Nat /\ M - 1 = m /\ M + 1 \in Nat /\ (M + 1) - 1 = M /\ M + 1 >= A /\ M >= a
      OBVIOUS
    <3>3. (\A k \in A .. M + 1 : t[k] \in Int) /\ (\A k \in a .. M : s[k] \in Int)
      BY <1>0, <1>1
    <3>4. Extent(t, A, M + 1) = Extent(t, A, M) * t[M + 1]
      BY <2>1, <3>2, <3>3, ExtentStep
    <3>5. Extent(s, a, M) = Extent(s, a, m) * s[M]
      BY <3>2, <3>3, ExtentStep
    <3>6. s[M] = t[M + 1]
      BY <1>1
    <3> QED BY <3>1, <3>4, <3>5, <3>6
  <2> HIDE DEF S
  <2>5. n \in S
    BY <2>3, <2>4, Induction
  <2>6. n < a => Extent(t, A, n + 1) = Extent(s, a, n)
    BY <2>2
  <2> QED BY <1>1, <2>5, <2>6 DEF S
<1>2. /\ j \in Nat \ {0} /\ j <= n /\ j + 1 \in Nat \ {0} /\ j + 1 <= n + 1 /\ n + 1 \in Nat
      /\ \A k \in 1 .. n : s[k] \in Int
  BY <1>0
<1>3. ASSUME NEW a \in Nat, a <= j PROVE 1 <= a => Extent(t, a, n + 1) = Extent(s, a, n)
  <2> DEFINE S == {m \in Nat : m < j => Extent(t, j - m, n + 1) = Extent(s, j - m, n)}
  <2>1. 0 \in S
    <3>1. Extent(t, (j + 1) + 1, n + 1) = Extent(s, j + 1, n)
      BY <1>1, <1>2
    <3>2. /\ \A k \in j .. n + 1 : t[k] \in Int
          /\ \A k \in j + 1 .. n + 1 : t[k] \in Int
          /\ \A k \in j .. n : s[k] \in Int
          /\ \A k \in j + 1 .. n : s[k] \in Int
      BY <1>2
    <3>3. Extent(t, j, n + 1) = t[j] * Extent(t, j + 1, n + 1)
      BY <1>2, <3>2, ExtentFirst
    <3>4. Extent(t, j + 1, n + 1) = t[j + 1] * Extent(t, (j + 1) + 1, n + 1)
      BY <1>2, <3>2, ExtentFirst
    <3>5. Extent(s, j, n) = s[j] * Extent(s, j + 1, n)
      BY <1>2, <3>2, ExtentFirst
    <3>6. Extent(s, j + 1, n) \in Int /\ t[j] \in Int /\ t[j + 1] \in Int
      BY <1>2, <3>2, ExtentStep
    <3>7. Extent(t, j, n + 1) = Extent(s, j, n)
      <4> DEFINE e == Extent(s, j + 1, n)
                 x == t[j]
                 y == t[j + 1]
      <4>1. Extent(t, j, n + 1) = x * (y * e) /\ Extent(s, j, n) = (x * y) * e
        BY <3>1, <3>3, <3>4, <3>5
      <4>2. e \in Int /\ x \in Int /\ y \in Int
        BY <3>6
      <4> HIDE DEF e, x, y
      <4>3. x * (y * e) = (x * y) * e
        BY <4>2
      <4> QED BY <4>1, <4>3
    <3> QED BY <3>7
  <2>2. ASSUME NEW m \in Nat, m \in S PROVE m + 1 \in S
    <3> SUFFICES ASSUME m + 1 < j
                 PROVE  Extent(t, j - (m + 1), n + 1) = Extent(s, j - (m + 1), n)
      OBVIOUS
    <3>1. PICK b \in Nat \ {0} : b = j - (m + 1) /\ b + 1 = j - m /\ b < j /\ b <= n /\ b <= n + 1
      BY <1>2
    <3>2. Extent(t, b + 1, n + 1) = Extent(s, b + 1, n)
      BY <2>2, <3>1
    <3>3. (\A k \in b .. n + 1 : t[k] \in Int) /\ (\A k \in b .. n : s[k] \in Int)
      BY <1>2, <3>1
    <3>4. Extent(t, b, n + 1) = t[b] * Extent(t, b + 1, n + 1)
      BY <1>2, <3>1, <3>3, ExtentFirst
    <3>5. Extent(s, b, n) = s[b] * Extent(s, b + 1, n)
      BY <1>2, <3>1, <3>3, ExtentFirst
    <3>6. s[b] = t[b]
      BY <3>1
    <3> QED BY <3>1, <3>2, <3>4, <3>5, <3>6
  <2> HIDE DEF S
  <2>3. j - a \in S
    BY <2>1, <2>2, <1>3, Induction, j - a \in Nat
  <2>4. j - (j - a) = a /\ (1 <= a => j - a < j)
    OBVIOUS
  <2> QED BY <2>3, <2>4 DEF S
<1>4. ASSUME NEW a \in 1 .. j PROVE Extent(t, a, n + 1) = Extent(s, a, n)
  <2>1. a \in Nat /\ a <= j /\ 1 <= a
    OBVIOUS
  <2> QED BY <1>3, <2>1
<1>5. ASSUME NEW a \in j + 1 .. n + 1 PROVE Extent(t, a + 1, n + 1) = Extent(s, a, n)
  <2>1. a \in Nat \ {0} /\ j + 1 <= a /\ a <= n + 1
    OBVIOUS
  <2> QED BY <1>1, <2>1
<1> QED BY <1>4, <1>5

-----------------------------------------------------------------------------
(***************************************************************************)
(* Positions and coordinates: each determines the other.                   *)
(***************************************************************************)
Box(s, n) == {c \in [1 .. n -> Nat] : \A a \in 1 .. n : c[a] < s[a]}
Place(s, c, n) == Total([a \in 1 .. n |-> c[a] * Extent(s, a + 1, n)], n)
Digits(s, m, n) == [a \in 1 .. n |-> (m \div Extent(s, a + 1, n)) % s[a]]

LEMMA NestedQuotient ==
  ASSUME NEW m \in Int, NEW b \in Nat \ {0}, NEW c \in Nat \ {0}, NEW e, e = b * c
  PROVE  e \in Nat \ {0} /\ m \div e = (m \div c) \div b
<1> DEFINE q1 == m \div c
           r1 == m % c
           q2 == q1 \div b
           r2 == q1 % b
<1>1. q1 \in Int /\ r1 \in Int /\ m = (q1 * c) + r1 /\ 0 <= r1 /\ r1 < c
  BY DivModFloor
<1>2. q2 \in Int /\ r2 \in Int /\ q1 = (q2 * b) + r2 /\ 0 <= r2 /\ r2 < b
  <2> HIDE DEF r1
  <2>1. q1 \in Int
    BY <1>1
  <2> HIDE DEF q1
  <2> QED BY <2>1, DivModFloor
<1> HIDE DEF q1, r1, q2, r2
<1>3. e \in Nat \ {0}
  OBVIOUS
<1>4. m = q2 * e + (r2 * c + r1)
  BY <1>1, <1>2
<1>5. 0 <= r2 * c + r1
  BY <1>1, <1>2, ProductNat
<1>6. r2 * c + r1 < e
  <2>1. (b - 1 - r2) * c >= 0
    BY <1>2, ProductNat, b - 1 - r2 \in Int, b - 1 - r2 >= 0
  <2>2. (b - 1 - r2) * c = b * c - c - r2 * c
    BY <1>2
  <2> QED BY <1>1, <1>2, <2>1, <2>2
<1>7. q2 = m \div e
  <2>1. r2 * c + r1 \in Int
    BY <1>1, <1>2
  <2> QED BY <1>2, <1>3, <1>4, <1>5, <1>6, <2>1, DivModUnique
<1> QED BY <1>3, <1>7 DEF q2, q1

LEMMA PlaceInt ==
  ASSUME NEW n \in Nat, NEW s, NEW c, \A k \in 1 .. n : s[k] \in Int, \A k \in 1 .. n : c[k] \in Int
  PROVE  /\ Place(s, c, n) \in Int
         /\ \A a \in 1 .. n : Extent(s, a + 1, n) \in Int /\ c[a] * Extent(s, a + 1, n) \in Int
<1> DEFINE f == [a \in 1 .. n |-> c[a] * Extent(s, a + 1, n)]
<1>1. ASSUME NEW a \in 1 .. n
      PROVE  Extent(s, a + 1, n) \in Int /\ c[a] * Extent(s, a + 1, n) \in Int
  <2>1. a + 1 \in Nat \ {0} /\ \A k \in a + 1 .. n : s[k] \in Int
    OBVIOUS
  <2>2. Extent(s, a + 1, n) \in Int
    BY <2>1, ExtentStep
  <2> QED BY <2>2
<1>2. \A k \in 1 .. n : f[k] \in Int
  BY <1>1
<1> HIDE DEF f
<1>3. Total(f, n) \in Int
  BY <1>2, TotalStep
<1> QED BY <1>1, <1>3 DEF Place, f

\* The last coordinate is the fastest.
LEMMA PlacePeel ==
  ASSUME NEW n \in Nat \ {0}, NEW s, NEW c,
         \A k \in 1 .. n : s[k] \in Int, \A k \in 1 .. n : c[k] \in Int
  PROVE  Place(s, c, n) = Place(s, c, n - 1) * s[n] + c[n]
<1>0. PICK m \in Nat : m = n - 1
  OBVIOUS
<1> DEFINE f == [a \in 1 .. n |-> c[a] * Extent(s, a + 1, n)]
           g == [a \in 1 .. m |-> c[a] * Extent(s, a + 1, m)]
           z == [a \in 1 .. m |-> 0]
<1>1. /\ n \in 1 .. n /\ n + 1 \in Nat \ {0} /\ n < n + 1 /\ n # 0
      /\ s[n] \in Int /\ c[n] \in Int
      /\ \A k \in 1 .. m : k \in 1 .. n /\ s[k] \in Int /\ c[k] \in Int
      /\ \A k \in n + 1 .. n : s[k] \in Int
  BY <1>0
<1>2. \A a \in 1 .. n : c[a] * Extent(s, a + 1, n) \in Int
  BY PlaceInt
<1>3. \A a \in 1 .. m : Extent(s, a + 1, m) \in Int /\ c[a] * Extent(s, a + 1, m) \in Int
  BY <1>1, PlaceInt
<1>4. f[n] = c[n]
  <2>1. Extent(s, n + 1, n) = 1
    BY <1>1, ExtentStep
  <2> QED BY <1>1, <2>1
<1>5. ASSUME NEW a \in 1 .. m PROVE f[a] = z[a] + s[n] * g[a]
  <2>1. /\ a + 1 \in Nat \ {0} /\ n >= a + 1 /\ \A k \in a + 1 .. n : s[k] \in Int
    BY <1>0
  <2>2. Extent(s, a + 1, n) = Extent(s, a + 1, m) * s[n]
    BY <1>0, <2>1, ExtentStep
  <2>3. f[a] = c[a] * (Extent(s, a + 1, m) * s[n]) /\ g[a] = c[a] * Extent(s, a + 1, m) /\ z[a] = 0
    BY <1>1, <2>2
  <2> DEFINE x == c[a]
             e == Extent(s, a + 1, m)
             y == s[n]
  <2>4. x \in Int /\ e \in Int /\ y \in Int
    BY <1>1, <1>3
  <2>5. f[a] = x * (e * y) /\ g[a] = x * e /\ z[a] = 0
    BY <2>3
  <2> HIDE DEF f, g, z, x, e, y
  <2>6. x * (e * y) = 0 + y * (x * e)
    BY <2>4
  <2> QED BY <2>5, <2>6 DEF y
<1>6. /\ \A k \in 1 .. n : f[k] \in Int
      /\ \A k \in 1 .. m : f[k] \in Int
      /\ \A k \in 1 .. m : g[k] \in Int
      /\ \A k \in 1 .. m : z[k] = 0
      /\ \A k \in 1 .. m : z[k] \in Int
  <2>1. \A k \in 1 .. n : f[k] \in Int
    BY <1>2
  <2>2. \A k \in 1 .. m : g[k] \in Int
    BY <1>3
  <2>3. \A k \in 1 .. m : z[k] = 0 /\ z[k] \in Int
    OBVIOUS
  <2> HIDE DEF f, g, z
  <2> QED BY <1>1, <2>1, <2>2, <2>3
<1> HIDE DEF f, g, z
<1>7. Total(f, m) = Total(z, m) + s[n] * Total(g, m)
  BY <1>1, <1>5, <1>6, TotalLinear
<1>8. Total(z, m) = 0
  BY <1>6, TotalZero
<1>9. Total(f, n) = Total(f, m) + f[n]
  BY <1>0, <1>1, <1>6, TotalStep
<1>10. Total(g, m) \in Int
  BY <1>6, TotalStep
<1>11. Total(f, n) = Total(g, m) * s[n] + c[n]
  BY <1>1, <1>4, <1>7, <1>8, <1>9, <1>10
<1>12. Place(s, c, n) = Total(f, n) /\ Place(s, c, n - 1) = Total(g, m)
  BY <1>0 DEF Place, f, g
<1> QED BY <1>11, <1>12

\* Coordinates of a position, through the coordinates of its row.
LEMMA DigitsPeel ==
  ASSUME NEW n \in Nat \ {0}, NEW s, \A k \in 1 .. n : s[k] \in Nat \ {0}, NEW m \in Int
  PROVE  /\ Digits(s, m, n)[n] = m % s[n]
         /\ \A a \in 1 .. n - 1 : Digits(s, m, n)[a] = Digits(s, m \div s[n], n - 1)[a]
<1>1. n \in 1 .. n /\ n + 1 \in Nat \ {0} /\ n < n + 1 /\ \A k \in n + 1 .. n : s[k] \in Int
  OBVIOUS
<1>2. Extent(s, n + 1, n) = 1
  BY <1>1, ExtentStep
<1>3. m \div 1 = m
  OBVIOUS
<1>4. Digits(s, m, n)[n] = m % s[n]
  BY <1>1, <1>2, <1>3 DEF Digits
<1>5. ASSUME NEW a \in 1 .. n - 1
      PROVE  Digits(s, m, n)[a] = Digits(s, m \div s[n], n - 1)[a]
  <2>1. /\ a \in 1 .. n /\ a + 1 \in Nat \ {0} /\ n >= a + 1 /\ n - 1 \in Nat
        /\ \A k \in a + 1 .. n : s[k] \in Int
        /\ \A k \in a + 1 .. n - 1 : s[k] \in Nat /\ s[k] # 0
    OBVIOUS
  <2>2. Extent(s, a + 1, n) = Extent(s, a + 1, n - 1) * s[n]
    BY <2>1, ExtentStep
  <2>3. Extent(s, a + 1, n - 1) \in Nat \ {0} /\ s[n] \in Nat \ {0}
    BY <1>1, <2>1, ExtentNat
  <2>4. m \div Extent(s, a + 1, n) = (m \div s[n]) \div Extent(s, a + 1, n - 1)
    BY <2>2, <2>3, NestedQuotient
  <2> QED BY <2>1, <2>4 DEF Digits
<1> QED BY <1>4, <1>5

LEMMA DigitsPlace ==
  ASSUME NEW n \in Nat, NEW s, \A k \in 1 .. n : s[k] \in Nat \ {0},
         NEW m \in Nat, m < Extent(s, 1, n)
  PROVE  Digits(s, m, n) \in Box(s, n) /\ Place(s, Digits(s, m, n), n) = m
<1> DEFINE Claim(i) == \A x \in Nat : x < Extent(s, 1, i) =>
                         Digits(s, x, i) \in Box(s, i) /\ Place(s, Digits(s, x, i), i) = x
           S == {i \in Nat : i <= n => Claim(i)}
<1>1. 0 \in S
  <2> SUFFICES ASSUME NEW x \in Nat, x < Extent(s, 1, 0)
               PROVE  Digits(s, x, 0) \in Box(s, 0) /\ Place(s, Digits(s, x, 0), 0) = x
    OBVIOUS
  <2>1. (\A k \in 1 .. 0 : s[k] \in Int) /\ 1 \in Nat \ {0} /\ 0 \in Nat /\ 0 < 1
    OBVIOUS
  <2>2. Extent(s, 1, 0) = 1
    BY <2>1, ExtentStep
  <2>3. x = 0
    BY <2>2
  <2>4. Digits(s, x, 0) \in Box(s, 0)
    BY DEF Digits, Box
  <2> DEFINE f == [a \in 1 .. 0 |-> Digits(s, x, 0)[a] * Extent(s, a + 1, 0)]
  <2>5. \A k \in 1 .. 0 : f[k] = 0
    OBVIOUS
  <2> HIDE DEF f
  <2>6. Total(f, 0) = 0
    BY <2>1, <2>5, TotalZero
  <2> QED BY <2>3, <2>4, <2>6 DEF Place, f
<1>2. ASSUME NEW i \in Nat, i \in S PROVE i + 1 \in S
  <2>0. PICK N \in Nat \ {0} : N = i + 1 /\ N - 1 = i
    OBVIOUS
  <2> HIDE DEF Claim
  <2> SUFFICES ASSUME N <= n PROVE Claim(N)
    BY <2>0
  <2>1. Claim(i)
    BY <1>2, <2>0
  <2> USE DEF Claim
  <2> SUFFICES ASSUME NEW x \in Nat, x < Extent(s, 1, N)
               PROVE  Digits(s, x, N) \in Box(s, N) /\ Place(s, Digits(s, x, N), N) = x
    OBVIOUS
  <2> DEFINE y == x \div s[N]
             c == Digits(s, x, N)
             d == Digits(s, y, i)
  <2>2. /\ s[N] \in Nat \ {0} /\ s[N] \in Int /\ N >= 1 /\ 1 \in Nat \ {0} /\ i \in Nat
        /\ \A k \in 1 .. N : s[k] \in Int
        /\ \A k \in 1 .. N : s[k] \in Nat \ {0}
        /\ \A k \in 1 .. i : s[k] \in Nat
        /\ \A k \in 1 .. i : s[k] \in Int
    BY <2>0
  <2>3. Extent(s, 1, N) = Extent(s, 1, i) * s[N] /\ Extent(s, 1, i) \in Nat
    BY <2>0, <2>2, ExtentStep, ExtentNat
  <2>4. y \in Nat /\ y < Extent(s, 1, i)
    <3> DEFINE e == Extent(s, 1, i)
               b == s[N]
               r == x % b
    <3>0. x \in Int /\ b \in Nat \ {0}
      BY <2>2
    <3>1. y \in Int /\ r \in Int /\ x = y * b + r /\ 0 <= r /\ r < b
      <4> HIDE DEF b
      <4>1. x \div b \in Int /\ x % b \in Int /\ x = ((x \div b) * b) + (x % b)
            /\ 0 <= x % b /\ x % b < b
        BY <3>0, DivModFloor, Zenon
      <4> QED BY <4>1, Zenon DEF b
    <3>2. x < e * b /\ e \in Nat /\ b \in Nat \ {0}
      BY <2>2, <2>3
    <3> HIDE DEF y, e, b, r
    <3>3. ASSUME y >= e PROVE FALSE
      <4>1. (y - e) * b >= 0
        BY <3>1, <3>2, <3>3, ProductNat, y - e \in Int, y - e >= 0
      <4>2. (y - e) * b = y * b - e * b
        BY <3>1, <3>2
      <4> QED BY <3>1, <3>2, <4>1, <4>2
    <3>4. ASSUME y < 0 PROVE FALSE
      <4>1. (-1 - y) * b >= 0
        BY <3>1, <3>2, <3>4, ProductNat, -1 - y \in Int, -1 - y >= 0
      <4>2. (-1 - y) * b = -b - y * b
        BY <3>1, <3>2
      <4> QED BY <3>1, <3>2, <4>1, <4>2
    <3> QED BY <3>1, <3>2, <3>3, <3>4 DEF e
  <2>5. d \in Box(s, i) /\ Place(s, d, i) = y
    <3> HIDE DEF y
    <3> QED BY <2>1, <2>4
  <2>6. c[N] = x % s[N] /\ \A a \in 1 .. i : c[a] = d[a]
    BY <2>0, <2>2, DigitsPeel, x \in Int
  <2>7. x % s[N] \in Nat /\ x % s[N] < s[N] /\ x = y * s[N] + (x % s[N])
    <3>0. x \in Int /\ s[N] \in Nat \ {0}
      BY <2>2
    <3>1. x % s[N] \in Int /\ x = (y * s[N]) + (x % s[N]) /\ 0 <= x % s[N] /\ x % s[N] < s[N]
      BY <3>0, DivModFloor, Zenon
    <3> QED BY <3>1
  <2>8. c = [a \in 1 .. N |-> c[a]]
    BY DEF Digits
  <2> HIDE DEF c, d, y
  <2>9. \A a \in 1 .. N : c[a] \in Nat /\ c[a] < s[a]
    <3> SUFFICES ASSUME NEW a \in 1 .. N PROVE c[a] \in Nat /\ c[a] < s[a]
      OBVIOUS
    <3>1. CASE a = N
      BY <2>6, <2>7, <3>1
    <3>2. CASE a # N
      <4>1. a \in 1 .. i /\ c[a] = d[a]
        BY <2>0, <2>6, <3>2
      <4>2. d[a] \in Nat /\ d[a] < s[a]
        BY <2>5, <4>1 DEF Box
      <4> QED BY <4>1, <4>2
    <3> QED BY <3>1, <3>2
  <2>10. c \in Box(s, N)
    BY <2>8, <2>9 DEF Box
  <2>11. Place(s, c, N) = Place(s, c, i) * s[N] + c[N]
    <3>1. \A k \in 1 .. N : c[k] \in Int
      BY <2>9
    <3> QED BY <2>0, <2>2, <3>1, PlacePeel
  <2>12. Place(s, c, i) = Place(s, d, i)
    <3>1. [a \in 1 .. i |-> c[a] * Extent(s, a + 1, i)] = [a \in 1 .. i |-> d[a] * Extent(s, a + 1, i)]
      BY <2>6
    <3> QED BY <3>1 DEF Place
  <2>13. Place(s, c, N) = x
    BY <2>5, <2>6, <2>7, <2>11, <2>12
  <2> QED BY <2>10, <2>13 DEF c
<1> HIDE DEF S
<1>3. n \in S
  BY <1>1, <1>2, Induction
<1> QED BY <1>3 DEF S

LEMMA PlaceDigits ==
  ASSUME NEW n \in Nat, NEW s, \A k \in 1 .. n : s[k] \in Nat \ {0}, NEW c \in Box(s, n)
  PROVE  /\ Place(s, c, n) \in Nat
         /\ Place(s, c, n) < Extent(s, 1, n)
         /\ Digits(s, Place(s, c, n), n) = c
<1> DEFINE Claim(i) == /\ Place(s, c, i) \in Nat
                       /\ Place(s, c, i) < Extent(s, 1, i)
                       /\ \A a \in 1 .. i : Digits(s, Place(s, c, i), i)[a] = c[a]
           S == {i \in Nat : i <= n => Claim(i)}
<1>0. \A a \in 1 .. n : c[a] \in Nat /\ c[a] < s[a]
  BY DEF Box
<1>1. 0 \in S
  <2>1. (\A k \in 1 .. 0 : s[k] \in Int) /\ 1 \in Nat \ {0} /\ 0 \in Nat /\ 0 < 1
    OBVIOUS
  <2>2. Extent(s, 1, 0) = 1
    BY <2>1, ExtentStep
  <2> DEFINE f == [a \in 1 .. 0 |-> c[a] * Extent(s, a + 1, 0)]
  <2>5. \A k \in 1 .. 0 : f[k] = 0
    OBVIOUS
  <2> HIDE DEF f
  <2>6. Total(f, 0) = 0
    BY <2>1, <2>5, TotalZero
  <2>7. Place(s, c, 0) = 0
    BY <2>6 DEF Place, f
  <2> QED BY <2>2, <2>7
<1>2. ASSUME NEW i \in Nat, i \in S PROVE i + 1 \in S
  <2>0. PICK N \in Nat \ {0} : N = i + 1 /\ N - 1 = i
    OBVIOUS
  <2> HIDE DEF Claim
  <2> SUFFICES ASSUME N <= n PROVE Claim(N)
    BY <2>0
  <2>1. Claim(i)
    BY <1>2, <2>0
  <2> USE DEF Claim
  <2> DEFINE y == Place(s, c, i)
             x == Place(s, c, N)
  <2>2. /\ s[N] \in Nat \ {0} /\ s[N] \in Int /\ N >= 1 /\ 1 \in Nat \ {0} /\ i \in Nat
        /\ \A k \in 1 .. N : s[k] \in Int
        /\ \A k \in 1 .. N : s[k] \in Nat \ {0}
        /\ \A k \in 1 .. i : s[k] \in Nat
        /\ \A k \in 1 .. i : s[k] \in Int
        /\ \A k \in 1 .. N : c[k] \in Int
        /\ c[N] \in Nat /\ c[N] < s[N]
    BY <1>0, <2>0
  <2>3. Extent(s, 1, N) = Extent(s, 1, i) * s[N] /\ Extent(s, 1, i) \in Nat
    BY <2>0, <2>2, ExtentStep, ExtentNat
  <2>4. x = y * s[N] + c[N]
    BY <2>0, <2>2, PlacePeel
  <2>5. y \in Nat /\ y < Extent(s, 1, i)
    BY <2>1
  <2>6. x \in Nat /\ x < Extent(s, 1, N)
    <3> DEFINE e == Extent(s, 1, i)
               b == s[N]
               r == c[N]
    <3>1. x = y * b + r /\ b \in Nat \ {0} /\ r \in Nat /\ r < b /\ y \in Nat /\ e \in Nat /\ y < e
      BY <2>2, <2>3, <2>4, <2>5
    <3> HIDE DEF x, y, e, b, r
    <3>2. y * b \in Int /\ y * b >= 0
      BY <3>1, ProductNat
    <3>3. (e - 1 - y) * b >= 0
      BY <3>1, ProductNat, e - 1 - y \in Int, e - 1 - y >= 0
    <3>4. (e - 1 - y) * b = e * b - b - y * b
      BY <3>1
    <3>5. x \in Nat /\ x < e * b
      BY <3>1, <3>2, <3>3, <3>4
    <3> QED BY <2>3, <3>5 DEF e, b
  <2>7. y = x \div s[N] /\ c[N] = x % s[N]
    <3> HIDE DEF x, y
    <3>1. x \in Int /\ y \in Int /\ c[N] \in Int /\ 0 <= c[N] /\ c[N] < s[N] /\ s[N] \in Nat \ {0}
      BY <2>2, <2>5, <2>6
    <3> QED BY <2>4, <3>1, DivModUnique, Zenon
  <2>8. /\ Digits(s, x, N)[N] = x % s[N]
        /\ \A a \in 1 .. i : Digits(s, x, N)[a] = Digits(s, x \div s[N], i)[a]
    <3> HIDE DEF x
    <3> QED BY <2>0, <2>2, <2>6, DigitsPeel, x \in Int
  <2>9. \A a \in 1 .. N : Digits(s, x, N)[a] = c[a]
    <3> SUFFICES ASSUME NEW a \in 1 .. N PROVE Digits(s, x, N)[a] = c[a]
      OBVIOUS
    <3> HIDE DEF x
    <3>1. CASE a = N
      BY <2>7, <2>8, <3>1
    <3>2. CASE a # N
      <4>1. a \in 1 .. i
        BY <2>0, <3>2
      <4>2. Digits(s, y, i)[a] = c[a]
        BY <2>1, <4>1
      <4>3. Digits(s, x, N)[a] = Digits(s, x \div s[N], i)[a]
        BY <2>8, <4>1
      <4> HIDE DEF y
      <4> QED BY <2>7, <4>2, <4>3
    <3> QED BY <3>1, <3>2
  <2> QED BY <2>6, <2>9
<1> HIDE DEF S
<1>3. n \in S
  BY <1>1, <1>2, Induction
<1>4. Claim(n)
  BY <1>3 DEF S
<1>5. Digits(s, Place(s, c, n), n) = c
  <2>1. c = [a \in 1 .. n |-> c[a]]
    BY DEF Box
  <2>2. Digits(s, Place(s, c, n), n) = [a \in 1 .. n |-> Digits(s, Place(s, c, n), n)[a]]
    BY DEF Digits
  <2> QED BY <1>4, <2>1, <2>2
<1> QED BY <1>4, <1>5

-----------------------------------------------------------------------------
(***************************************************************************)
(* Two's complement.                                                       *)
(***************************************************************************)
Word == POISON .. -POISON - 1

LEMMA WrapHalf ==
  \E H \in Nat \ {0} :
      /\ POISON = -H
      /\ \A x : Wrap(x) = IF x % (2 * H) >= H THEN (x % (2 * H)) - 2 * H ELSE x % (2 * H)
<1> DEFINE H == 2^(W - 1)
<1>1. H \in Nat \ {0} /\ 2^W = 2 * H
  BY WidthAssumption
<1>2. POISON = -H
  BY DEF POISON
<1>3. ASSUME NEW x
      PROVE  Wrap(x) = IF x % (2 * H) >= H THEN (x % (2 * H)) - 2 * H ELSE x % (2 * H)
  BY <1>1, Zenon DEF Wrap
<1> HIDE DEF H
<1> QED BY <1>1, <1>2, <1>3

\* A wrapped number is in range, and a number in range is kept.
LEMMA WrapWord ==
  ASSUME NEW x \in Int
  PROVE  Wrap(x) \in Word /\ (x \in Word => Wrap(x) = x)
<1>1. PICK H \in Nat \ {0} :
        /\ POISON = -H
        /\ \A y : Wrap(y) = IF y % (2 * H) >= H THEN (y % (2 * H)) - 2 * H ELSE y % (2 * H)
  BY WrapHalf
<1> DEFINE N == 2 * H
           q == x \div N
           r == x % N
<1>2. N \in Nat \ {0} /\ N = H + H
  OBVIOUS
<1>3. Wrap(x) = IF r >= H THEN r - N ELSE r
  BY <1>1
<1> HIDE DEF N
<1>4. q \in Int /\ r \in Int /\ x = (q * N) + r /\ 0 <= r /\ r < N
  BY <1>2, DivModFloor
<1>5. -POISON - 1 = H - 1
  BY <1>1
<1> HIDE DEF r
<1>6. Wrap(x) \in Word
  BY <1>1, <1>2, <1>3, <1>4, <1>5 DEF Word
<1>7. ASSUME x \in Word PROVE Wrap(x) = x
  <2>0. -H <= x /\ x < H
    BY <1>1, <1>5, <1>7 DEF Word
  <2>1. CASE x >= 0
    <3>1. x = 0 * N + x /\ x < N
      BY <1>2, <2>0
    <3>2. x = x % N
      BY <1>2, <2>1, <3>1, DivModUnique
    <3> QED BY <1>3, <2>0, <3>2 DEF r
  <2>2. CASE x < 0
    <3>1. x = (-1) * N + (x + N) /\ x + N \in Int /\ 0 <= x + N /\ x + N < N /\ -1 \in Int
      BY <1>2, <2>0, <2>2
    <3>2. x + N = x % N
      BY <1>2, <3>1, DivModUnique
    <3>3. x + N >= H /\ (x + N) - N = x
      BY <1>2, <2>0
    <3> QED BY <1>3, <3>2, <3>3 DEF r
  <2> QED BY <2>1, <2>2
<1> QED BY <1>6, <1>7

\* However poison wraps it stays poison or becomes zero.
LEMMA WrapPoison ==
  ASSUME NEW k \in Int
  PROVE  Wrap(POISON * k) \in {0, POISON} /\ Wrap(0 * k) = 0
<1>1. PICK H \in Nat \ {0} :
        /\ POISON = -H
        /\ \A y : Wrap(y) = IF y % (2 * H) >= H THEN (y % (2 * H)) - 2 * H ELSE y % (2 * H)
  BY WrapHalf
<1> DEFINE N == 2 * H
           q == k \div 2
           r == k % 2
           x == POISON * k
<1>2. N \in Nat \ {0} /\ N = H + H
  OBVIOUS
<1>3. q \in Int /\ r \in Int /\ k = (q * 2) + r /\ (r = 0 \/ r = 1)
  OBVIOUS
<1>4. \A y : Wrap(y) = IF y % N >= H THEN (y % N) - N ELSE y % N
  BY <1>1
<1>5. x \in Int /\ x = (-H) * k
  BY <1>1
<1> HIDE DEF N, q, r, x
<1>6. (-H) * k = (-q) * N - H * r
  BY <1>2, <1>3
<1>9. 0 * k = 0 /\ 0 % N = 0
  BY <1>2
<1>10. Wrap(0 * k) = 0
  BY <1>2, <1>4, <1>9
<1>7. CASE r = 0
  <2>1. x = (-q) * N + 0 /\ -q \in Int /\ 0 \in Int /\ 0 <= 0 /\ 0 < N
    BY <1>2, <1>3, <1>5, <1>6, <1>7
  <2>2. x % N = 0
    BY <1>2, <1>5, <2>1, DivModUnique
  <2>3. Wrap(x) = 0
    BY <1>4, <2>2
  <2> QED BY <1>10, <2>3 DEF x
<1>8. CASE r = 1
  <2>1. x = (-q - 1) * N + H /\ -q - 1 \in Int /\ H \in Int /\ 0 <= H /\ H < N
    BY <1>2, <1>3, <1>5, <1>6, <1>8
  <2>2. x % N = H
    BY <1>2, <1>5, <2>1, DivModUnique
  <2>3. Wrap(x) = H - N
    BY <1>4, <2>2
  <2>4. H - N = POISON
    BY <1>1, <1>2
  <2> QED BY <1>10, <2>3, <2>4 DEF x
<1> QED BY <1>3, <1>7, <1>8

-----------------------------------------------------------------------------
LEMMA RemoveFacts ==
  ASSUME NEW S, NEW s \in Seq(S), NEW d \in 1 .. Len(s)
  PROVE  /\ RemoveAt(s, d) \in Seq(S) /\ Len(RemoveAt(s, d)) = Len(s) - 1
         /\ \A k \in 1 .. Len(s) - 1 : RemoveAt(s, d)[k] = IF k < d THEN s[k] ELSE s[k + 1]
<1> DEFINE u == SubSeq(s, 1, d - 1)
           v == SubSeq(s, d + 1, Len(s))
<1>1. u \in Seq(S) /\ Len(u) = d - 1 /\ \A k \in 1 .. d - 1 : u[k] = s[k]
  OBVIOUS
<1>2. v \in Seq(S) /\ Len(v) = Len(s) - d /\ \A k \in 1 .. Len(s) - d : v[k] = s[k + d]
  OBVIOUS
<1>3. RemoveAt(s, d) = u \o v
  BY DEF RemoveAt
<1> HIDE DEF u, v
<1>4. u \o v \in Seq(S) /\ Len(u \o v) = Len(s) - 1
  BY <1>1, <1>2
<1>5. ASSUME NEW k \in 1 .. Len(s) - 1
      PROVE  (u \o v)[k] = IF k < d THEN s[k] ELSE s[k + 1]
  <2>1. CASE k < d
    <3>1. k \in 1 .. d - 1 /\ k <= Len(u)
      BY <1>1, <2>1
    <3>2. (u \o v)[k] = u[k]
      BY <1>1, <1>2, <3>1
    <3> QED BY <1>1, <2>1, <3>1, <3>2
  <2>2. CASE k >= d
    <3>1. (u \o v)[k] = v[k - Len(u)]
      BY <1>1, <1>2, <2>2
    <3>2. k - Len(u) \in 1 .. Len(s) - d /\ (k - Len(u)) + d = k + 1
      BY <1>1, <2>2
    <3>3. PICK i \in 1 .. Len(s) - d : i = k - Len(u) /\ i + d = k + 1
      BY <3>2
    <3>4. v[i] = s[i + d]
      BY <1>2
    <3>5. (u \o v)[k] = s[k + 1] /\ ~(k < d)
      BY <2>2, <3>1, <3>3, <3>4
    <3> QED BY <3>5
  <2>3. k < d \/ k >= d
    OBVIOUS
  <2> QED BY <2>1, <2>2, <2>3, Zenon
<1> QED BY <1>3, <1>4, <1>5

\* Every part of a product of positive extents is at most the whole.
LEMMA ExtentSuffix ==
  ASSUME NEW n \in Nat, NEW s, \A k \in 1 .. n : s[k] \in Nat \ {0}, NEW a \in Nat, a <= n
  PROVE  Extent(s, a + 1, n) \in Nat \ {0} /\ Extent(s, a + 1, n) <= Extent(s, 1, n)
<1> DEFINE S == {i \in Nat : i <= n => /\ Extent(s, i + 1, n) \in Nat \ {0}
                                       /\ Extent(s, i + 1, n) <= Extent(s, 1, n)}
<1>1. 0 \in S
  <2>1. 1 \in Nat \ {0} /\ \A k \in 1 .. n : s[k] \in Nat /\ s[k] # 0
    OBVIOUS
  <2>2. Extent(s, 1, n) \in Nat \ {0}
    BY <2>1, ExtentNat
  <2> QED BY <2>2
<1>2. ASSUME NEW i \in Nat, i \in S PROVE i + 1 \in S
  <2>0. PICK j \in Nat \ {0} : j = i + 1
    OBVIOUS
  <2> SUFFICES ASSUME j <= n
               PROVE  /\ Extent(s, j + 1, n) \in Nat \ {0}
                      /\ Extent(s, j + 1, n) <= Extent(s, 1, n)
    BY <2>0
  <2>1. Extent(s, j, n) \in Nat \ {0} /\ Extent(s, j, n) <= Extent(s, 1, n)
    BY <1>2, <2>0
  <2>2. /\ \A k \in j .. n : s[k] \in Int
        /\ j + 1 \in Nat \ {0} /\ \A k \in j + 1 .. n : s[k] \in Nat /\ s[k] # 0
        /\ s[j] \in Nat \ {0} /\ 1 \in Nat \ {0}
        /\ \A k \in 1 .. n : s[k] \in Int
    OBVIOUS
  <2>3. Extent(s, j, n) = s[j] * Extent(s, j + 1, n)
    BY <2>2, ExtentFirst
  <2>4. Extent(s, j + 1, n) \in Nat \ {0}
    BY <2>2, ExtentNat
  <2>5. Extent(s, 1, n) \in Int
    BY <2>2, ExtentStep
  <2> DEFINE e == Extent(s, j + 1, n)
             x == s[j]
  <2>6. e \in Nat \ {0} /\ x \in Nat \ {0}
    BY <2>2, <2>4
  <2> HIDE DEF e, x
  <2>7. (x - 1) * e >= 0
    BY <2>6, ProductNat, x - 1 \in Int, x - 1 >= 0
  <2>8. (x - 1) * e = x * e - e
    BY <2>6
  <2>9. Extent(s, j, n) = x * e
    BY <2>3 DEF e, x
  <2>10. e <= Extent(s, j, n)
    BY <2>6, <2>7, <2>8, <2>9
  <2> QED BY <2>1, <2>4, <2>5, <2>10 DEF e
<1> HIDE DEF S
<1>3. a \in S
  BY <1>1, <1>2, Induction
<1> QED BY <1>3 DEF S

-----------------------------------------------------------------------------
(***************************************************************************)
(* Types.                                                                  *)
(***************************************************************************)
\* What is asked of the constants: tensors without empty axes, of fewer elements
\* than the integers can count; shapes whose row-major strides the integers can
\* hold; any ranges at all; permutations of the axes; and an Undefined that no
\* array equals.
Ranges == [begin : Int, end : Int, step : Int]
Arguments ==
  /\ Undefined \notin [shape : Seq(Nat), elems : Seq(Int)]
  /\ \A t \in Tensors : t \in Seq(Nat \ {0}) /\ Numel(PaddedShape(t)) < -POISON
  /\ \A s \in Seq(Nat) :
       /\ \A ns \in ReshapeArgs(s) :
            /\ ns \in Seq(Nat) /\ Len(ns) >= 1
            /\ \A a \in 1 .. Len(ns) : Extent(ns, a + 1, Len(ns)) < -POISON
       /\ \A r \in SliceArgs(s) : r \in Seq(Ranges)
       /\ \A p \in PermArgs(s) : p \in Orders(Len(s)) /\ Injective(p, Len(s))

\* The tensor a view is bound to: tiled in its last two axes, padded nowhere else.
BindInv ==
  LET n == Len(shape_)
      p == padded_shape_
  IN  /\ shape_ \in Seq(Nat \ {0}) /\ p \in Seq(Nat \ {0}) /\ Len(p) = n /\ n >= 2
      /\ \A a \in 1 .. n : shape_[a] <= p[a]
      /\ \A a \in 1 .. n - 2 : p[a] = shape_[a]
      /\ p[n - 1] % TILE = 0 /\ p[n] % TILE = 0
      /\ Extent(p, 1, n) < -POISON
      /\ src_rows_ = Extent(p, 1, n - 1) /\ src_cols_ = p[n]

Layouts == [shape : Seq(Nat), stride : Seq(Word), base : Word]
LayoutInv == L \in Layouts /\ Len(L.stride) = Len(L.shape) /\ Len(L.shape) >= 1

TypeInv == BindInv /\ LayoutInv /\ verbs \in 0 .. MaxVerbs

LEMMA ArraySeq ==
  ASSUME NEW S, NEW n \in Nat, NEW f \in [1 .. n -> S]
  PROVE  f \in Seq(S) /\ Len(f) = n
OBVIOUS

LEMMA WordFacts ==
  /\ POISON \in Int /\ POISON < 0 /\ POISON \in Word /\ 0 \in Word
  /\ \A x \in Word : x \in Int
  /\ \A x \in Nat : x < -POISON => x \in Word
<1>1. PICK H \in Nat \ {0} : POISON = -H
  BY WrapHalf
<1> QED BY <1>1 DEF Word

LEMMA TileFacts ==
  TILE \in Nat \ {0} /\ FACE \in Nat \ {0} /\ TILE = 2 * FACE /\ TILE >= 2
BY TilingAssumption

\* Padding reaches the next multiple of a tile.
LEMMA PaddedFacts ==
  ASSUME NEW x \in Nat
  PROVE  Padded(x) \in Nat /\ x <= Padded(x) /\ Padded(x) % TILE = 0
<1> DEFINE y == x + TILE - 1
           q == y \div TILE
           r == y % TILE
<1>1. TILE \in Nat \ {0} /\ y \in Int
  BY TileFacts
<1>2. Padded(x) = q * TILE
  BY DEF Padded
<1>3. q \in Int /\ r \in Int /\ y = (q * TILE) + r /\ 0 <= r /\ r < TILE
  <2> HIDE DEF y
  <2> QED BY <1>1, DivModFloor
<1>4. y = x + TILE - 1
  OBVIOUS
<1> HIDE DEF y, q, r
<1>5. Padded(x) \in Int /\ x <= Padded(x) /\ Padded(x) = q * TILE + 0
  BY <1>1, <1>2, <1>3, <1>4
<1>6. Padded(x) % TILE = 0
  BY <1>1, <1>3, <1>5, DivModUnique, 0 \in Int
<1> QED BY <1>5, <1>6

\* A product with a multiple of b is one.
LEMMA MultipleProduct ==
  ASSUME NEW x \in Int, NEW y \in Int, NEW b \in Nat \ {0}, y % b = 0
  PROVE  (x * y) % b = 0
<1>1. y = (y \div b) * b + (y % b) /\ y \div b \in Int
  BY DivModFloor
<1> DEFINE q == y \div b
<1>2. q \in Int /\ y = q * b
  BY <1>1
<1> HIDE DEF q
<1>3. x * y = (x * q) * b + 0 /\ x * q \in Int /\ x * y \in Int
  BY <1>2
<1> QED BY <1>3, DivModUnique, 0 \in Int

LEMMA SrcTiled == BindInv => /\ src_rows_ \in Nat \ {0} /\ src_cols_ \in Nat \ {0}
                             /\ src_rows_ % TILE = 0 /\ src_cols_ % TILE = 0
<1> SUFFICES ASSUME BindInv
             PROVE  /\ src_rows_ \in Nat \ {0} /\ src_cols_ \in Nat \ {0}
                    /\ src_rows_ % TILE = 0 /\ src_cols_ % TILE = 0
  OBVIOUS
<1> DEFINE p == padded_shape_
<1>0. shape_ \in Seq(Nat \ {0}) /\ p \in Seq(Nat \ {0}) /\ Len(p) = Len(shape_) /\ Len(shape_) >= 2
  BY DEF BindInv
<1>1. PICK m \in Nat \ {0} : m = Len(shape_) - 1 /\ Len(shape_) = m + 1 /\ Len(p) = m + 1
  <2>1. Len(shape_) \in Nat
    BY <1>0
  <2> QED BY <1>0, <2>1
<1>2. /\ p \in Seq(Nat \ {0}) /\ p[m] % TILE = 0 /\ p[m + 1] % TILE = 0
      /\ src_rows_ = Extent(p, 1, m) /\ src_cols_ = p[m + 1]
  <2>1. /\ p[Len(shape_) - 1] % TILE = 0 /\ p[Len(shape_)] % TILE = 0
        /\ src_rows_ = Extent(p, 1, Len(shape_) - 1) /\ src_cols_ = p[Len(shape_)]
    BY DEF BindInv
  <2> QED BY <1>0, <1>1, <2>1
<1> HIDE DEF p
<1>3. /\ \A k \in 1 .. m : p[k] \in Nat /\ p[k] # 0
      /\ \A k \in 1 .. m : p[k] \in Int
      /\ \A k \in 1 .. m - 1 : p[k] \in Int
      /\ p[m] \in Int /\ p[m + 1] \in Nat \ {0} /\ 1 \in Nat \ {0} /\ m - 1 \in Nat /\ m >= 1
  BY <1>1, <1>2
<1>4. Extent(p, 1, m) \in Nat \ {0}
  BY <1>3, ExtentNat
<1>5. Extent(p, 1, m) = Extent(p, 1, m - 1) * p[m] /\ Extent(p, 1, m - 1) \in Int
  BY <1>3, ExtentStep
<1>6. Extent(p, 1, m) % TILE = 0
  <2>1. TILE \in Nat \ {0}
    BY TileFacts
  <2>2. Extent(p, 1, m - 1) \in Int /\ p[m] \in Int /\ p[m] % TILE = 0
    BY <1>2, <1>3, <1>5
  <2>3. (Extent(p, 1, m - 1) * p[m]) % TILE = 0
    BY <2>1, <2>2, MultipleProduct, Zenon
  <2> QED BY <1>5, <2>3
<1> QED BY <1>2, <1>3, <1>4, <1>6

LEMMA TypeInvTypes == TypeInv => TypeOK
<1> SUFFICES ASSUME TypeInv PROVE TypeOK
  OBVIOUS
<1>1. /\ shape_ \in Seq(Nat \ {0}) /\ padded_shape_ \in Seq(Nat \ {0})
      /\ L \in Layouts /\ Len(L.stride) = Len(L.shape) /\ verbs \in 0 .. MaxVerbs
  BY DEF TypeInv, BindInv, LayoutInv
<1>2. shape_ \in Seq(Nat) /\ padded_shape_ \in Seq(Nat)
  BY <1>1
<1>3. L.shape \in Seq(Nat) /\ L.stride \in Seq(Word) /\ L.base \in Word
  BY <1>1 DEF Layouts
<1>4. src_rows_ % TILE = 0 /\ src_cols_ % TILE = 0
  BY SrcTiled DEF TypeInv
<1> QED BY <1>1, <1>2, <1>3, <1>4 DEF TypeOK, Word

LEMMA PaddedShapeFacts ==
  ASSUME NEW t \in Seq(Nat \ {0}), Len(t) >= 2
  PROVE  /\ PaddedShape(t) \in Seq(Nat \ {0}) /\ Len(PaddedShape(t)) = Len(t)
         /\ \A a \in 1 .. Len(t) : t[a] <= PaddedShape(t)[a]
         /\ \A a \in 1 .. Len(t) - 2 : PaddedShape(t)[a] = t[a]
         /\ PaddedShape(t)[Len(t) - 1] % TILE = 0 /\ PaddedShape(t)[Len(t)] % TILE = 0
<1> DEFINE p == PaddedShape(t)
<1>1. p = [a \in 1 .. Len(t) |-> IF a >= Len(t) - 1 THEN Padded(t[a]) ELSE t[a]]
  BY DEF PaddedShape
<1>2. ASSUME NEW a \in 1 .. Len(t)
      PROVE  p[a] \in Nat \ {0} /\ t[a] <= p[a] /\ (a >= Len(t) - 1 => p[a] % TILE = 0)
             /\ (a <= Len(t) - 2 => p[a] = t[a])
  <2>1. t[a] \in Nat \ {0} /\ t[a] \in Nat
    OBVIOUS
  <2>2. Padded(t[a]) \in Nat /\ t[a] <= Padded(t[a]) /\ Padded(t[a]) % TILE = 0
    BY <2>1, PaddedFacts
  <2>3. p[a] = IF a >= Len(t) - 1 THEN Padded(t[a]) ELSE t[a]
    BY <1>1
  <2> HIDE DEF p
  <2> QED BY <2>1, <2>2, <2>3
<1>3. p \in [1 .. Len(t) -> Nat \ {0}] /\ Len(t) \in Nat
  BY <1>1, <1>2
<1> HIDE DEF p
<1>4. p \in Seq(Nat \ {0}) /\ Len(p) = Len(t)
  BY <1>3, ArraySeq
<1>5. Len(t) - 1 \in 1 .. Len(t) /\ Len(t) \in 1 .. Len(t)
  OBVIOUS
<1>6. p[Len(t) - 1] % TILE = 0 /\ p[Len(t)] % TILE = 0
  BY <1>2, <1>5
<1>7. \A a \in 1 .. Len(t) - 2 : p[a] = t[a]
  BY <1>2
<1> QED BY <1>2, <1>4, <1>6, <1>7 DEF p

-----------------------------------------------------------------------------
(***************************************************************************)
(* The types hold initially and across every verb.                        *)
(***************************************************************************)
LEMMA TypeInit == Arguments /\ Init => TypeInv
<1> SUFFICES ASSUME Arguments, Init PROVE TypeInv
  OBVIOUS
<1> DEFINE t == shape_
           p == padded_shape_
<1>1. PICK n \in Nat : n = Len(t) /\ n >= 2 /\ t \in Seq(Nat \ {0}) /\ p = PaddedShape(t)
  BY ChainAssumption DEF Init, Arguments
<1>2. /\ p \in Seq(Nat \ {0}) /\ Len(p) = n
      /\ \A a \in 1 .. n : t[a] <= p[a]
      /\ \A a \in 1 .. n - 2 : p[a] = t[a]
      /\ p[n - 1] % TILE = 0 /\ p[n] % TILE = 0
  BY <1>1, PaddedShapeFacts
<1>3. Extent(p, 1, n) < -POISON
  <2>1. Numel(PaddedShape(t)) < -POISON
    BY DEF Init, Arguments
  <2> QED BY <1>1, <1>2, <2>1 DEF Numel
<1>4. /\ src_rows_ = Extent(p, 1, n - 1) /\ src_cols_ = p[n] /\ verbs = 0
      /\ L = Anchor(t, p)
  BY <1>1, <1>2 DEF Init, Last
<1>5. BindInv
  <2> HIDE DEF t, p
  <2>1. /\ t \in Seq(Nat \ {0}) /\ p \in Seq(Nat \ {0}) /\ Len(p) = Len(t) /\ Len(t) >= 2
        /\ \A a \in 1 .. Len(t) : t[a] <= p[a]
        /\ \A a \in 1 .. Len(t) - 2 : p[a] = t[a]
        /\ p[Len(t) - 1] % TILE = 0 /\ p[Len(t)] % TILE = 0
        /\ Extent(p, 1, Len(t)) < -POISON
        /\ src_rows_ = Extent(p, 1, Len(t) - 1) /\ src_cols_ = p[Len(t)]
    BY <1>1, <1>2, <1>3, <1>4
  <2> QED BY <2>1 DEF BindInv, t, p
<1> DEFINE x == IF DensePacked(t, p) THEN t ELSE p
           R == Extent(x, 1, n - 1)
           C == IF DensePacked(t, p) THEN t[n] ELSE p[n]
<1>6. L = [shape |-> <<R, C>>, stride |-> <<p[n], 1>>, base |-> 0]
  BY <1>1, <1>4 DEF Anchor
<1>7. R \in Nat /\ C \in Nat
  <2>1. x \in Seq(Nat \ {0}) /\ Len(x) = n
    BY <1>1, <1>2
  <2>2. C \in Nat
    BY <1>1, <1>2
  <2> HIDE DEF x
  <2>3. n - 1 \in Nat /\ 1 \in Nat \ {0} /\ \A k \in 1 .. n - 1 : x[k] \in Nat
    BY <1>1, <2>1
  <2> QED BY <2>2, <2>3, ExtentNat
<1>8. p[n] \in Word /\ 1 \in Word
  <2>1. n \in 1 .. n /\ n - 1 \in Nat /\ n - 1 <= n /\ (n - 1) + 1 = n
        /\ \A k \in 1 .. n : p[k] \in Nat \ {0}
    BY <1>1, <1>2
  <2>2. Extent(p, n, n) \in Nat \ {0} /\ Extent(p, n, n) <= Extent(p, 1, n)
    BY <2>1, ExtentSuffix
  <2>3. Extent(p, n, n) = Extent(p, n, n - 1) * p[n] /\ Extent(p, n, n - 1) = 1
    <3>1. n \in Nat \ {0} /\ n - 1 \in Nat /\ n >= n /\ n - 1 < n
          /\ (\A k \in n .. n : p[k] \in Int) /\ (\A k \in n .. n - 1 : p[k] \in Int)
      BY <2>1
    <3> QED BY <3>1, ExtentStep
  <2>4. p[n] \in Nat \ {0} /\ p[n] <= Extent(p, 1, n)
    BY <2>1, <2>2, <2>3
  <2>5. Extent(p, 1, n) \in Int
    <3>1. 0 \in Nat /\ 0 <= n /\ 0 + 1 = 1
      BY <1>1
    <3>2. Extent(p, 0 + 1, n) \in Nat \ {0}
      BY <2>1, <3>1, ExtentSuffix
    <3> QED BY <3>1, <3>2
  <2>6. p[n] < -POISON /\ 1 < -POISON
    BY <1>3, <2>4, <2>5, WordFacts, <1>2, TileFacts
  <2> QED BY <2>4, <2>6, WordFacts
<1>9. LayoutInv
  <2> HIDE DEF R, C, t, p
  <2>1. <<R, C>> \in Seq(Nat) /\ <<p[n], 1>> \in Seq(Word) /\ 0 \in Word
    BY <1>7, <1>8, WordFacts
  <2> QED BY <1>6, <2>1 DEF LayoutInv, Layouts
<1> QED BY <1>4, <1>5, <1>9, ChainAssumption DEF TypeInv

\* The rebuilt strides of a shape.
LEMMA RowmajorWords ==
  ASSUME NEW s, NEW n \in Nat, s \in Seq(Nat), Len(s) = n,
         \A a \in 1 .. n : Extent(s, a + 1, n) < -POISON
  PROVE  rowmajor(s) \in Seq(Word) /\ Len(rowmajor(s)) = n
<1>1. rowmajor(s) = [a \in 1 .. n |-> Extent(s, a + 1, n)]
  BY DEF rowmajor
<1>2. ASSUME NEW a \in 1 .. n PROVE Extent(s, a + 1, n) \in Word
  <2>1. a + 1 \in Nat \ {0} /\ \A k \in a + 1 .. n : s[k] \in Nat
    OBVIOUS
  <2>2. Extent(s, a + 1, n) \in Nat
    BY <2>1, ExtentNat
  <2> QED BY <2>2, WordFacts
<1>3. rowmajor(s) \in [1 .. n -> Word]
  BY <1>1, <1>2
<1> QED BY <1>3, ArraySeq

LEMMA PoisonedWords ==
  ASSUME NEW s \in Seq(Nat)
  PROVE  poisoned(s) \in Seq(Word) /\ Len(poisoned(s)) = Len(s)
<1>1. poisoned(s) \in [1 .. Len(s) -> Word] /\ Len(s) \in Nat
  BY WordFacts DEF poisoned
<1> QED BY <1>1, ArraySeq

LEMMA TypeReshape ==
  ASSUME Arguments, TypeInv, NEW ns \in ReshapeArgs(L.shape), reshape(ns)
  PROVE  LayoutInv'
<1>1. L \in Layouts /\ L.shape \in Seq(Nat) /\ L.base \in Word
  BY DEF TypeInv, LayoutInv, Layouts
<1>2. /\ ns \in Seq(Nat) /\ Len(ns) >= 1
      /\ \A a \in 1 .. Len(ns) : Extent(ns, a + 1, Len(ns)) < -POISON
  BY <1>1 DEF Arguments
<1> DEFINE st == IF Restrides(ns) THEN rowmajor(ns) ELSE poisoned(ns)
<1>3. L' = [L EXCEPT !.shape = ns, !.stride = st]
  BY DEF reshape, Fold
<1>4. st \in Seq(Word) /\ Len(st) = Len(ns)
  BY <1>2, RowmajorWords, PoisonedWords, Len(ns) \in Nat
<1> HIDE DEF st
<1>5. L' = [shape |-> ns, stride |-> st, base |-> L.base]
  BY <1>1, <1>3 DEF Layouts
<1> QED BY <1>1, <1>2, <1>4, <1>5 DEF LayoutInv, Layouts

LEMMA TypePermute ==
  ASSUME Arguments, TypeInv, NEW perm \in PermArgs(L.shape), permute(perm)
  PROVE  LayoutInv'
<1>1. /\ L \in Layouts /\ L.shape \in Seq(Nat) /\ L.base \in Word /\ L.stride \in Seq(Word)
      /\ Len(L.stride) = Len(L.shape) /\ Len(L.shape) >= 1
  BY DEF TypeInv, LayoutInv, Layouts
<1> DEFINE n == Len(L.shape)
           sh == [a \in DOMAIN perm |-> L.shape[perm[a]]]
           st == [a \in DOMAIN perm |-> L.stride[perm[a]]]
<1>2. perm \in [1 .. n -> 1 .. n] /\ n \in Nat
  <2>1. perm \in Orders(n)
    BY <1>1, Zenon DEF Arguments
  <2>2. n \in Nat
    BY <1>1
  <2> HIDE DEF n
  <2> QED BY <2>1, <2>2 DEF Orders
<1>3. L' = [L EXCEPT !.shape = sh, !.stride = st]
  BY DEF permute, Fold
<1>4. sh \in [1 .. n -> Nat] /\ st \in [1 .. n -> Word]
  BY <1>1, <1>2
<1> HIDE DEF sh, st
<1>5. sh \in Seq(Nat) /\ Len(sh) = n
  BY <1>2, <1>4, ArraySeq
<1>6. st \in Seq(Word) /\ Len(st) = n
  BY <1>2, <1>4, ArraySeq
<1>7. L' = [shape |-> sh, stride |-> st, base |-> L.base]
  BY <1>1, <1>3 DEF Layouts
<1> QED BY <1>1, <1>5, <1>6, <1>7 DEF LayoutInv, Layouts

\* An axis is split in a sequence one longer.
LEMMA SplitSeq ==
  ASSUME NEW S, NEW s \in Seq(S), NEW j \in 1 .. Len(s), NEW outer \in S, NEW inner \in S
  PROVE  Split(s, j, outer, inner) \in {x \in Seq(S) : Len(x) = Len(s) + 1}
<1> DEFINE N == Len(s) + 1
           x == Split(s, j, outer, inner)
<1>1. N \in Nat /\ j \in Nat
  OBVIOUS
<1>2. ASSUME NEW k \in 1 .. N
      PROVE  /\ k < j => s[k] \in S
             /\ ~(k < j) /\ k # j /\ k # j + 1 => s[k - 1] \in S
  OBVIOUS
<1>3. x \in [1 .. N -> S]
  BY <1>2 DEF Split
<1>4. x \in Seq(S) /\ Len(x) = N
  <2> HIDE DEF x, N
  <2> QED BY <1>1, <1>3, ArraySeq
<1> QED BY <1>4

LEMMA TypeFold ==
  ASSUME TypeInv, NEW axis \in Int, fold(axis)
  PROVE  LayoutInv'
<1>1. /\ L \in Layouts /\ L.shape \in Seq(Nat) /\ L.base \in Word /\ L.stride \in Seq(Word)
      /\ Len(L.stride) = Len(L.shape) /\ Len(L.shape) >= 1
  BY DEF TypeInv, LayoutInv, Layouts
<1>2. CASE FoldValid(axis)
  <2>1. axis \in 1 .. Len(L.shape) /\ L.shape[axis] \in Nat /\ L.stride[axis] \in Word
    BY <1>1, <1>2 DEF FoldValid
  <2>2. PICK o \in Nat, w \in Word :
          o = L.shape[axis] \div TILE /\ w = Wrap(L.stride[axis] * TILE)
    <3>1. L.shape[axis] \div TILE \in Nat
      BY <2>1, TileFacts
    <3>2. L.stride[axis] \in Int
      BY <2>1, WordFacts
    <3>3. L.stride[axis] * TILE \in Int
      BY <3>2, TileFacts
    <3> QED BY <3>1, <3>3, WrapWord
  <2>3. PICK sh, st : /\ sh = Split(L.shape, axis, o, TILE)
                      /\ st = Split(L.stride, axis, w, L.stride[axis])
    OBVIOUS
  <2>4. sh \in Seq(Nat) /\ Len(sh) = Len(L.shape) + 1
    <3>1. L.shape \in Seq(Nat) /\ axis \in 1 .. Len(L.shape) /\ TILE \in Nat
      BY <1>1, <2>1, TileFacts
    <3>2. Split(L.shape, axis, o, TILE) \in {x \in Seq(Nat) : Len(x) = Len(L.shape) + 1}
      BY <3>1, SplitSeq, Zenon
    <3> QED BY <2>3, <3>2
  <2>5. st \in Seq(Word) /\ Len(st) = Len(L.shape) + 1
    <3>1. L.stride \in Seq(Word) /\ axis \in 1 .. Len(L.stride) /\ L.stride[axis] \in Word
      BY <1>1, <2>1
    <3>2. Split(L.stride, axis, w, L.stride[axis]) \in {x \in Seq(Word) : Len(x) = Len(L.stride) + 1}
      BY <3>1, SplitSeq, Zenon
    <3> QED BY <1>1, <2>3, <3>2
  <2>6. L' = [L EXCEPT !.shape = sh, !.stride = st]
    BY <1>2, <2>2, <2>3 DEF fold, Fold
  <2>7. L' = [shape |-> sh, stride |-> st, base |-> L.base]
    BY <1>1, <2>6 DEF Layouts
  <2> QED BY <1>1, <2>4, <2>5, <2>7 DEF LayoutInv, Layouts
<1>3. CASE ~FoldValid(axis)
  <2>1. L' = [L EXCEPT !.stride = poisoned(L.shape)]
    BY <1>3 DEF fold, Fold
  <2>2. L' = [shape |-> L.shape, stride |-> poisoned(L.shape), base |-> L.base]
    BY <1>1, <2>1 DEF Layouts
  <2> QED BY <1>1, <2>2, PoisonedWords DEF LayoutInv, Layouts
<1> QED BY <1>2, <1>3

\* The parts of a slice.
SliceBad(r) == {a \in Steps(r) : InvalidRange(r, a)}
SliceDone(r) == {a \in Steps(r) : \A b \in SliceBad(r) : a < b}
Kept(g) == (g.end - g.begin + g.step - 1) \div g.step
SliceShape(r) ==
  [a \in DOMAIN L.shape |-> IF a \in SliceDone(r) THEN Kept(r[a]) ELSE L.shape[a]]
SliceBegin(r) == [a \in DOMAIN L.shape |-> IF a \in SliceDone(r) THEN r[a].begin ELSE 0]
SliceStep(r) == [a \in DOMAIN L.shape |-> IF a \in SliceDone(r) THEN r[a].step ELSE 1]
SliceOffset(r) ==
  Total([a \in DOMAIN SliceShape(r) |-> SliceBegin(r)[a] * L.stride[a]], Len(SliceShape(r)))

LEMMA SliceParts ==
  ASSUME NEW r, slice(r)
  PROVE  /\ L' = [shape |-> SliceShape(r),
                  stride |-> IF SliceBad(r) = {}
                             THEN [a \in DOMAIN SliceShape(r) |->
                                     Wrap(L.stride[a] * SliceStep(r)[a])]
                             ELSE poisoned(SliceShape(r)),
                  base |-> Wrap(L.base + SliceOffset(r))]
         /\ array' = IF array = Undefined THEN Undefined
                     ELSE IF SliceBad(r) = {}
                          THEN Sliced(array, SliceShape(r), SliceBegin(r), SliceStep(r))
                          ELSE Undefined
         /\ verbs < MaxVerbs /\ verbs' = verbs + 1
         /\ UNCHANGED <<shape_, padded_shape_, src_rows_, src_cols_>>
BY DEF slice, Fold, Verb, SliceBad, SliceDone, Kept, SliceShape, SliceBegin, SliceStep, SliceOffset

LEMMA SliceFacts ==
  ASSUME NEW n \in Nat, LayoutInv, n = Len(L.shape), NEW r \in Seq(Ranges)
  PROVE  \A a \in 1 .. n :
           /\ SliceShape(r)[a] \in Nat /\ SliceBegin(r)[a] \in Nat /\ SliceStep(r)[a] \in Nat \ {0}
           /\ SliceShape(r)[a] # 0 =>
                /\ SliceBegin(r)[a] + (SliceShape(r)[a] - 1) * SliceStep(r)[a] < L.shape[a]
                /\ SliceShape(r)[a] <= L.shape[a]
           /\ L.shape[a] = 0 => SliceShape(r)[a] = 0
<1>1. L.shape \in Seq(Nat)
  BY DEF LayoutInv, Layouts
<1> SUFFICES ASSUME NEW a \in 1 .. n
    PROVE  /\ SliceShape(r)[a] \in Nat /\ SliceBegin(r)[a] \in Nat /\ SliceStep(r)[a] \in Nat \ {0}
           /\ SliceShape(r)[a] # 0 =>
                /\ SliceBegin(r)[a] + (SliceShape(r)[a] - 1) * SliceStep(r)[a] < L.shape[a]
                /\ SliceShape(r)[a] <= L.shape[a]
           /\ L.shape[a] = 0 => SliceShape(r)[a] = 0
  OBVIOUS
<1>2. a \in DOMAIN L.shape /\ L.shape[a] \in Nat
  BY <1>1
<1>3. CASE a \notin SliceDone(r)
  <2>1. SliceShape(r)[a] = L.shape[a] /\ SliceBegin(r)[a] = 0 /\ SliceStep(r)[a] = 1
    BY <1>2, <1>3 DEF SliceShape, SliceBegin, SliceStep
  <2> QED BY <1>2, <2>1
<1>4. CASE a \in SliceDone(r)
  <2>1. SliceShape(r)[a] = Kept(r[a]) /\ SliceBegin(r)[a] = r[a].begin /\ SliceStep(r)[a] = r[a].step
    BY <1>2, <1>4 DEF SliceShape, SliceBegin, SliceStep
  <2>2. a \in DOMAIN r /\ ~InvalidRange(r, a)
    <3>1. a \in Steps(r) /\ \A b \in SliceBad(r) : a < b
      BY <1>4 DEF SliceDone
    <3>2. a \notin SliceBad(r)
      BY <3>1
    <3> QED BY <3>1, <3>2 DEF SliceBad, Steps
  <2> DEFINE b == r[a].begin
             e == r[a].end
             s == r[a].step
  <2>3. b \in Int /\ e \in Int /\ s \in Int
    <3>1. r[a] \in Ranges
      BY <2>2
    <3> QED BY <3>1 DEF Ranges
  <2>4. s > 0 /\ b >= 0 /\ e <= L.shape[a] /\ b <= e
    BY <2>2, <2>3, <1>2 DEF InvalidRange
  <2> DEFINE y == e - b + s - 1
             q == y \div s
             m == y % s
  <2>5. Kept(r[a]) = q
    BY DEF Kept
  <2>6. y = e - b + s - 1
    OBVIOUS
  <2> HIDE DEF b, e, s, y
  <2>7. s \in Nat \ {0} /\ y \in Int /\ b \in Nat
    BY <2>3, <2>4, <2>6
  <2>8. q \in Int /\ m \in Int /\ y = (q * s) + m /\ 0 <= m /\ m < s
    BY <2>7, DivModFloor
  <2> HIDE DEF q, m
  <2>9. q >= 0
    <3> SUFFICES ASSUME q < 0 PROVE FALSE
      BY <2>8
    <3>1. (-1 - q) * s >= 0
      BY <2>7, <2>8, ProductNat, -1 - q \in Int, -1 - q >= 0
    <3>2. (-1 - q) * s = -s - q * s
      BY <2>7, <2>8
    <3> QED BY <2>3, <2>4, <2>6, <2>8, <3>1, <3>2
  <2>10. b + (q - 1) * s < L.shape[a] + (IF q = 0 THEN s ELSE 0)
    <3>1. (q - 1) * s = q * s - s
      BY <2>7, <2>8
    <3> QED BY <1>2, <2>3, <2>4, <2>6, <2>7, <2>8, <3>1
  <2>11. q # 0 => q <= L.shape[a]
    <3> SUFFICES ASSUME q # 0 PROVE q <= L.shape[a]
      OBVIOUS
    <3>1. (q - 1) * (s - 1) >= 0
      BY <2>7, <2>8, <2>9, ProductNat, q - 1 \in Int, q - 1 >= 0, s - 1 \in Int, s - 1 >= 0
    <3>2. (q - 1) * (s - 1) = q * s - q - s + 1
      BY <2>7, <2>8
    <3>3. (q - 1) * s = q * s - s
      BY <2>7, <2>8
    <3> QED BY <1>2, <2>7, <2>8, <2>10, <3>1, <3>2, <3>3
  <2>12. L.shape[a] = 0 => q = 0
    BY <2>8, <2>9, <2>11
  <2>13. /\ SliceShape(r)[a] = q /\ SliceBegin(r)[a] = b /\ SliceStep(r)[a] = s
    BY <2>1, <2>5 DEF b, s
  <2>14. q \in Nat
    BY <2>8, <2>9
  <2>15. q # 0 => b + (q - 1) * s < L.shape[a]
    BY <1>2, <2>7, <2>8, <2>10
  <2> QED BY <2>7, <2>11, <2>12, <2>13, <2>14, <2>15
<1> QED BY <1>3, <1>4

LEMMA RemoveSeq ==
  ASSUME NEW S, NEW s \in Seq(S), NEW d \in 1 .. Len(s)
  PROVE  RemoveAt(s, d) \in {x \in Seq(S) : Len(x) = Len(s) - 1}
BY RemoveFacts

LEMMA RemoveAxis ==
  ASSUME NEW S, NEW s \in Seq(S), NEW d \in 1 .. Len(s)
  PROVE  \A k \in 1 .. Len(s) - 1 : RemoveAt(s, d)[k] = IF k < d THEN s[k] ELSE s[k + 1]
BY RemoveFacts

LEMMA TypeSlice ==
  ASSUME Arguments, TypeInv, NEW r \in SliceArgs(L.shape), slice(r)
  PROVE  LayoutInv'
<1>1. /\ L \in Layouts /\ L.shape \in Seq(Nat) /\ L.base \in Word /\ L.stride \in Seq(Word)
      /\ Len(L.stride) = Len(L.shape) /\ Len(L.shape) >= 1
  BY DEF TypeInv, LayoutInv, Layouts
<1>2. PICK n \in Nat : n = Len(L.shape) /\ n >= 1 /\ DOMAIN L.shape = 1 .. n
  BY <1>1
<1>3. r \in Seq(Ranges)
  BY <1>1 DEF Arguments
<1>4. \A a \in 1 .. n : SliceShape(r)[a] \in Nat /\ SliceBegin(r)[a] \in Nat /\ SliceStep(r)[a] \in Nat
  BY <1>2, <1>3, SliceFacts DEF TypeInv
<1>5. \A a \in 1 .. n : L.stride[a] \in Word /\ L.stride[a] \in Int
  <2>1. \A a \in 1 .. n : L.stride[a] \in Word
    BY <1>1, <1>2
  <2> QED BY <2>1, WordFacts
<1> DEFINE sh == SliceShape(r)
           st == IF SliceBad(r) = {}
                 THEN [a \in DOMAIN sh |-> Wrap(L.stride[a] * SliceStep(r)[a])]
                 ELSE poisoned(sh)
<1>6. sh \in [1 .. n -> Nat]
  BY <1>2, <1>4 DEF SliceShape
<1>7. sh \in Seq(Nat) /\ Len(sh) = n /\ DOMAIN sh = 1 .. n
  <2> HIDE DEF sh
  <2> QED BY <1>6, ArraySeq
<1>8. st \in Seq(Word) /\ Len(st) = n
  <2> HIDE DEF sh
  <2>1. ASSUME NEW a \in 1 .. n PROVE Wrap(L.stride[a] * SliceStep(r)[a]) \in Word
    <3>1. L.stride[a] * SliceStep(r)[a] \in Int
      BY <1>4, <1>5
    <3> QED BY <3>1, WrapWord
  <2> DEFINE g == [a \in 1 .. n |-> Wrap(L.stride[a] * SliceStep(r)[a])]
  <2>2. g \in [1 .. n -> Word]
    BY <2>1
  <2>3. st = IF SliceBad(r) = {} THEN g ELSE poisoned(sh)
    BY <1>7
  <2> HIDE DEF g, st
  <2>4. g \in Seq(Word) /\ Len(g) = n
    BY <2>2, ArraySeq
  <2>5. poisoned(sh) \in Seq(Word) /\ Len(poisoned(sh)) = n
    BY <1>7, PoisonedWords
  <2> QED BY <2>3, <2>4, <2>5
<1>9. Wrap(L.base + SliceOffset(r)) \in Word
  <2> DEFINE f == [a \in DOMAIN sh |-> SliceBegin(r)[a] * L.stride[a]]
  <2>1. \A a \in 1 .. n : f[a] \in Int
    <3> HIDE DEF sh
    <3> QED BY <1>4, <1>5, <1>7
  <2>2. SliceOffset(r) = Total(f, n)
    BY <1>7 DEF SliceOffset
  <2> HIDE DEF f
  <2>3. Total(f, n) \in Int
    BY <2>1, TotalStep
  <2>4. L.base \in Int
    BY <1>1, WordFacts
  <2>5. L.base + SliceOffset(r) \in Int
    BY <2>2, <2>3, <2>4
  <2> QED BY <2>5, WrapWord
<1>10. L' = [shape |-> sh, stride |-> st, base |-> Wrap(L.base + SliceOffset(r))]
  BY SliceParts
<1> HIDE DEF sh, st
<1> QED BY <1>2, <1>7, <1>8, <1>9, <1>10 DEF LayoutInv, Layouts

LEMMA TypeSqueeze ==
  ASSUME TypeInv, NEW dim \in Int, squeeze_dim(dim)
  PROVE  BindInv' /\ LayoutInv'
<1> DEFINE t == shape_
           p == padded_shape_
           s1 == RemoveAt(t, dim)
           p1 == RemoveAt(p, dim)
<1>1. PICK n \in Nat \ {0} :
        /\ n + 1 = Len(t) /\ n >= 2 /\ dim \in 1 .. n - 1 /\ t[dim] = 1
        /\ t \in Seq(Nat \ {0}) /\ p \in Seq(Nat \ {0}) /\ Len(p) = n + 1
        /\ \A a \in 1 .. n + 1 : t[a] <= p[a]
        /\ \A a \in 1 .. n - 1 : p[a] = t[a]
        /\ p[n] % TILE = 0 /\ p[n + 1] % TILE = 0
        /\ Extent(p, 1, n + 1) < -POISON
  <2>1. /\ t \in Seq(Nat \ {0}) /\ p \in Seq(Nat \ {0}) /\ Len(p) = Len(t)
        /\ \A a \in 1 .. Len(t) : t[a] <= p[a]
        /\ \A a \in 1 .. Len(t) - 2 : p[a] = t[a]
        /\ p[Len(t) - 1] % TILE = 0 /\ p[Len(t)] % TILE = 0
        /\ Extent(p, 1, Len(t)) < -POISON
    BY DEF TypeInv, BindInv
  <2>2. Len(t) >= 3 /\ dim \in 1 .. Len(t) - 2 /\ t[dim] = 1
    BY DEF squeeze_dim
  <2> HIDE DEF t, p
  <2>3. PICK n \in Nat \ {0} : n = Len(t) - 1 /\ n + 1 = Len(t) /\ n - 1 = Len(t) - 2 /\ n >= 2
    <3>1. Len(t) \in Nat
      BY <2>1
    <3> QED BY <2>2, <3>1
  <2> QED BY <2>1, <2>2, <2>3
<1>2. /\ shape_' = s1 /\ padded_shape_' = p1
      /\ L' = [shape |-> s1, stride |-> rowmajor(p1), base |-> 0]
      /\ src_rows_' = Extent(p1, 1, n - 1) /\ src_cols_' = Last(p1)
  <2>1. (n + 1) - 2 = n - 1
    OBVIOUS
  <2> QED BY <1>1, <2>1 DEF squeeze_dim
<1> HIDE DEF t, p
<1>3. /\ s1 \in Seq(Nat \ {0}) /\ Len(s1) = n
      /\ \A k \in 1 .. n : s1[k] = IF k < dim THEN t[k] ELSE t[k + 1]
  <2>1. t \in Seq(Nat \ {0}) /\ dim \in 1 .. Len(t)
    BY <1>1
  <2>2. s1 \in {x \in Seq(Nat \ {0}) : Len(x) = Len(t) - 1}
    BY <2>1, RemoveSeq, Zenon
  <2>3. \A k \in 1 .. Len(t) - 1 : s1[k] = IF k < dim THEN t[k] ELSE t[k + 1]
    BY <2>1, RemoveAxis, Zenon
  <2> HIDE DEF s1
  <2>4. Len(t) - 1 = n
    BY <1>1
  <2> QED BY <2>2, <2>3, <2>4
<1>4. /\ p1 \in Seq(Nat \ {0}) /\ Len(p1) = n
      /\ \A k \in 1 .. n : p1[k] = IF k < dim THEN p[k] ELSE p[k + 1]
  <2>1. p \in Seq(Nat \ {0}) /\ dim \in 1 .. Len(p)
    BY <1>1
  <2>2. p1 \in {x \in Seq(Nat \ {0}) : Len(x) = Len(p) - 1}
    BY <2>1, RemoveSeq, Zenon
  <2>3. \A k \in 1 .. Len(p) - 1 : p1[k] = IF k < dim THEN p[k] ELSE p[k + 1]
    BY <2>1, RemoveAxis, Zenon
  <2> HIDE DEF p1
  <2>4. Len(p) - 1 = n
    BY <1>1
  <2> QED BY <2>2, <2>3, <2>4
<1> HIDE DEF s1, p1
<1>5. Extent(p1, 1, n) = Extent(p, 1, n + 1)
  <2>1. /\ dim \in 1 .. n /\ 1 \in 1 .. dim
        /\ \A k \in 1 .. n + 1 : p[k] \in Int
        /\ \A k \in 1 .. n : k < dim => p1[k] = p[k]
        /\ \A k \in 1 .. n : k > dim => p1[k] = p[k + 1]
    <3>1. dim \in 1 .. n /\ 1 \in 1 .. dim /\ \A k \in 1 .. n + 1 : p[k] \in Int
      BY <1>1
    <3>2. \A k \in 1 .. n : /\ k < dim => p1[k] = p[k]
                            /\ k > dim => p1[k] = p[k + 1]
      BY <1>4, <3>1
    <3> QED BY <3>1, <3>2
  <2>2. p[dim] = 1 /\ p[dim + 1] \in Int /\ p1[dim] = p[dim + 1]
    BY <1>1, <1>4
  <2>3. p1[dim] = p[dim] * p[dim + 1]
    BY <2>2
  <2>4. ProductMerged(p1, p, n, dim) /\ n \in Nat
    BY <1>1, <2>1, <2>3 DEF ProductMerged
  <2>5. \A a \in 1 .. dim : Extent(p, a, n + 1) = Extent(p1, a, n)
    BY <2>1, <2>4, ExtentMerged
  <2> QED BY <2>1, <2>5
<1>6. /\ \A a \in 1 .. n : s1[a] <= p1[a]
      /\ \A a \in 1 .. n - 2 : p1[a] = s1[a]
      /\ p1[n - 1] % TILE = 0 /\ p1[n] % TILE = 0
  <2>1. ASSUME NEW a \in 1 .. n
        PROVE  s1[a] <= p1[a] /\ (a <= n - 2 => p1[a] = s1[a])
    <3>1. a \in 1 .. n + 1 /\ a + 1 \in 1 .. n + 1 /\ (a <= n - 2 => a \in 1 .. n - 1 /\ a + 1 \in 1 .. n - 1)
      OBVIOUS
    <3> QED BY <1>1, <1>3, <1>4, <3>1
  <2>2. n - 1 \in 1 .. n /\ n \in 1 .. n /\ ~(n - 1 < dim) /\ ~(n < dim) /\ (n - 1) + 1 = n
    BY <1>1
  <2>3. p1[n - 1] = p[n] /\ p1[n] = p[n + 1]
    BY <1>4, <2>2
  <2> QED BY <1>1, <2>1, <2>3
<1>7. BindInv'
  <2>1. Last(p1) = p1[n]
    BY <1>4 DEF Last
  <2> QED BY <1>1, <1>2, <1>3, <1>4, <1>5, <1>6, <2>1 DEF BindInv
<1>8. LayoutInv'
  <2>1. \A k \in 1 .. n : p1[k] \in Nat \ {0}
    BY <1>4
  <2>2. ASSUME NEW a \in 1 .. n PROVE Extent(p1, a + 1, n) < -POISON
    <3>1. Extent(p1, a + 1, n) \in Nat \ {0} /\ Extent(p1, a + 1, n) <= Extent(p1, 1, n)
      BY <2>1, ExtentSuffix
    <3>2. Extent(p1, 0 + 1, n) \in Nat \ {0}
      BY <2>1, ExtentSuffix, 0 <= n, 0 \in Nat
    <3> QED BY <1>1, <1>5, <3>1, <3>2, WordFacts
  <2>3. p1 \in Seq(Nat) /\ s1 \in Seq(Nat)
    BY <1>3, <1>4
  <2>4. rowmajor(p1) \in Seq(Word) /\ Len(rowmajor(p1)) = n
    BY <1>4, <2>2, <2>3, RowmajorWords
  <2> DEFINE st == rowmajor(p1)
  <2>5. st \in Seq(Word) /\ Len(st) = n /\ L' = [shape |-> s1, stride |-> st, base |-> 0]
    BY <1>2, <2>4
  <2>6. s1 \in Seq(Nat) /\ Len(s1) = n /\ n >= 1 /\ 0 \in Word
    BY <1>3, <2>3, WordFacts
  <2> HIDE DEF st
  <2> QED BY <2>5, <2>6 DEF LayoutInv, Layouts
<1> QED BY <1>7, <1>8

LEMMA BindKept ==
  ASSUME BindInv, UNCHANGED <<shape_, padded_shape_, src_rows_, src_cols_>>
  PROVE  BindInv'
BY DEF BindInv

LEMMA TypeStep == Arguments /\ TypeInv /\ [Next]_vars => TypeInv'
<1> SUFFICES ASSUME Arguments, TypeInv, [Next]_vars PROVE TypeInv'
  OBVIOUS
<1>0. MaxVerbs \in Nat /\ verbs \in 0 .. MaxVerbs /\ BindInv
  BY ChainAssumption DEF TypeInv
<1>1. ASSUME Verb PROVE (verbs \in 0 .. MaxVerbs)'
  BY <1>0, <1>1 DEF Verb
<1>2. ASSUME NEW ns \in ReshapeArgs(L.shape), reshape(ns) PROVE TypeInv'
  <2>1. Verb /\ UNCHANGED <<shape_, padded_shape_, src_rows_, src_cols_>>
    BY <1>2 DEF reshape, Fold
  <2> QED BY <1>0, <1>1, <1>2, <2>1, BindKept, TypeReshape DEF TypeInv
<1>3. ASSUME NEW r \in SliceArgs(L.shape), slice(r) PROVE TypeInv'
  <2>1. Verb /\ UNCHANGED <<shape_, padded_shape_, src_rows_, src_cols_>>
    BY <1>3 DEF slice, Fold
  <2> QED BY <1>0, <1>1, <1>3, <2>1, BindKept, TypeSlice DEF TypeInv
<1>4. ASSUME NEW perm \in PermArgs(L.shape), permute(perm) PROVE TypeInv'
  <2>1. Verb /\ UNCHANGED <<shape_, padded_shape_, src_rows_, src_cols_>>
    BY <1>4 DEF permute, Fold
  <2> QED BY <1>0, <1>1, <1>4, <2>1, BindKept, TypePermute DEF TypeInv
<1>5. ASSUME NEW axis \in 0 .. Len(L.shape), fold(axis) PROVE TypeInv'
  <2>1. Verb /\ UNCHANGED <<shape_, padded_shape_, src_rows_, src_cols_>>
    BY <1>5 DEF fold, Fold
  <2>2. axis \in Int
    OBVIOUS
  <2> QED BY <1>0, <1>1, <1>5, <2>1, <2>2, BindKept, TypeFold DEF TypeInv
<1>6. ASSUME NEW dim \in DOMAIN shape_, squeeze_dim(dim) PROVE TypeInv'
  <2>1. Verb
    BY <1>6 DEF squeeze_dim
  <2>2. dim \in Int
    BY <1>0 DEF BindInv
  <2> QED BY <1>0, <1>1, <1>6, <2>1, <2>2, TypeSqueeze DEF TypeInv
<1>7. ASSUME UNCHANGED vars PROVE TypeInv'
  BY <1>7 DEF TypeInv, BindInv, LayoutInv, Layouts, vars
<1> QED BY <1>2, <1>3, <1>4, <1>5, <1>6, <1>7 DEF Next

\* Layouts stay well formed, 64-bit and bound to a tile-padded source, however
\* the strides and the base wrap.
THEOREM TypesHold == Arguments /\ Spec => []TypeOK
<1> SUFFICES ASSUME Arguments PROVE Spec => []TypeOK
  OBVIOUS
<1>1. Init => TypeInv
  BY TypeInit
<1>2. TypeInv /\ [Next]_vars => TypeInv'
  BY TypeStep
<1>3. TypeInv => TypeOK
  BY TypeInvTypes
<1> QED BY <1>1, <1>2, <1>3, PTL DEF Spec

\* A product of positive extents is positive.
LEMMA ExtentPositive ==
  ASSUME NEW s, NEW a \in Nat \ {0}, NEW b \in Nat, \A k \in a .. b : s[k] \in Nat \ {0}
  PROVE  Extent(s, a, b) \in Nat \ {0}
<1> DEFINE S == {n \in Nat : n <= b => Extent(s, a, n) \in Nat \ {0}}
<1>1. 0 \in S
  <2>1. \A k \in a .. 0 : s[k] \in Int
    OBVIOUS
  <2>2. Extent(s, a, 0) = 1
    BY <2>1, ExtentStep, 0 \in Nat, 0 < a
  <2> QED BY <2>2
<1>2. ASSUME NEW n \in Nat, n \in S PROVE n + 1 \in S
  <2> SUFFICES ASSUME n + 1 <= b PROVE Extent(s, a, n + 1) \in Nat \ {0}
    OBVIOUS
  <2>1. n + 1 \in Nat /\ (n + 1) - 1 = n /\ \A k \in a .. n + 1 : s[k] \in Int
    OBVIOUS
  <2>2. Extent(s, a, n) \in Nat \ {0}
    BY <1>2
  <2>3. CASE n + 1 < a
    <3>1. Extent(s, a, n + 1) = 1
      BY <2>1, <2>3, ExtentStep
    <3> QED BY <3>1
  <2>4. CASE n + 1 >= a
    <3>1. Extent(s, a, n + 1) = Extent(s, a, n) * s[n + 1]
      BY <2>1, <2>4, ExtentStep
    <3>2. s[n + 1] \in Nat \ {0}
      BY <2>4
    <3>3. \A e, x \in Nat \ {0} : e * x \in Nat \ {0}
      OBVIOUS
    <3> QED BY <2>2, <3>1, <3>2, <3>3
  <2> QED BY <2>3, <2>4
<1> HIDE DEF S
<1>3. b \in S
  BY <1>1, <1>2, Induction
<1> QED BY <1>3 DEF S

-----------------------------------------------------------------------------
(***************************************************************************)
(* Face-rows.                                                              *)
(***************************************************************************)
RowTerm(oR) ==
  [a \in 1 .. lane - 1 |->
     ((oR \div Extent(L.shape, a + 1, lane - 1)) % L.shape[a]) * L.stride[a]]

LEMMA LaneFacts ==
  ASSUME LayoutInv
  PROVE  /\ lane \in Nat \ {0} /\ lane - 1 \in Nat
         /\ Co \in Nat /\ Ro \in Nat /\ L.base \in Int
         /\ \A a \in 1 .. lane : L.shape[a] \in Nat /\ L.stride[a] \in Int
         /\ Ro # 0 => \A a \in 1 .. lane - 1 : L.shape[a] # 0
<1>1. /\ L.shape \in Seq(Nat) /\ L.stride \in Seq(Word) /\ Len(L.stride) = Len(L.shape)
      /\ Len(L.shape) >= 1 /\ L.base \in Word
  BY DEF LayoutInv, Layouts
<1>2. lane \in Nat \ {0} /\ lane - 1 \in Nat /\ lane = Len(L.shape) /\ 1 \in Nat \ {0}
  BY <1>1 DEF lane
<1>3. \A a \in 1 .. lane : L.shape[a] \in Nat /\ L.stride[a] \in Word
  BY <1>1, <1>2
<1>4. \A k \in 1 .. lane - 1 : L.shape[k] \in Nat
  BY <1>2, <1>3
<1>5. /\ Extent(L.shape, 1, lane - 1) \in Nat
      /\ (\E k \in 1 .. lane - 1 : L.shape[k] = 0) => Extent(L.shape, 1, lane - 1) = 0
  BY <1>2, <1>4, ExtentNat
<1>6. Co \in Nat
  BY <1>2, <1>3 DEF Co
<1> QED BY <1>1, <1>2, <1>3, <1>5, <1>6, WordFacts DEF Ro

LEMMA RowTerms ==
  ASSUME LayoutInv, Ro # 0, NEW oR \in Nat
  PROVE  \A a \in 1 .. lane - 1 :
           /\ (oR \div Extent(L.shape, a + 1, lane - 1)) % L.shape[a] \in Nat
           /\ oR = 0 => (oR \div Extent(L.shape, a + 1, lane - 1)) % L.shape[a] = 0
           /\ RowTerm(oR)[a] \in Int
<1> SUFFICES ASSUME NEW a \in 1 .. lane - 1
             PROVE  /\ (oR \div Extent(L.shape, a + 1, lane - 1)) % L.shape[a] \in Nat
                    /\ oR = 0 => (oR \div Extent(L.shape, a + 1, lane - 1)) % L.shape[a] = 0
                    /\ RowTerm(oR)[a] \in Int
  OBVIOUS
<1>1. /\ L.shape[a] \in Nat \ {0} /\ L.stride[a] \in Int /\ a + 1 \in Nat \ {0} /\ lane - 1 \in Nat
      /\ \A k \in a + 1 .. lane - 1 : L.shape[k] \in Nat /\ L.shape[k] # 0
  <2>1. a \in 1 .. lane /\ \A k \in a + 1 .. lane - 1 : k \in 1 .. lane - 1 /\ k \in 1 .. lane
    BY LaneFacts
  <2> QED BY <2>1, LaneFacts
<1> DEFINE e == Extent(L.shape, a + 1, lane - 1)
           d == (oR \div e) % L.shape[a]
<1>2. e \in Nat \ {0}
  <2>1. \A k \in a + 1 .. lane - 1 : L.shape[k] \in Nat \ {0}
    BY <1>1
  <2>2. a + 1 \in Nat \ {0} /\ lane - 1 \in Nat
    BY <1>1
  <2> QED BY <2>1, <2>2, ExtentPositive, Zenon
<1> HIDE DEF e
<1>3. oR \div e \in Nat /\ (oR = 0 => oR \div e = 0)
  BY <1>2
<1>4. d \in Nat /\ (oR = 0 => d = 0)
  BY <1>1, <1>3
<1>5. RowTerm(oR)[a] = d * L.stride[a]
  BY DEF RowTerm, e
<1> HIDE DEF d
<1>6. RowTerm(oR)[a] \in Int
  BY <1>1, <1>4, <1>5
<1> QED BY <1>4, <1>6 DEF d, e

\* The rows of a view that is not empty start at elements, the first at base.
LEMMA RowBase ==
  ASSUME LayoutInv, Ro # 0, NEW oR \in Nat
  PROVE  /\ row_base(oR) \in Int
         /\ oR = 0 => row_base(oR) = L.base
<1>1. row_base(oR) = L.base + Total(RowTerm(oR), lane - 1)
  BY DEF row_base, RowTerm
<1>2. L.base \in Int /\ lane - 1 \in Nat
  BY LaneFacts
<1>3. \A a \in 1 .. lane - 1 : RowTerm(oR)[a] \in Int
  BY RowTerms
<1>4. Total(RowTerm(oR), lane - 1) \in Int
  BY <1>2, <1>3, TotalStep
<1>5. ASSUME oR = 0 PROVE Total(RowTerm(oR), lane - 1) = 0
  <2>1. ASSUME NEW a \in 1 .. lane - 1 PROVE RowTerm(oR)[a] = 0
    <3>1. (oR \div Extent(L.shape, a + 1, lane - 1)) % L.shape[a] = 0 /\ L.stride[a] \in Int
      <4>1. a \in 1 .. lane
        BY LaneFacts
      <4> QED BY <1>5, <4>1, RowTerms, LaneFacts
    <3> DEFINE d == (oR \div Extent(L.shape, a + 1, lane - 1)) % L.shape[a]
    <3>2. RowTerm(oR)[a] = d * L.stride[a] /\ d = 0
      BY <3>1 DEF RowTerm
    <3> HIDE DEF d
    <3> QED BY <3>1, <3>2
  <2> QED BY <1>2, <2>1, TotalZero
<1> QED BY <1>1, <1>2, <1>4, <1>5

LEMMA MultipleSum ==
  ASSUME NEW x \in Int, NEW y \in Int, NEW b \in Nat \ {0}, x % b = 0, y % b = 0
  PROVE  (x + y) % b = 0
<1> DEFINE p == x \div b
           q == y \div b
<1>1. p \in Int /\ q \in Int /\ x = p * b + 0 /\ y = q * b + 0
  BY DivModFloor
<1> HIDE DEF p, q
<1>2. x + y = (p + q) * b + 0 /\ p + q \in Int /\ x + y \in Int
  BY <1>1
<1> QED BY <1>2, DivModUnique, 0 \in Int

LEMMA RowAligned ==
  ASSUME LayoutInv, Ro # 0, NEW oR \in Nat, FaceAligned
  PROVE  row_base(oR) % FACE = 0
<1>1. row_base(oR) = L.base + Total(RowTerm(oR), lane - 1)
  BY DEF row_base, RowTerm
<1>2. L.base \in Int /\ lane - 1 \in Nat /\ FACE \in Nat \ {0} /\ L.base % FACE = 0
  BY LaneFacts, TileFacts DEF FaceAligned
<1>3. \A a \in 1 .. lane - 1 : RowTerm(oR)[a] \in Int
  BY RowTerms
<1>4. ASSUME NEW a \in 1 .. lane - 1 PROVE RowTerm(oR)[a] % FACE = 0
  <2> DEFINE d == (oR \div Extent(L.shape, a + 1, lane - 1)) % L.shape[a]
  <2>1. d \in Nat
    BY RowTerms
  <2>2. RowTerm(oR)[a] = d * L.stride[a] /\ L.stride[a] % FACE = 0
    BY DEF RowTerm, FaceAligned
  <2>3. L.stride[a] \in Int
    <3>1. a \in 1 .. lane
      BY LaneFacts
    <3> QED BY <3>1, LaneFacts
  <2> HIDE DEF d
  <2>4. d \in Int /\ FACE \in Nat \ {0}
    BY <1>2, <2>1
  <2>5. (d * L.stride[a]) % FACE = 0
    BY <2>2, <2>3, <2>4, MultipleProduct, Zenon
  <2> QED BY <2>2, <2>5
<1>5. Total(RowTerm(oR), lane - 1) \in Int
  BY <1>2, <1>3, TotalStep
<1>6. Total(RowTerm(oR), lane - 1) % FACE = 0
  BY <1>2, <1>3, <1>4, TotalDivides
<1>7. FACE \in Nat \ {0} /\ L.base \in Int /\ L.base % FACE = 0
  BY <1>2
<1>8. (L.base + Total(RowTerm(oR), lane - 1)) % FACE = 0
  BY <1>5, <1>6, <1>7, MultipleSum, Zenon
<1> QED BY <1>1, <1>8

\* On the device's one base and one row step the rows are where they were.
LEMMA RowLinear ==
  ASSUME LayoutInv, Affine, NEW oR \in 0 .. Ro - 1
  PROVE  S_row \in Int /\ row_base(oR) = L.base + oR * S_row
<1>1. Ro \in Nat /\ Ro # 0 /\ oR \in Nat /\ L.base \in Int
  BY LaneFacts
<1>2. row_base(0) = L.base
  BY <1>1, RowBase, 0 \in Nat
<1>3. row_base(1) \in Int
  BY <1>1, RowBase, 1 \in Nat
<1>4. S_row \in Int
  BY <1>1, <1>2, <1>3 DEF S_row
<1>5. CASE oR = 0
  BY <1>1, <1>2, <1>4, <1>5
<1>6. CASE oR # 0
  <2>1. oR \in 1 .. Ro - 1
    BY <1>1, <1>6
  <2> QED BY <1>4, <2>1 DEF Affine
<1> QED BY <1>5, <1>6

LEMMA FaceRows == TypeInv => FaceRowsWhole
<1> SUFFICES ASSUME TypeInv, ok, NEW f \in LiveFaces
             PROVE  LET k0 == L.base + f[1] * S_row + f[2]
                    IN  /\ k0 >= 0 /\ k0 % FACE = 0
                        /\ (k0 + FACE - 1) \div src_cols_ = k0 \div src_cols_
                        /\ k0 \div src_cols_ < src_rows_
  BY DEF FaceRowsWhole
<1>0. LayoutInv /\ BindInv /\ FaceAligned /\ Affine /\ InSource
  BY DEF TypeInv, ok
<1>1. f[1] \in 0 .. Ro - 1 /\ f[2] \in 0 .. Co - 1 /\ f[2] % FACE = 0
  BY DEF LiveFaces
<1>2. Ro \in Nat /\ Ro # 0 /\ Co \in Nat /\ L.base \in Int /\ f[1] \in Nat /\ f[2] \in Nat
  BY <1>0, <1>1, LaneFacts
<1> DEFINE k == row_base(f[1]) + f[2]
           C == src_cols_
<1>3. row_base(f[1]) = L.base + f[1] * S_row /\ S_row \in Int /\ row_base(f[1]) \in Int
  BY <1>0, <1>1, <1>2, RowLinear, RowBase
<1>4. L.base + f[1] * S_row + f[2] = k
  BY <1>3
<1>5. k >= 0 /\ k \div C < src_rows_
  BY <1>0 DEF InSource
<1>6. row_base(f[1]) % FACE = 0
  BY <1>0, <1>2, RowAligned
<1>7. k \in Int /\ k % FACE = 0
  <2>1. row_base(f[1]) \in Int /\ f[2] \in Int /\ FACE \in Nat \ {0} /\ f[2] % FACE = 0
    BY <1>1, <1>2, <1>3, TileFacts
  <2>2. (row_base(f[1]) + f[2]) % FACE = 0
    BY <1>6, <2>1, MultipleSum, Zenon
  <2> QED BY <1>2, <1>3, <2>2
<1> HIDE DEF k
<1>8. C \in Nat \ {0} /\ C % TILE = 0
  BY <1>0, SrcTiled
<1> HIDE DEF C
<1>9. (k + FACE - 1) \div C = k \div C
  <2> DEFINE F == FACE
             q == k \div C
             r == k % C
             u == k \div F
             w == C \div TILE
  <2>1. F \in Nat \ {0} /\ TILE = 2 * F /\ TILE \in Nat \ {0}
    BY TileFacts
  <2>2. q \in Int /\ r \in Int /\ k = (q * C) + r /\ 0 <= r /\ r < C
    BY <1>7, <1>8, DivModFloor
  <2>3. u \in Int /\ k = (u * F) + 0
    BY <1>7, <2>1, DivModFloor
  <2>4. w \in Int /\ C = (w * TILE) + 0
    <3>1. C \in Int /\ TILE \in Nat \ {0}
      BY <1>8, <2>1
    <3>2. w \in Int /\ C = (w * TILE) + (C % TILE)
      BY <3>1, DivModFloor, Zenon
    <3> QED BY <1>8, <3>2
  <2>5. k + FACE - 1 = k + (F - 1)
    BY <1>7, <2>1
  <2> HIDE DEF F, q, r, u, w
  <2>6. r + (F - 1) < C
    <3>1. r = (u - q * (2 * w)) * F
      BY <2>1, <2>2, <2>3, <2>4
    <3>2. C = (2 * w) * F
      BY <2>1, <2>4
    <3>3. PICK x \in Int, y \in Int : r = x * F /\ C = y * F
      BY <2>2, <2>3, <2>4, <3>1, <3>2
    <3>4. x < y
      <4> SUFFICES ASSUME y <= x PROVE FALSE
        OBVIOUS
      <4>1. (x - y) * F >= 0
        BY <2>1, ProductNat, x - y \in Int, x - y >= 0
      <4>2. (x - y) * F = x * F - y * F
        BY <2>1
      <4> QED BY <2>1, <2>2, <3>3, <4>1, <4>2
    <3>5. (y - 1 - x) * F >= 0
      BY <2>1, <3>4, ProductNat, y - 1 - x \in Int, y - 1 - x >= 0
    <3>6. (y - 1 - x) * F = y * F - F - x * F
      BY <2>1
    <3> QED BY <2>1, <3>3, <3>5, <3>6
  <2>7. k + (F - 1) = q * C + (r + (F - 1)) /\ r + (F - 1) \in Int /\ 0 <= r + (F - 1)
        /\ k + (F - 1) \in Int
    BY <1>7, <1>8, <2>1, <2>2
  <2>8. q = (k + (F - 1)) \div C
    BY <1>8, <2>2, <2>6, <2>7, DivModUnique
  <2> QED BY <2>5, <2>8 DEF q
<1> QED BY <1>4, <1>5, <1>7, <1>9 DEF C

LEMMA DensePages == TypeInv => DenseIsPageCopy
<1> SUFFICES ASSUME TypeInv, ok, is_dense_identity PROVE DenseIsPageCopy
  BY DEF DenseIsPageCopy
<1>0. LayoutInv /\ BindInv /\ Affine
  BY DEF TypeInv, ok
<1>1. /\ L.base = 0 /\ S_row = src_cols_ /\ Co = src_cols_
      /\ Padded(Ro) = Ro /\ Padded(Co) = Co
  BY DEF is_dense_identity
<1>2. Ro \in Nat /\ Co \in Nat \ {0}
  BY <1>0, <1>1, LaneFacts, SrcTiled
<1>3. ASSUME NEW r \in 0 .. Ro - 1, NEW c \in 0 .. Co - 1
      PROVE  /\ row_base(r) = L.base + r * S_row
             /\ r = (L.base + r * S_row + c) \div src_cols_
             /\ c = (L.base + r * S_row + c) % src_cols_
             /\ row_base(r) + c = L.base + r * S_row + c
  <2>1. row_base(r) = L.base + r * S_row
    BY <1>0, RowLinear
  <2>2. r \in Int /\ c \in Int /\ 0 <= c /\ c < Co
    BY <1>2
  <2> DEFINE k == L.base + r * S_row + c
  <2>3. k = r * Co + c /\ k \in Int
    BY <1>1, <1>2, <2>2
  <2> HIDE DEF k
  <2>4. r = k \div Co /\ c = k % Co
    BY <1>2, <2>2, <2>3, DivModUnique
  <2> QED BY <1>1, <2>1, <2>4 DEF k
<1>4. all_tile
  <2> SUFFICES ASSUME NEW f \in LiveFaces
               PROVE  LET k0 == row_base(f[1]) + f[2]
                      IN  /\ (k0 \div src_cols_) % TILE = f[1] % TILE
                          /\ (k0 % src_cols_) % TILE = f[2] % TILE
    BY <1>1 DEF all_tile, has_pad
  <2>1. f[1] \in 0 .. Ro - 1 /\ f[2] \in 0 .. Co - 1
    BY DEF LiveFaces
  <2> QED BY <1>3, <2>1
<1>5. cls = "TILE"
  BY <1>4 DEF cls
<1>6. Ro * Co = (Padded(Ro) \div TILE) * (Padded(Co) \div TILE) * PAGE_ELTS
  <2> DEFINE a == Ro \div TILE
             b == Co \div TILE
             T == TILE
  <2>1. Ro % TILE = 0 /\ Co % TILE = 0 /\ T \in Nat \ {0}
    BY <1>1, <1>2, PaddedFacts, TileFacts
  <2>2. a \in Int /\ b \in Int /\ Ro = (a * T) + 0 /\ Co = (b * T) + 0
    BY <1>2, <2>1, DivModFloor
  <2>3. (Padded(Ro) \div TILE) * (Padded(Co) \div TILE) * PAGE_ELTS = a * b * (T * T)
    BY <1>1 DEF PAGE_ELTS
  <2> HIDE DEF a, b, T
  <2>4. (a * T) * (b * T) = a * b * (T * T)
    BY <2>1, <2>2
  <2>5. Ro = a * T /\ Co = b * T
    BY <2>1, <2>2
  <2> QED BY <2>3, <2>4, <2>5
<1>7. ASSUME NEW oR \in 0 .. Ro - 1, NEW oC \in 0 .. Co - 1
      PROVE  LET k == L.base + oR * S_row + oC
             IN  phys(k \div src_cols_, k % src_cols_, src_cols_) = phys(oR, oC, Padded(Co))
  BY <1>1, <1>3
<1> QED BY <1>5, <1>6, <1>7 DEF DenseIsPageCopy

\* Every face-row of an accepted view is one aligned face-row inside one row of
\* the source.
THEOREM FaceRowsHold == Arguments /\ Spec => []FaceRowsWhole
<1> SUFFICES ASSUME Arguments PROVE Spec => []FaceRowsWhole
  OBVIOUS
<1>1. Init => TypeInv
  BY TypeInit
<1>2. TypeInv /\ [Next]_vars => TypeInv'
  BY TypeStep
<1>3. TypeInv => FaceRowsWhole
  BY FaceRows
<1> QED BY <1>1, <1>2, <1>3, PTL DEF Spec

\* An endpoint kind_of() calls dense is a copy of whole pages.
THEOREM DenseHolds == Arguments /\ Spec => []DenseIsPageCopy
<1> SUFFICES ASSUME Arguments PROVE Spec => []DenseIsPageCopy
  OBVIOUS
<1>1. Init => TypeInv
  BY TypeInit
<1>2. TypeInv /\ [Next]_vars => TypeInv'
  BY TypeStep
<1>3. TypeInv => DenseIsPageCopy
  BY DensePages
<1> QED BY <1>1, <1>2, <1>3, PTL DEF Spec

-----------------------------------------------------------------------------
(***************************************************************************)
(* What the layout says of the array.                                      *)
(***************************************************************************)
\* Where coordinate c of a layout with strides st is, relative to its base.
Address(st, c, n) == Total([a \in 1 .. n |-> c[a] * st[a]], n)
Elements == 0 .. -POISON - 1
Sheets == [shape : Seq(Nat), elems : Seq(Int)]

\* A layout presents nothing; or it is poisoned, every stride POISON or what is
\* left of it, or it is a single element, whose strides no longer matter; or it
\* presents the array, element for element.  No weaker statement is kept by the
\* verbs: a poisoned single element gets clean strides from a reshape, and an
\* empty slice of that hides the poison for good.
Empty == \E a \in 1 .. Len(L.shape) : L.shape[a] = 0
Poisoned ==
  \/ \A a \in 1 .. Len(L.shape) : L.stride[a] \in {0, POISON}
  \/ \A a \in 1 .. Len(L.shape) : L.shape[a] = 1
\* Elements grow along every axis that has more than one, and none is presented
\* twice.
Rising(s, st, n) == \A a \in 1 .. n : s[a] # 1 => st[a] > 0
Distinct(e, n) == \A i, j \in 1 .. n : e[i] = e[j] => i = j
Exact ==
  LET n == Len(L.shape)
  IN  /\ \A a \in 1 .. n : L.shape[a] # 0
      /\ Rising(L.shape, L.stride, n) /\ Distinct(array.elems, Extent(L.shape, 1, n))
      /\ array \in Sheets /\ array.shape = L.shape /\ Len(array.elems) = Extent(L.shape, 1, n)
      /\ \A c \in Box(L.shape, n) :
           /\ L.base + Address(L.stride, c, n) \in Elements
           /\ array.elems[Place(L.shape, c, n) + 1] = L.base + Address(L.stride, c, n)
ChainInv == Empty \/ Poisoned \/ Exact

LEMMA ExtentOnes ==
  ASSUME NEW n \in Nat, NEW s, \A k \in 1 .. n : s[k] \in Nat \ {0}, Extent(s, 1, n) = 1
  PROVE  \A k \in 1 .. n : s[k] = 1
<1> SUFFICES ASSUME NEW k \in 1 .. n PROVE s[k] = 1
  OBVIOUS
<1>1. k - 1 \in Nat /\ k - 1 <= n /\ (k - 1) + 1 = k /\ k \in Nat \ {0} /\ k <= n
      /\ \A i \in k .. n : s[i] \in Int
  OBVIOUS
<1>2. Extent(s, (k - 1) + 1, n) \in Nat \ {0} /\ Extent(s, (k - 1) + 1, n) <= 1
  BY <1>1, ExtentSuffix
<1>3. Extent(s, k, n) = 1
  BY <1>1, <1>2
<1>4. Extent(s, k + 1, n) \in Nat \ {0} /\ s[k] \in Nat \ {0}
  BY <1>1, ExtentSuffix
<1>5. s[k] * Extent(s, k + 1, n) = 1
  BY <1>1, <1>3, ExtentFirst
<1>6. \A x, e \in Nat \ {0} : x * e = 1 => x = 1
  <2> SUFFICES ASSUME NEW x \in Nat \ {0}, NEW e \in Nat \ {0}, x * e = 1 PROVE x = 1
    OBVIOUS
  <2>1. (x - 1) * e >= 0 /\ (e - 1) * x >= 0
    BY ProductNat, x - 1 \in Int, x - 1 >= 0, e - 1 \in Int, e - 1 >= 0
  <2>2. (x - 1) * e = x * e - e /\ (e - 1) * x = x * e - x
    OBVIOUS
  <2> QED BY <2>1, <2>2
<1> QED BY <1>4, <1>5, <1>6

LEMMA OnesExtent ==
  ASSUME NEW n \in Nat, NEW s, \A k \in 1 .. n : s[k] = 1
  PROVE  Extent(s, 1, n) = 1
<1> DEFINE S == {m \in Nat : m <= n => Extent(s, 1, m) = 1}
<1>0. 1 \in Nat \ {0}
  OBVIOUS
<1>1. 0 \in S
  <2>1. \A k \in 1 .. 0 : s[k] \in Int
    OBVIOUS
  <2>2. Extent(s, 1, 0) = 1
    BY <1>0, <2>1, ExtentStep, 0 \in Nat, 0 < 1
  <2> QED BY <2>2
<1>2. ASSUME NEW m \in Nat, m \in S PROVE m + 1 \in S
  <2> SUFFICES ASSUME m + 1 <= n PROVE Extent(s, 1, m + 1) = 1
    OBVIOUS
  <2>1. m + 1 \in Nat /\ (m + 1) - 1 = m /\ m + 1 >= 1 /\ \A k \in 1 .. m + 1 : s[k] \in Int
    OBVIOUS
  <2>2. Extent(s, 1, m + 1) = Extent(s, 1, m) * s[m + 1]
    BY <1>0, <2>1, ExtentStep
  <2>3. Extent(s, 1, m) = 1 /\ s[m + 1] = 1
    BY <1>2
  <2> QED BY <2>2, <2>3
<1> HIDE DEF S
<1>3. n \in S
  BY <1>1, <1>2, Induction
<1> QED BY <1>3 DEF S

LEMMA ExtentZero ==
  ASSUME NEW n \in Nat, NEW s, \A k \in 1 .. n : s[k] \in Nat
  PROVE  (\E k \in 1 .. n : s[k] = 0) <=> Extent(s, 1, n) = 0
<1>1. (\E k \in 1 .. n : s[k] = 0) => Extent(s, 1, n) = 0
  BY ExtentNat, 1 \in Nat \ {0}
<1>2. ASSUME ~(\E k \in 1 .. n : s[k] = 0) PROVE Extent(s, 1, n) # 0
  <2>1. 1 \in Nat \ {0} /\ \A k \in 1 .. n : s[k] \in Nat \ {0}
    BY <1>2
  <2> QED BY <2>1, ExtentPositive
<1> QED BY <1>1, <1>2

LEMMA AddressInt ==
  ASSUME NEW n \in Nat, NEW st, NEW c,
         \A k \in 1 .. n : st[k] \in Int, \A k \in 1 .. n : c[k] \in Int
  PROVE  Address(st, c, n) \in Int
<1> DEFINE f == [a \in 1 .. n |-> c[a] * st[a]]
<1>1. \A k \in 1 .. n : f[k] \in Int
  OBVIOUS
<1> HIDE DEF f
<1>2. Total(f, n) \in Int
  BY <1>1, TotalStep
<1> QED BY <1>2 DEF Address, f

\* The reference's coordinates and positions.
LEMMA CoordsDigits ==
  ASSUME NEW s \in Seq(Nat), NEW n, n = Len(s)
  PROVE  /\ \A i : Coords(s, i) = Digits(s, i, n)
         /\ \A c : Position(s, c) = Place(s, c, n)
         /\ Numel(s) = Extent(s, 1, n)
<1>1. DOMAIN s = 1 .. n
  OBVIOUS
<1> QED BY <1>1 DEF Coords, Digits, Position, Place, Numel

\* Every place inside a shape is the place of its coordinates.
LEMMA PlaceCoords ==
  ASSUME NEW s \in Seq(Nat), NEW n \in Nat, n = Len(s), \A k \in 1 .. n : s[k] # 0,
         NEW c \in Box(s, n)
  PROVE  \E i \in 1 .. Numel(s) : i = Place(s, c, n) + 1 /\ Coords(s, i - 1) = c
<1>1. \A k \in 1 .. n : s[k] \in Nat \ {0}
  OBVIOUS
<1>2. Numel(s) = Extent(s, 1, n)
  BY CoordsDigits
<1>3. /\ Place(s, c, n) \in Nat
      /\ Place(s, c, n) < Extent(s, 1, n)
      /\ Digits(s, Place(s, c, n), n) = c
  BY <1>1, PlaceDigits
<1>4. Extent(s, 1, n) \in Nat
  <2>1. \A k \in 1 .. n : s[k] \in Nat
    OBVIOUS
  <2> QED BY <2>1, ExtentNat, 1 \in Nat \ {0}
<1>5. PICK i \in 1 .. Numel(s) : i = Place(s, c, n) + 1 /\ i - 1 = Place(s, c, n)
  BY <1>2, <1>3, <1>4
<1>6. Coords(s, i - 1) = c
  BY <1>3, <1>5, CoordsDigits
<1> QED BY <1>5, <1>6

LEMMA CoordsPlace ==
  ASSUME NEW s \in Seq(Nat), NEW n \in Nat, n = Len(s), \A k \in 1 .. n : s[k] # 0,
         NEW m \in Nat, m < Extent(s, 1, n)
  PROVE  Coords(s, m) \in Box(s, n) /\ Place(s, Coords(s, m), n) = m
<1>1. \A k \in 1 .. n : s[k] \in Nat \ {0}
  OBVIOUS
<1>2. Digits(s, m, n) \in Box(s, n) /\ Place(s, Digits(s, m, n), n) = m
  BY <1>1, DigitsPlace
<1> QED BY <1>2, CoordsDigits

-----------------------------------------------------------------------------
(***************************************************************************)
(* Every verb keeps the layout and the array in step.                     *)
(***************************************************************************)
LEMMA ExactFacts ==
  ASSUME LayoutInv, Exact
  PROVE  \E n \in Nat \ {0} :
           /\ n = Len(L.shape) /\ n = Len(L.stride)
           /\ L \in Layouts /\ L.shape \in Seq(Nat) /\ L.stride \in Seq(Word) /\ L.base \in Int
           /\ \A a \in 1 .. n : L.shape[a] \in Nat \ {0}
           /\ \A a \in 1 .. n : L.stride[a] \in Int
           /\ array \in Sheets /\ array.shape = L.shape /\ Len(array.elems) = Extent(L.shape, 1, n)
           /\ \A c \in Box(L.shape, n) :
                /\ L.base + Address(L.stride, c, n) \in Elements
                /\ array.elems[Place(L.shape, c, n) + 1] = L.base + Address(L.stride, c, n)
           /\ Rising(L.shape, L.stride, n) /\ Distinct(array.elems, Extent(L.shape, 1, n))
<1>1. /\ L \in Layouts /\ L.shape \in Seq(Nat) /\ L.stride \in Seq(Word) /\ L.base \in Word
      /\ Len(L.stride) = Len(L.shape) /\ Len(L.shape) >= 1
  BY DEF LayoutInv, Layouts
<1>2. PICK n \in Nat \ {0} : n = Len(L.shape)
  BY <1>1
<1>3. /\ \A a \in 1 .. n : L.shape[a] # 0
      /\ array \in Sheets /\ array.shape = L.shape /\ Len(array.elems) = Extent(L.shape, 1, n)
      /\ \A c \in Box(L.shape, n) :
           /\ L.base + Address(L.stride, c, n) \in Elements
           /\ array.elems[Place(L.shape, c, n) + 1] = L.base + Address(L.stride, c, n)
      /\ Rising(L.shape, L.stride, n) /\ Distinct(array.elems, Extent(L.shape, 1, n))
  BY <1>2 DEF Exact
<1>4. \A a \in 1 .. n : L.shape[a] \in Nat \ {0}
  BY <1>1, <1>2, <1>3
<1>5. \A a \in 1 .. n : L.stride[a] \in Int
  <2>1. \A a \in 1 .. n : L.stride[a] \in Word
    BY <1>1, <1>2
  <2> QED BY <2>1, WordFacts
<1>6. L.base \in Int
  BY <1>1, WordFacts
<1> QED BY <1>1, <1>2, <1>3, <1>4, <1>5, <1>6

\* What makes the layout of the next state exact.
LEMMA ExactNext ==
  ASSUME NEW n \in Nat, NEW sh \in Seq(Nat), NEW st, NEW base, NEW A,
         n = Len(sh), L' = [shape |-> sh, stride |-> st, base |-> base], array' = A,
         \A a \in 1 .. n : sh[a] # 0,
         A \in Sheets, A.shape = sh, Len(A.elems) = Extent(sh, 1, n),
         Rising(sh, st, n), Distinct(A.elems, Extent(sh, 1, n)),
         \A c \in Box(sh, n) :
           /\ base + Address(st, c, n) \in Elements
           /\ A.elems[Place(sh, c, n) + 1] = base + Address(st, c, n)
  PROVE  Exact'
BY DEF Exact

\* The elements of a contiguous array follow each other.
LEMMA Contiguous ==
  ASSUME LayoutInv, Exact, c_contiguous, NEW m \in Nat, m < Extent(L.shape, 1, Len(L.shape))
  PROVE  array.elems[m + 1] = L.base + m /\ L.base + m \in Elements
<1>1. PICK n \in Nat \ {0} :
           /\ n = Len(L.shape) /\ L.shape \in Seq(Nat)
           /\ \A a \in 1 .. n : L.shape[a] \in Nat \ {0}
           /\ \A a \in 1 .. n : L.stride[a] \in Int
           /\ \A c \in Box(L.shape, n) :
                /\ L.base + Address(L.stride, c, n) \in Elements
                /\ array.elems[Place(L.shape, c, n) + 1] = L.base + Address(L.stride, c, n)
  BY ExactFacts
<1> DEFINE c == Digits(L.shape, m, n)
<1>2. c \in Box(L.shape, n) /\ Place(L.shape, c, n) = m
  BY <1>1, DigitsPlace
<1> HIDE DEF c
<1>3. Address(L.stride, c, n) = Place(L.shape, c, n)
  <2> DEFINE f == [a \in 1 .. n |-> c[a] * L.stride[a]]
             g == [a \in 1 .. n |-> c[a] * Extent(L.shape, a + 1, n)]
  <2>1. ASSUME NEW a \in 1 .. n PROVE f[a] = g[a] /\ g[a] \in Int
    <3>1. L.shape[a] = 1 \/ L.stride[a] = Extent(L.shape, a + 1, n)
      BY <1>1 DEF c_contiguous
    <3>2. c[a] \in Nat /\ c[a] < L.shape[a] /\ L.stride[a] \in Int
      BY <1>1, <1>2 DEF Box
    <3>3. Extent(L.shape, a + 1, n) \in Int
      <4>1. a + 1 \in Nat \ {0} /\ n \in Nat /\ \A k \in a + 1 .. n : L.shape[k] \in Int
        BY <1>1
      <4> QED BY <4>1, ExtentStep
    <3>4. f[a] = c[a] * L.stride[a] /\ g[a] = c[a] * Extent(L.shape, a + 1, n)
      OBVIOUS
    <3> HIDE DEF f, g
    <3>5. CASE L.shape[a] = 1
      <4>1. c[a] = 0
        BY <3>2, <3>5
      <4> QED BY <3>2, <3>3, <3>4, <4>1
    <3>6. CASE L.stride[a] = Extent(L.shape, a + 1, n)
      BY <3>2, <3>3, <3>4, <3>6
    <3> QED BY <3>1, <3>5, <3>6
  <2> HIDE DEF f, g
  <2>2. Total(f, n) = Total(g, n)
    BY <2>1, TotalSame
  <2> QED BY <2>2 DEF Address, Place, f, g
<1> QED BY <1>1, <1>2, <1>3

\* Row-major strides rise.
LEMMA RowmajorRises ==
  ASSUME NEW n \in Nat, NEW s, NEW p \in Seq(Nat \ {0}), Len(p) = n
  PROVE  Rising(s, rowmajor(p), n)
<1>1. ASSUME NEW a \in 1 .. n PROVE rowmajor(p)[a] > 0
  <2>1. rowmajor(p)[a] = Extent(p, a + 1, n)
    BY DEF rowmajor
  <2>2. a \in Nat /\ a <= n /\ \A k \in 1 .. n : p[k] \in Nat \ {0}
    OBVIOUS
  <2>3. Extent(p, a + 1, n) \in Nat \ {0}
    BY <2>2, ExtentSuffix
  <2> QED BY <2>1, <2>3
<1> QED BY <1>1 DEF Rising

LEMMA ReshapeKeeps ==
  ASSUME Arguments, TypeInv, ChainInv, NEW ns \in ReshapeArgs(L.shape), reshape(ns)
  PROVE  ChainInv'
<1>1. /\ L \in Layouts /\ L.shape \in Seq(Nat) /\ Len(L.shape) >= 1 /\ LayoutInv /\ L.base \in Word
      /\ Len(L.stride) = Len(L.shape)
  BY DEF TypeInv, LayoutInv, Layouts
<1>2. ns \in Seq(Nat) /\ Len(ns) >= 1
  BY <1>1 DEF Arguments
<1> DEFINE st == IF Restrides(ns) THEN rowmajor(ns) ELSE poisoned(ns)
<1>3. L' = [shape |-> ns, stride |-> st, base |-> L.base]
  BY <1>1 DEF reshape, Fold, Layouts
<1>4. array' = IF array = Undefined THEN Undefined
               ELSE IF Numel(ns) = Numel(L.shape) THEN Reshaped(array, ns) ELSE Undefined
  BY DEF reshape, Fold
<1>5. PICK n \in Nat, N \in Nat : n = Len(L.shape) /\ N = Len(ns)
  BY <1>1, <1>2
<1>6. /\ \A a \in 1 .. n : L.shape[a] \in Nat
      /\ \A a \in 1 .. N : ns[a] \in Nat
      /\ Numel(L.shape) = Extent(L.shape, 1, n) /\ Numel(ns) = Extent(ns, 1, N)
  BY <1>1, <1>2, <1>5, CoordsDigits
<1>7. CASE ~Restrides(ns)
  <2>1. L'.shape = ns /\ L'.stride = poisoned(ns)
    BY <1>3, <1>7
  <2>2. \A a \in 1 .. Len(ns) : poisoned(ns)[a] = POISON
    BY <1>2 DEF poisoned
  <2> QED BY <2>1, <2>2 DEF ChainInv, Poisoned
<1>8. CASE Restrides(ns)
  <2>0. Extent(ns, 1, N) = Extent(L.shape, 1, n) /\ c_contiguous
    BY <1>6, <1>8 DEF Restrides
  <2>1. L'.shape = ns /\ Len(L'.shape) = N
    BY <1>3, <1>5
  <2>2. CASE Empty
    <3>1. \E a \in 1 .. N : ns[a] = 0
      BY <1>5, <1>6, <2>0, <2>2, ExtentZero DEF Empty
    <3> QED BY <2>1, <3>1 DEF ChainInv, Empty
  <2>3. CASE Poisoned /\ ~Empty
    <3>1. \A a \in 1 .. n : L.shape[a] \in Nat \ {0}
      BY <1>5, <1>6, <2>3 DEF Empty
    <3>2. \A a \in 1 .. n : L.shape[a] = 1
      <4> SUFFICES ASSUME NEW a \in 1 .. n, L.shape[a] # 1, \A b \in 1 .. n : L.stride[b] \in {0, POISON}
                   PROVE  FALSE
        BY <1>5, <2>3 DEF Poisoned
      <4>1. L.stride[a] = Extent(L.shape, a + 1, n)
        BY <1>1, <1>5, <2>0 DEF c_contiguous
      <4>2. Extent(L.shape, a + 1, n) \in Nat \ {0}
        <5>1. a \in Nat /\ a <= n
          OBVIOUS
        <5> QED BY <3>1, <5>1, ExtentSuffix
      <4> QED BY <4>1, <4>2, WordFacts
    <3>3. Extent(ns, 1, N) = 1
      BY <2>0, <3>2, OnesExtent
    <3>4. \A k \in 1 .. N : ns[k] \in Nat \ {0}
      BY <1>6, <3>3, ExtentZero
    <3>5. \A k \in 1 .. N : ns[k] = 1
      BY <3>3, <3>4, ExtentOnes
    <3> QED BY <2>1, <3>5 DEF ChainInv, Poisoned
  <2>4. CASE Exact
    <3>1. /\ \A a \in 1 .. n : L.shape[a] \in Nat \ {0}
          /\ array \in Sheets /\ Len(array.elems) = Extent(L.shape, 1, n)
          /\ Distinct(array.elems, Extent(L.shape, 1, n))
      BY <1>1, <1>5, <2>4, ExactFacts
    <3>2. \A a \in 1 .. N : ns[a] \in Nat \ {0}
      <4>1. Extent(L.shape, 1, n) # 0
        BY <3>1, ExtentZero
      <4> QED BY <1>6, <2>0, <4>1, ExtentZero
    <3>3. array # Undefined
      BY <3>1 DEF Arguments, Sheets
    <3>4. array' = [shape |-> ns, elems |-> array.elems]
      BY <1>4, <1>6, <2>0, <3>3 DEF Reshaped
    <3>5. ASSUME NEW c \in Box(ns, N)
          PROVE  /\ L.base + Address(rowmajor(ns), c, N) \in Elements
                 /\ array.elems[Place(ns, c, N) + 1] = L.base + Address(rowmajor(ns), c, N)
      <4>1. Place(ns, c, N) \in Nat /\ Place(ns, c, N) < Extent(L.shape, 1, n)
        BY <2>0, <3>2, PlaceDigits
      <4>2. /\ array.elems[Place(ns, c, N) + 1] = L.base + Place(ns, c, N)
            /\ L.base + Place(ns, c, N) \in Elements
        BY <1>1, <1>5, <2>0, <2>4, <4>1, Contiguous
      <4>3. Address(rowmajor(ns), c, N) = Place(ns, c, N)
        <5>1. [a \in 1 .. N |-> c[a] * rowmajor(ns)[a]] = [a \in 1 .. N |-> c[a] * Extent(ns, a + 1, N)]
          BY <1>2, <1>5 DEF rowmajor
        <5> QED BY <5>1 DEF Address, Place
      <4> QED BY <4>2, <4>3
    <3>6. /\ L' = [shape |-> ns, stride |-> rowmajor(ns), base |-> L.base]
          /\ array.elems \in Seq(Int) /\ Len(array.elems) = Extent(ns, 1, N)
      BY <1>3, <1>8, <2>0, <3>1 DEF Sheets
    <3> DEFINE A == [shape |-> ns, elems |-> array.elems]
    <3>7. A \in Sheets /\ A.shape = ns /\ A.elems = array.elems /\ array' = A
      BY <1>2, <3>4, <3>6 DEF Sheets
    <3> HIDE DEF A
    <3>8. Rising(ns, rowmajor(ns), N) /\ Distinct(A.elems, Extent(ns, 1, N))
      BY <1>2, <1>5, <2>0, <3>1, <3>2, <3>7, ns \in Seq(Nat \ {0}), RowmajorRises
    <3>9. Exact'
      BY <1>2, <1>5, <3>2, <3>5, <3>6, <3>7, <3>8, ExactNext
    <3> QED BY <3>9 DEF ChainInv
  <2> QED BY <2>2, <2>3, <2>4 DEF ChainInv
<1> QED BY <1>7, <1>8

\* An array whose elements are taken from the places G of an exact one is
\* exact under the layout that sends c to the address of G[c].
Apart(G, S) == \A c, d \in S : G[c] = G[d] => c = d

LEMMA PickedExact ==
  ASSUME LayoutInv, Exact, L'.shape \in Seq(Nat), Len(L'.shape) = Len(L.shape),
         \A a \in 1 .. Len(L.shape) : L'.shape[a] # 0,
         NEW G, \A c \in Box(L'.shape, Len(L.shape)) : G[c] \in Box(L.shape, Len(L.shape)),
         array'.shape = L'.shape, array' = [shape |-> array'.shape, elems |-> array'.elems],
         array'.elems = [i \in 1 .. Numel(L'.shape) |-> array'.elems[i]],
         \A i \in 1 .. Numel(L'.shape) :
           array'.elems[i]
             = array.elems[Place(L.shape, G[Coords(L'.shape, i - 1)], Len(L.shape)) + 1],
         \A c \in Box(L'.shape, Len(L.shape)) :
           L'.base + Address(L'.stride, c, Len(L.shape))
             = L.base + Address(L.stride, G[c], Len(L.shape)),
         Rising(L'.shape, L'.stride, Len(L.shape)), Apart(G, Box(L'.shape, Len(L.shape)))
  PROVE  Exact'
<1> DEFINE n == Len(L.shape)
           sh == L'.shape
           st == L'.stride
           base == L'.base
           E == array'.elems
<1>0. n \in Nat /\ n = Len(L.shape) /\ sh \in Seq(Nat) /\ n = Len(sh) /\ \A a \in 1 .. n : sh[a] # 0
  BY DEF LayoutInv, Layouts
<1>01. \A c \in Box(sh, n) : G[c] \in Box(L.shape, n)
  OBVIOUS
<1>02. E = [i \in 1 .. Numel(sh) |-> E[i]]
  OBVIOUS
<1>03. \A i \in 1 .. Numel(sh) :
           E[i] = array.elems[Place(L.shape, G[Coords(sh, i - 1)], n) + 1]
  OBVIOUS
<1>04. \A c \in Box(sh, n) : base + Address(st, c, n) = L.base + Address(L.stride, G[c], n)
  OBVIOUS
<1>05. L'.shape = sh /\ L'.stride = st /\ L'.base = base /\ array' = [shape |-> sh, elems |-> E]
  OBVIOUS
<1>06. Rising(sh, st, n) /\ Apart(G, Box(sh, n))
  OBVIOUS
<1> HIDE DEF n, sh, st, base, E
<1>1. /\ \A a \in 1 .. n : L.shape[a] \in Nat \ {0}
      /\ \A c \in Box(L.shape, n) :
           /\ L.base + Address(L.stride, c, n) \in Elements
           /\ array.elems[Place(L.shape, c, n) + 1] = L.base + Address(L.stride, c, n)
      /\ Distinct(array.elems, Extent(L.shape, 1, n))
  BY <1>0, ExactFacts
<1>2. \A k \in 1 .. n : sh[k] \in Nat \ {0} /\ sh[k] \in Nat
  BY <1>0
<1>3. Numel(sh) = Extent(sh, 1, n) /\ Extent(sh, 1, n) \in Nat
  BY <1>0, <1>2, CoordsDigits, ExtentNat, 1 \in Nat \ {0}
<1>4. ASSUME NEW i \in 1 .. Numel(sh) PROVE E[i] \in Int
  <2>1. i - 1 \in Nat /\ i - 1 < Extent(sh, 1, n)
    BY <1>3
  <2>2. Coords(sh, i - 1) \in Box(sh, n)
    BY <1>0, <1>2, <2>1, CoordsPlace
  <2>3. E[i] = array.elems[Place(L.shape, G[Coords(sh, i - 1)], n) + 1]
    BY <1>03
  <2>4. E[i] \in Elements
    BY <1>1, <1>01, <2>2, <2>3
  <2> QED BY <2>4, WordFacts DEF Elements
<1>5. ASSUME NEW c \in Box(sh, n)
      PROVE  /\ base + Address(st, c, n) \in Elements
             /\ E[Place(sh, c, n) + 1] = base + Address(st, c, n)
  <2>1. PICK i \in 1 .. Numel(sh) : i = Place(sh, c, n) + 1 /\ Coords(sh, i - 1) = c
    BY <1>0, PlaceCoords
  <2>2. E[i] = array.elems[Place(L.shape, G[c], n) + 1]
    BY <1>03, <2>1
  <2>3. /\ L.base + Address(L.stride, G[c], n) \in Elements
        /\ array.elems[Place(L.shape, G[c], n) + 1] = L.base + Address(L.stride, G[c], n)
    BY <1>01, <1>1
  <2> QED BY <1>04, <2>1, <2>2, <2>3
<1>6. E \in [1 .. Extent(sh, 1, n) -> Int] 
  BY <1>02, <1>3, <1>4
<1>7. E \in Seq(Int) /\ Len(E) = Extent(sh, 1, n)
  BY <1>3, <1>6, ArraySeq
<1>8. array'.shape = sh /\ array'.elems = E /\ array' \in Sheets
  BY <1>0, <1>05, <1>7 DEF Sheets
\* Two positions with one element stand for one place of the old array.
<1>9. Distinct(E, Extent(sh, 1, n))
  <2> SUFFICES ASSUME NEW i \in 1 .. Numel(sh), NEW j \in 1 .. Numel(sh), E[i] = E[j]
               PROVE  i = j
    BY <1>3 DEF Distinct
  <2> DEFINE c == Coords(sh, i - 1)
             d == Coords(sh, j - 1)
  <2>1. c \in Box(sh, n) /\ Place(sh, c, n) = i - 1
    <3>1. i - 1 \in Nat /\ i - 1 < Extent(sh, 1, n)
      BY <1>3
    <3> QED BY <1>0, <3>1, CoordsPlace
  <2>2. d \in Box(sh, n) /\ Place(sh, d, n) = j - 1
    <3>1. j - 1 \in Nat /\ j - 1 < Extent(sh, 1, n)
      BY <1>3
    <3> QED BY <1>0, <3>1, CoordsPlace
  <2>3. array.elems[Place(L.shape, G[c], n) + 1] = array.elems[Place(L.shape, G[d], n) + 1]
    BY <1>03
  <2> HIDE DEF c, d
  <2> DEFINE x == Place(L.shape, G[c], n)
             y == Place(L.shape, G[d], n)
  <2>4. G[c] \in Box(L.shape, n) /\ G[d] \in Box(L.shape, n)
    BY <1>01, <2>1, <2>2
  <2>13. n \in Nat /\ \A k \in 1 .. n : L.shape[k] \in Nat \ {0}
    BY <1>0, <1>1
  <2>5. x \in Nat /\ x < Extent(L.shape, 1, n) /\ Digits(L.shape, x, n) = G[c]
    BY <2>4, <2>13, PlaceDigits
  <2>6. y \in Nat /\ y < Extent(L.shape, 1, n) /\ Digits(L.shape, y, n) = G[d]
    BY <2>4, <2>13, PlaceDigits
  <2>7. Extent(L.shape, 1, n) \in Nat
    <3>1. \A k \in 1 .. n : L.shape[k] \in Nat
      BY <1>1
    <3> QED BY <1>0, <3>1, ExtentNat, 1 \in Nat \ {0}
  <2> HIDE DEF x, y
  <2>8. array.elems[x + 1] = array.elems[y + 1]
    BY <2>3 DEF x, y
  <2>9. x + 1 = y + 1
    <3>1. x + 1 \in 1 .. Extent(L.shape, 1, n) /\ y + 1 \in 1 .. Extent(L.shape, 1, n)
      BY <2>5, <2>6, <2>7
    <3> QED BY <1>1, <2>8, <3>1 DEF Distinct
  <2>10. x = y
    BY <2>5, <2>6, <2>9
  <2>11. G[c] = G[d]
    BY <2>5, <2>6, <2>10
  <2>12. c = d
    BY <1>06, <2>1, <2>2, <2>11 DEF Apart
  <2> QED BY <1>3, <2>1, <2>2, <2>12
<1> QED BY <1>0, <1>05, <1>06, <1>5, <1>7, <1>8, <1>9 DEF Exact

\* The axis an order takes to b.
Axis(perm, b) == CHOOSE a \in DOMAIN perm : perm[a] = b

LEMMA PermutedParts ==
  ASSUME NEW A, NEW perm
  PROVE  /\ Permuted(A, perm).shape = [a \in DOMAIN perm |-> A.shape[perm[a]]]
         /\ Permuted(A, perm) = [shape |-> Permuted(A, perm).shape, elems |-> Permuted(A, perm).elems]
         /\ Permuted(A, perm).elems =
              [i \in 1 .. Numel(Permuted(A, perm).shape) |-> Permuted(A, perm).elems[i]]
         /\ \A i \in 1 .. Numel(Permuted(A, perm).shape) :
              Permuted(A, perm).elems[i] =
                A.elems[Position(A.shape,
                  [b \in DOMAIN perm |-> Coords(Permuted(A, perm).shape, i - 1)[Axis(perm, b)]]) + 1]
<1> DEFINE S == [a \in DOMAIN perm |-> A.shape[perm[a]]]
           e(i) == A.elems[Position(A.shape, [b \in DOMAIN perm |-> Coords(S, i - 1)[Axis(perm, b)]]) + 1]
           P == Permuted(A, perm)
<1>1. P = [shape |-> S, elems |-> [i \in 1 .. Numel(S) |-> e(i)]]
  BY DEF Permuted, Pick, Axis
<1> HIDE DEF P, e
<1>2. P.shape = S /\ P.elems = [i \in 1 .. Numel(S) |-> e(i)]
  BY <1>1
<1> HIDE DEF S
<1>3. /\ P.shape = S /\ P = [shape |-> P.shape, elems |-> P.elems]
      /\ P.elems = [i \in 1 .. Numel(P.shape) |-> P.elems[i]]
      /\ \A i \in 1 .. Numel(P.shape) : P.elems[i] = e(i)
  BY <1>1, <1>2
<1>4. \A i : e(i) = A.elems[Position(A.shape, [b \in DOMAIN perm |-> Coords(P.shape, i - 1)[Axis(perm, b)]]) + 1]
  BY <1>3 DEF e
<1> QED BY <1>3, <1>4 DEF P, S

LEMMA PermuteKeeps ==
  ASSUME Arguments, TypeInv, ChainInv, NEW perm \in PermArgs(L.shape), permute(perm)
  PROVE  ChainInv'
<1>1. /\ L \in Layouts /\ L.shape \in Seq(Nat) /\ Len(L.shape) >= 1 /\ LayoutInv
      /\ L.stride \in Seq(Word) /\ Len(L.stride) = Len(L.shape)
  BY DEF TypeInv, LayoutInv, Layouts
<1>2. PICK n \in Nat \ {0} : n = Len(L.shape)
  BY <1>1
<1>3. perm \in Orders(n) /\ Injective(perm, n)
  BY <1>1, <1>2 DEF Arguments
<1>4. perm \in [1 .. n -> 1 .. n] /\ DOMAIN perm = 1 .. n /\ \A b \in 1 .. n : \E a \in 1 .. n : perm[a] = b
  BY <1>3 DEF Orders
<1> DEFINE sh == [a \in 1 .. n |-> L.shape[perm[a]]]
           st == [a \in 1 .. n |-> L.stride[perm[a]]]
<1>5. L' = [shape |-> sh, stride |-> st, base |-> L.base]
  BY <1>1, <1>4 DEF permute, Fold, Layouts
<1>6. array' = IF array = Undefined THEN Undefined ELSE Permuted(array, perm)
  BY DEF permute, Fold
<1>7. sh \in Seq(Nat) /\ Len(sh) = n
  <2>0. \A b \in 1 .. n : L.shape[b] \in Nat
    BY <1>1, <1>2
  <2>1. sh \in [1 .. n -> Nat]
    BY <1>4, <2>0
  <2> HIDE DEF sh
  <2> QED BY <2>1, ArraySeq
<1>8. \A a \in 1 .. n : sh[a] = L.shape[perm[a]] /\ st[a] = L.stride[perm[a]] /\ perm[a] \in 1 .. n
  BY <1>4
<1>9. L'.shape = sh /\ L'.stride = st
  BY <1>5
<1> HIDE DEF sh, st
<1>10. CASE Empty
  <2>1. PICK b \in 1 .. n : L.shape[b] = 0
    BY <1>2, <1>10 DEF Empty
  <2>2. PICK a \in 1 .. n : perm[a] = b
    BY <1>4
  <2>3. sh[a] = 0
    BY <1>8, <2>1, <2>2
  <2> QED BY <1>7, <1>9, <2>3 DEF ChainInv, Empty
<1>11. CASE Poisoned
  BY <1>2, <1>7, <1>8, <1>9, <1>11 DEF ChainInv, Poisoned
<1>12. CASE Exact
  <2>1. /\ \A a \in 1 .. n : L.shape[a] \in Nat \ {0}
        /\ \A a \in 1 .. n : L.stride[a] \in Int
        /\ array \in Sheets /\ array.shape = L.shape
        /\ Rising(L.shape, L.stride, n)
    BY <1>1, <1>2, <1>12, ExactFacts
  <2>2. array # Undefined
    BY <2>1 DEF Arguments, Sheets
  <2>3. \A a \in 1 .. n : sh[a] # 0
    BY <1>8, <2>1
  <2> DEFINE inv(b) == Axis(perm, b)
             G == [c \in Box(sh, n) |-> [b \in 1 .. n |-> c[inv(b)]]]
  <2>4. ASSUME NEW b \in 1 .. n PROVE inv(b) \in 1 .. n /\ perm[inv(b)] = b
    BY <1>4 DEF Axis
  <2>5. ASSUME NEW a \in 1 .. n PROVE inv(perm[a]) = a
    <3>1. perm[a] \in 1 .. n
      BY <1>4
    <3>2. inv(perm[a]) \in 1 .. n /\ perm[inv(perm[a])] = perm[a]
      BY <2>4, <3>1
    <3> QED BY <1>3, <3>2 DEF Injective
  <2> HIDE DEF inv
  <2>6. ASSUME NEW c \in Box(sh, n)
        PROVE  /\ G[c] = [b \in 1 .. n |-> c[inv(b)]]
               /\ G[c] \in Box(L.shape, n)
    <3>1. c \in [1 .. n -> Nat] /\ \A a \in 1 .. n : c[a] < sh[a]
      BY DEF Box
    <3>2. G[c] = [b \in 1 .. n |-> c[inv(b)]]
      OBVIOUS
    <3>3. ASSUME NEW b \in 1 .. n PROVE c[inv(b)] \in Nat /\ c[inv(b)] < L.shape[b]
      <4>1. inv(b) \in 1 .. n /\ perm[inv(b)] = b
        BY <2>4
      <4>2. sh[inv(b)] = L.shape[b]
        BY <1>8, <4>1
      <4> QED BY <3>1, <4>1, <4>2
    <3> HIDE DEF G
    <3> QED BY <3>2, <3>3 DEF Box
  <2>7. ASSUME NEW c \in Box(sh, n)
        PROVE  L.base + Address(st, c, n) = L.base + Address(L.stride, G[c], n)
    <3> DEFINE f == [b \in 1 .. n |-> G[c][b] * L.stride[b]]
               g == [a \in 1 .. n |-> c[a] * st[a]]
    <3>1. G[c] \in [1 .. n -> Nat] /\ \A b \in 1 .. n : G[c][b] = c[inv(b)]
      BY <2>6 DEF Box
    <3>2. f \in [1 .. n -> Int]
      BY <2>1, <3>1
    <3>3. g = [k \in 1 .. n |-> f[perm[k]]]
      <4>1. ASSUME NEW k \in 1 .. n PROVE g[k] = f[perm[k]]
        <5>1. perm[k] \in 1 .. n /\ G[c][perm[k]] = c[k] /\ st[k] = L.stride[perm[k]]
          BY <1>8, <2>5, <3>1
        <5> QED BY <5>1
      <4> QED BY <4>1
    <3> HIDE DEF f, g
    <3>4. Total(g, n) = Total(f, n)
      BY <1>3, <3>2, <3>3, TotalPermuted
    <3> QED BY <3>4 DEF Address, f, g
  <2>8. array' = Permuted(array, perm)
    BY <1>6, <2>2
  <2>14. /\ array'.shape = [a \in DOMAIN perm |-> array.shape[perm[a]]]
         /\ array' = [shape |-> array'.shape, elems |-> array'.elems]
         /\ array'.elems = [i \in 1 .. Numel(array'.shape) |-> array'.elems[i]]
         /\ \A i \in 1 .. Numel(array'.shape) :
              array'.elems[i] =
                array.elems[Position(array.shape,
                  [b \in DOMAIN perm |-> Coords(array'.shape, i - 1)[inv(b)]]) + 1]
    BY <2>8, PermutedParts DEF inv
  <2>15. array'.shape = sh
    BY <1>4, <2>1, <2>14 DEF sh
  <2>11. ASSUME NEW i \in 1 .. Numel(sh)
         PROVE  array'.elems[i] = array.elems[Place(L.shape, G[Coords(sh, i - 1)], n) + 1]
    <3>1. Numel(sh) = Extent(sh, 1, n) /\ Extent(sh, 1, n) \in Nat
      <4>1. \A a \in 1 .. n : sh[a] \in Nat
        BY <1>7
      <4>2. Extent(sh, 1, n) \in Nat
        BY <4>1, ExtentNat, 1 \in Nat \ {0}
      <4> QED BY <1>7, <4>2, CoordsDigits
    <3>2. i - 1 \in Nat /\ i - 1 < Extent(sh, 1, n)
      BY <3>1
    <3>3. Coords(sh, i - 1) \in Box(sh, n)
      BY <1>7, <2>3, <3>2, CoordsPlace
    <3>4. G[Coords(sh, i - 1)] = [b \in DOMAIN perm |-> Coords(sh, i - 1)[inv(b)]]
      BY <1>4, <2>6, <3>3
    <3>5. Position(L.shape, G[Coords(sh, i - 1)]) = Place(L.shape, G[Coords(sh, i - 1)], n)
      BY <1>1, <1>2, CoordsDigits
    <3> DEFINE e(S) == [b \in DOMAIN perm |-> Coords(S, i - 1)[inv(b)]]
    <3>6. array'.elems[i] = array.elems[Position(array.shape, e(array'.shape)) + 1]
      BY <2>14, <2>15
    <3>7. G[Coords(sh, i - 1)] = e(sh)
      BY <3>4
    <3> HIDE DEF e, G
    <3> QED BY <2>1, <2>15, <3>5, <3>6, <3>7
  \* Orders keep coordinates apart.
  <2>16. Apart(G, Box(sh, n))
    <3> SUFFICES ASSUME NEW c \in Box(sh, n), NEW d \in Box(sh, n), G[c] = G[d] PROVE c = d
      BY DEF Apart
    <3>1. ASSUME NEW a \in 1 .. n PROVE c[a] = d[a]
      <4>1. perm[a] \in 1 .. n /\ inv(perm[a]) = a
        BY <1>4, <2>5
      <4>2. G[c][perm[a]] = c[inv(perm[a])] /\ G[d][perm[a]] = d[inv(perm[a])]
        BY <2>6, <4>1
      <4> QED BY <4>1, <4>2
    <3>2. c \in [1 .. n -> Nat] /\ d \in [1 .. n -> Nat]
      BY DEF Box
    <3> HIDE DEF G
    <3> QED BY <3>1, <3>2
  <2>17. Rising(sh, st, n)
    BY <1>8, <2>1 DEF Rising
  <2> HIDE DEF G
  <2>13. \A c \in Box(sh, n) : G[c] \in Box(L.shape, n)
    BY <2>6
  <2>9. \A c \in Box(sh, n) : L.base + Address(st, c, n) = L.base + Address(L.stride, G[c], n)
    BY <2>7
  <2>10. Exact'
    <3>1. L'.base = L.base
      BY <1>5
    <3>2. L'.shape \in Seq(Nat) /\ Len(L'.shape) = Len(L.shape)
      BY <1>2, <1>7, <1>9
    <3>3. \A a \in 1 .. Len(L.shape) : L'.shape[a] # 0
      BY <1>2, <1>9, <2>3
    <3>4. \A c \in Box(L'.shape, Len(L.shape)) : G[c] \in Box(L.shape, Len(L.shape))
      BY <1>2, <1>9, <2>13
    <3>5. array'.elems = [i \in 1 .. Numel(L'.shape) |-> array'.elems[i]] /\ array'.shape = L'.shape
      BY <1>9, <2>14, <2>15
    <3>6. \A i \in 1 .. Numel(L'.shape) :
            array'.elems[i]
              = array.elems[Place(L.shape, G[Coords(L'.shape, i - 1)], Len(L.shape)) + 1]
      BY <1>2, <1>9, <2>11
    <3>7. \A c \in Box(L'.shape, Len(L.shape)) :
            L'.base + Address(L'.stride, c, Len(L.shape))
              = L.base + Address(L.stride, G[c], Len(L.shape))
      BY <1>2, <1>9, <2>9, <3>1
    <3>8. Rising(L'.shape, L'.stride, Len(L.shape)) /\ Apart(G, Box(L'.shape, Len(L.shape)))
      BY <1>2, <1>9, <2>16, <2>17
    <3> QED BY <1>1, <1>12, <2>14, <3>2, <3>3, <3>4, <3>5, <3>6, <3>7, <3>8, PickedExact, Zenon
  <2> QED BY <2>10 DEF ChainInv
<1> QED BY <1>10, <1>11, <1>12 DEF ChainInv

\* The distance of two places of an exact array fits the integers.
LEMMA StrideExact ==
  ASSUME LayoutInv, Exact, NEW n \in Nat, n = Len(L.shape), NEW j \in 1 .. n, NEW k \in Nat,
         NEW c \in Box(L.shape, n), NEW d \in Box(L.shape, n),
         d[j] = c[j] + k, \A a \in 1 .. n : a # j => d[a] = c[a]
  PROVE  Wrap(L.stride[j] * k) = L.stride[j] * k
<1>1. /\ \A a \in 1 .. n : L.stride[a] \in Int
      /\ L.base \in Int
      /\ \A e \in Box(L.shape, n) : L.base + Address(L.stride, e, n) \in Elements
  BY ExactFacts
<1>2. /\ \A a \in 1 .. n : c[a] \in Nat /\ d[a] \in Nat
      /\ \A a \in 1 .. n : c[a] \in Int /\ d[a] \in Int
  BY DEF Box
<1> DEFINE f == [a \in 1 .. n |-> c[a] * L.stride[a]]
           g == [a \in 1 .. n |-> d[a] * L.stride[a]]
<1>3. Total(f, n) = Address(L.stride, c, n) /\ Total(g, n) = Address(L.stride, d, n)
  BY DEF Address
<1>4. \A a \in 1 .. n : f[a] \in Int /\ g[a] \in Int
  BY <1>1, <1>2
<1>5. \A a \in 1 .. n : a # j => g[a] = f[a]
  OBVIOUS
<1>6. g[j] - f[j] = L.stride[j] * k
  <2>1. f[j] = c[j] * L.stride[j] /\ g[j] = (c[j] + k) * L.stride[j]
    OBVIOUS
  <2>2. c[j] \in Int /\ L.stride[j] \in Int
    BY <1>1, <1>2
  <2> HIDE DEF f, g
  <2> QED BY <2>1, <2>2
<1> HIDE DEF f, g
<1>7. Total(g, n) = Total(f, n) + (g[j] - f[j])
  BY <1>4, <1>5, TotalUpdate
<1>8. L.base + Total(f, n) \in Elements /\ L.base + Total(g, n) \in Elements
  BY <1>1, <1>3
<1>9. Total(f, n) \in Int
  BY <1>4, TotalStep
<1>10. L.stride[j] * k \in Int
  BY <1>1
<1> DEFINE x == L.stride[j] * k
<1>11. x \in Int /\ Total(g, n) = Total(f, n) + x
  BY <1>6, <1>7, <1>10
<1> HIDE DEF x
<1>12. PICK H \in Nat \ {0} : POISON = -H
  BY WrapHalf
<1>13. x \in Word
  BY <1>1, <1>8, <1>9, <1>11, <1>12 DEF Elements, Word
<1>14. Wrap(x) = x
  BY <1>11, <1>13, WrapWord
<1> QED BY <1>14 DEF x

\* The place a slice takes coordinate c to.
Onto(sh, begin, step, c) == [a \in DOMAIN sh |-> begin[a] + c[a] * step[a]]

LEMMA SlicedParts ==
  ASSUME NEW A, NEW sh, NEW begin, NEW step
  PROVE  /\ Sliced(A, sh, begin, step).shape = sh
         /\ Sliced(A, sh, begin, step) = [shape |-> sh, elems |-> Sliced(A, sh, begin, step).elems]
         /\ Sliced(A, sh, begin, step).elems =
              [i \in 1 .. Numel(sh) |-> Sliced(A, sh, begin, step).elems[i]]
         /\ \A i \in 1 .. Numel(sh) :
              Sliced(A, sh, begin, step).elems[i] =
                A.elems[Position(A.shape, Onto(sh, begin, step, Coords(sh, i - 1))) + 1]
<1> DEFINE e(i) == A.elems[Position(A.shape,
                     [a \in DOMAIN Coords(sh, i - 1) |->
                        begin[a] + Coords(sh, i - 1)[a] * step[a]]) + 1]
           P == Sliced(A, sh, begin, step)
<1>1. P = [shape |-> sh, elems |-> [i \in 1 .. Numel(sh) |-> e(i)]]
  BY DEF Sliced, Pick
<1>2. \A i : DOMAIN Coords(sh, i - 1) = DOMAIN sh
  BY DEF Coords
<1>3. \A i : e(i) = A.elems[Position(A.shape, Onto(sh, begin, step, Coords(sh, i - 1))) + 1]
  BY <1>2 DEF Onto
<1> HIDE DEF P, e
<1>4. P.shape = sh /\ P.elems = [i \in 1 .. Numel(sh) |-> e(i)]
  BY <1>1
<1>5. /\ P.shape = sh /\ P = [shape |-> sh, elems |-> P.elems]
      /\ P.elems = [i \in 1 .. Numel(sh) |-> P.elems[i]]
      /\ \A i \in 1 .. Numel(sh) : P.elems[i] = e(i)
  BY <1>1, <1>4
<1> QED BY <1>3, <1>5 DEF P

LEMMA SliceKeeps ==
  ASSUME Arguments, TypeInv, ChainInv, NEW r \in SliceArgs(L.shape), slice(r)
  PROVE  ChainInv'
<1>1. /\ L \in Layouts /\ L.shape \in Seq(Nat) /\ Len(L.shape) >= 1 /\ LayoutInv
      /\ L.stride \in Seq(Word) /\ Len(L.stride) = Len(L.shape)
  BY DEF TypeInv, LayoutInv, Layouts
<1>2. PICK n \in Nat \ {0} : n = Len(L.shape)
  BY <1>1
<1>3. r \in Seq(Ranges)
  BY <1>1 DEF Arguments
<1> DEFINE sh == SliceShape(r)
           b == SliceBegin(r)
           t == SliceStep(r)
<1>4. \A a \in 1 .. n :
           /\ sh[a] \in Nat /\ b[a] \in Nat /\ t[a] \in Nat \ {0}
           /\ sh[a] # 0 => b[a] + (sh[a] - 1) * t[a] < L.shape[a] /\ sh[a] <= L.shape[a]
           /\ L.shape[a] = 0 => sh[a] = 0
  <2>1. n \in Nat
    OBVIOUS
  <2> QED BY <1>1, <1>2, <1>3, <2>1, SliceFacts
<1>5. DOMAIN L.shape = 1 .. n
  BY <1>1, <1>2
<1>6. DOMAIN sh = 1 .. n /\ sh = [a \in 1 .. n |-> sh[a]] /\ b = [a \in 1 .. n |-> b[a]]
  BY <1>5 DEF SliceShape, SliceBegin
<1>7. SliceOffset(r) = Address(L.stride, b, n)
  <2>1. SliceOffset(r) = Total([a \in DOMAIN sh |-> b[a] * L.stride[a]], Len(sh))
    BY DEF SliceOffset
  <2>2. Len(sh) = n
    BY <1>6
  <2> HIDE DEF sh, b
  <2> QED BY <1>6, <2>1, <2>2 DEF Address
<1>8. /\ L'.shape = sh
      /\ L'.stride = IF SliceBad(r) = {} THEN [a \in DOMAIN sh |-> Wrap(L.stride[a] * t[a])]
                     ELSE poisoned(sh)
      /\ L'.base = Wrap(L.base + SliceOffset(r))
      /\ array' = IF array = Undefined THEN Undefined
                  ELSE IF SliceBad(r) = {} THEN Sliced(array, sh, b, t) ELSE Undefined
  BY SliceParts
<1> HIDE DEF sh, b, t
<1>9. sh \in Seq(Nat) /\ Len(sh) = n
  <2>1. sh \in [1 .. n -> Nat]
    BY <1>4, <1>6
  <2> QED BY <2>1, ArraySeq
<1>10. CASE SliceBad(r) # {}
  BY <1>8, <1>9, <1>10 DEF ChainInv, Poisoned, poisoned
<1>11. CASE \E a \in 1 .. n : sh[a] = 0
  BY <1>8, <1>9, <1>11 DEF ChainInv, Empty
<1>12. CASE SliceBad(r) = {} /\ \A a \in 1 .. n : sh[a] # 0
  <2>1. \A a \in 1 .. n : L'.stride[a] = Wrap(L.stride[a] * t[a])
    BY <1>6, <1>8, <1>12
  <2>2. ~Empty
    BY <1>2, <1>4, <1>12 DEF Empty
  <2>3. CASE Poisoned
    <3>1. CASE \A a \in 1 .. n : L.stride[a] \in {0, POISON}
      <4>1. ASSUME NEW a \in 1 .. n PROVE L'.stride[a] \in {0, POISON}
        <5>1. L'.stride[a] = Wrap(L.stride[a] * t[a]) /\ t[a] \in Int
          BY <1>4, <2>1
        <5>2. L.stride[a] = 0 \/ L.stride[a] = POISON
          BY <3>1
        <5> QED BY <5>1, <5>2, WrapPoison
      <4> QED BY <1>8, <1>9, <4>1 DEF ChainInv, Poisoned
    <3>2. CASE \A a \in 1 .. n : L.shape[a] = 1
      <4>1. ASSUME NEW a \in 1 .. n PROVE sh[a] = 1
        <5>1. sh[a] \in Nat /\ sh[a] # 0 /\ L.shape[a] = 1
          BY <1>4, <1>12, <3>2
        <5>2. sh[a] <= L.shape[a]
          BY <1>4, <5>1
        <5> QED BY <5>1, <5>2
      <4> QED BY <1>8, <1>9, <4>1 DEF ChainInv, Poisoned
    <3> QED BY <1>2, <2>3, <3>1, <3>2 DEF Poisoned
  <2>4. CASE Exact
    <3> DEFINE G == [c \in Box(sh, n) |-> [a \in 1 .. n |-> b[a] + c[a] * t[a]]]
    <3>1. /\ \A a \in 1 .. n : L.shape[a] \in Nat \ {0}
          /\ \A a \in 1 .. n : L.stride[a] \in Int
          /\ array \in Sheets /\ array.shape = L.shape /\ L.base \in Int
          /\ \A c \in Box(L.shape, n) : L.base + Address(L.stride, c, n) \in Elements
          /\ Rising(L.shape, L.stride, n)
      BY <1>1, <1>2, <2>4, ExactFacts
    <3>2. ASSUME NEW c \in Box(sh, n)
          PROVE  /\ G[c] \in Box(L.shape, n)
                 /\ \A a \in 1 .. n : G[c][a] = b[a] + c[a] * t[a]
      <4>1. G[c] = [a \in 1 .. n |-> b[a] + c[a] * t[a]]
        OBVIOUS
      <4>2. ASSUME NEW a \in 1 .. n
            PROVE  b[a] + c[a] * t[a] \in Nat /\ b[a] + c[a] * t[a] < L.shape[a]
        <5>1. c[a] \in Nat /\ c[a] < sh[a]
          BY DEF Box
        <5>2. /\ sh[a] \in Nat /\ b[a] \in Nat /\ t[a] \in Nat /\ L.shape[a] \in Nat
              /\ b[a] + (sh[a] - 1) * t[a] < L.shape[a]
          BY <1>4, <1>12, <3>1
        <5>3. \A x, s, y \in Nat : x < s => 0 <= x * y /\ x * y <= (s - 1) * y /\ (s - 1) * y \in Int
          <6> SUFFICES ASSUME NEW x \in Nat, NEW s \in Nat, NEW y \in Nat, x < s
                       PROVE  0 <= x * y /\ x * y <= (s - 1) * y /\ (s - 1) * y \in Int
            OBVIOUS
          <6>1. ((s - 1) - x) * y >= 0 /\ x * y >= 0
            BY ProductNat, (s - 1) - x \in Int, (s - 1) - x >= 0, y >= 0, x >= 0
          <6>2. ((s - 1) - x) * y = (s - 1) * y - x * y
            OBVIOUS
          <6> QED BY <6>1, <6>2
        <5>4. 0 <= c[a] * t[a] /\ c[a] * t[a] <= (sh[a] - 1) * t[a] /\ (sh[a] - 1) * t[a] \in Int
              /\ c[a] * t[a] \in Int
          BY <5>1, <5>2, <5>3
        <5> QED BY <5>2, <5>4
      <4> HIDE DEF G
      <4>3. G[c] \in [1 .. n -> Nat] /\ \A a \in 1 .. n : G[c][a] = b[a] + c[a] * t[a]
        BY <4>1, <4>2
      <4> QED BY <4>2, <4>3 DEF Box
    <3> DEFINE zero == [a \in 1 .. n |-> 0]
    <3>3. zero \in Box(sh, n)
      BY <1>4, <1>12 DEF Box
    <3>4. G[zero] = b /\ b \in Box(L.shape, n)
      <4>1. \A a \in 1 .. n : b[a] + zero[a] * t[a] = b[a]
        BY <1>4
      <4>2. G[zero] = [a \in 1 .. n |-> b[a] + zero[a] * t[a]]
        BY <3>3
      <4>3. G[zero] = b
        <5> HIDE DEF G, zero
        <5> QED BY <1>6, <4>1, <4>2
      <4> QED BY <3>2, <3>3, <4>3
    <3>5. L'.base = L.base + Address(L.stride, b, n) /\ L'.base \in Int
      <4>1. L.base + Address(L.stride, b, n) \in Elements
        BY <3>1, <3>4
      <4>2. L.base + Address(L.stride, b, n) \in Word /\ L.base + Address(L.stride, b, n) \in Int
        BY <4>1, WordFacts DEF Elements
      <4> QED BY <1>7, <1>8, <4>2, WrapWord
    <3>6. ASSUME NEW a \in 1 .. n, sh[a] # 1 PROVE L'.stride[a] = L.stride[a] * t[a]
      <4> DEFINE one == [k \in 1 .. n |-> IF k = a THEN 1 ELSE 0]
      <4>1. \A k \in 1 .. n : sh[k] \in Nat /\ sh[k] # 0
        BY <1>4, <1>12
      <4>2. one \in Box(sh, n)
        BY <3>6, <4>1 DEF Box
      <4>3. one[a] = 1 /\ \A k \in 1 .. n : k # a => one[k] = 0
        OBVIOUS
      <4> DEFINE d == G[one]
      <4>4. d \in Box(L.shape, n) /\ \A k \in 1 .. n : d[k] = b[k] + one[k] * t[k]
        BY <3>2, <4>2
      <4> HIDE DEF d, one, G, zero
      <4>5. d[a] = b[a] + t[a] /\ \A k \in 1 .. n : k # a => d[k] = b[k]
        BY <1>4, <4>3, <4>4
      <4>6. t[a] \in Nat /\ n \in Nat
        BY <1>4
      <4>7. Wrap(L.stride[a] * t[a]) = L.stride[a] * t[a]
        BY <1>1, <1>2, <2>4, <3>4, <4>4, <4>5, <4>6, StrideExact
      <4> QED BY <2>1, <4>7
    <3> HIDE DEF G, zero
    \* Steps are positive: they keep coordinates apart and strides rising.
    <3>12. Apart(G, Box(sh, n))
      <4> SUFFICES ASSUME NEW c \in Box(sh, n), NEW d \in Box(sh, n), G[c] = G[d] PROVE c = d
        BY DEF Apart
      <4>1. c \in [1 .. n -> Nat] /\ d \in [1 .. n -> Nat]
        BY DEF Box
      <4>2. ASSUME NEW a \in 1 .. n PROVE c[a] = d[a]
        <5>1. b[a] + c[a] * t[a] = b[a] + d[a] * t[a]
          BY <3>2
        <5>2. b[a] \in Nat /\ t[a] \in Nat \ {0} /\ c[a] \in Nat /\ d[a] \in Nat
          BY <1>4, <4>1
        <5>3. \A x, y, z \in Nat, s \in Nat \ {0} : z + x * s = z + y * s => x = y
          <6> SUFFICES ASSUME NEW x \in Nat, NEW y \in Nat, NEW z \in Nat, NEW s \in Nat \ {0},
                              z + x * s = z + y * s
                       PROVE  x = y
            OBVIOUS
          <6>1. x * s \in Int /\ y * s \in Int /\ x * s = y * s
            OBVIOUS
          <6>2. PICK k \in Int : k = x * s /\ k = y * s
            BY <6>1
          <6>3. k = x * s + 0 /\ k = y * s + 0 /\ x \in Int /\ y \in Int /\ 0 \in Int /\ 0 <= 0 /\ 0 < s
            BY <6>2
          <6>4. x = k \div s
            BY <6>3, DivModUnique
          <6>5. y = k \div s
            BY <6>3, DivModUnique
          <6> QED BY <6>4, <6>5
        <5> QED BY <5>1, <5>2, <5>3
      <4> QED BY <4>1, <4>2
    <3>13. Rising(sh, L'.stride, n)
      <4> SUFFICES ASSUME NEW a \in 1 .. n, sh[a] # 1 PROVE L'.stride[a] > 0
        BY DEF Rising
      <4>1. L'.stride[a] = L.stride[a] * t[a] /\ L.stride[a] \in Int /\ t[a] \in Nat \ {0}
        BY <1>4, <3>1, <3>6
      <4>2. L.shape[a] # 1
        BY <1>4, <1>12, <3>1
      <4>3. L.stride[a] > 0
        BY <3>1, <4>2 DEF Rising
      <4>4. \A x \in Int, y \in Nat \ {0} : x > 0 => x * y > 0
        <5> SUFFICES ASSUME NEW x \in Int, NEW y \in Nat \ {0}, x > 0 PROVE x * y > 0
          OBVIOUS
        <5>1. (x - 1) * (y - 1) >= 0
          BY ProductNat, x - 1 \in Int, y - 1 \in Int, x - 1 >= 0, y - 1 >= 0
        <5>2. (x - 1) * (y - 1) = x * y - x - y + 1 /\ x * y \in Int
          OBVIOUS
        <5> QED BY <5>1, <5>2
      <4> QED BY <4>1, <4>3, <4>4
    <3>7. ASSUME NEW c \in Box(sh, n)
          PROVE  L'.base + Address(L'.stride, c, n) = L.base + Address(L.stride, G[c], n)
      <4> DEFINE f == [a \in 1 .. n |-> G[c][a] * L.stride[a]]
                 g == [a \in 1 .. n |-> b[a] * L.stride[a]]
                 h == [a \in 1 .. n |-> c[a] * L'.stride[a]]
      <4>1. c \in [1 .. n -> Nat] /\ \A a \in 1 .. n : c[a] < sh[a]
        BY DEF Box
      <4>2. ASSUME NEW a \in 1 .. n
            PROVE  g[a] \in Int /\ h[a] \in Int /\ f[a] = g[a] + 1 * h[a]
        <5>1. /\ b[a] \in Int /\ L.stride[a] \in Int /\ t[a] \in Int /\ c[a] \in Int /\ sh[a] \in Nat
              /\ G[c][a] = b[a] + c[a] * t[a] /\ c[a] < sh[a] /\ c[a] \in Nat
          BY <1>4, <3>1, <3>2, <4>1
        <5>2. /\ f[a] = (b[a] + c[a] * t[a]) * L.stride[a] /\ g[a] = b[a] * L.stride[a]
              /\ h[a] = c[a] * L'.stride[a]
          BY <5>1
        <5> HIDE DEF f, g, h
        <5>3. h[a] = (c[a] * t[a]) * L.stride[a]
          <6>1. CASE sh[a] = 1
            <7>1. c[a] = 0 /\ L'.stride[a] \in Int
              <8>1. L'.stride[a] = Wrap(L.stride[a] * t[a])
                BY <2>1
              <8>2. L.stride[a] * t[a] \in Int
                BY <5>1
              <8>3. L'.stride[a] \in Word
                BY <8>1, <8>2, WrapWord
              <8> QED BY <5>1, <6>1, <8>3, WordFacts
            <7> QED BY <5>1, <5>2, <7>1
          <6>2. CASE sh[a] # 1
            <7>1. L'.stride[a] = L.stride[a] * t[a]
              BY <3>6, <6>2
            <7> QED BY <5>1, <5>2, <7>1
          <6> QED BY <6>1, <6>2
        <5> QED BY <5>1, <5>2, <5>3
      <4>3. /\ Address(L'.stride, c, n) = Total(h, n) /\ Address(L.stride, G[c], n) = Total(f, n)
            /\ Address(L.stride, b, n) = Total(g, n)
        BY DEF Address
      <4> HIDE DEF f, g, h
      <4>4. Total(f, n) = Total(g, n) + 1 * Total(h, n)
        BY <4>2, TotalLinear, 1 \in Int
      <4>5. Total(g, n) \in Int /\ Total(h, n) \in Int
        BY <4>2, TotalStep
      <4> QED BY <3>1, <3>5, <4>3, <4>4, <4>5
    <3>8. array' = Sliced(array, sh, b, t)
      <4>1. array # Undefined
        BY <3>1 DEF Arguments, Sheets
      <4> QED BY <1>8, <1>12, <4>1
    <3>9. /\ array'.shape = sh
          /\ array' = [shape |-> sh, elems |-> array'.elems]
          /\ array'.elems = [i \in 1 .. Numel(sh) |-> array'.elems[i]]
          /\ \A i \in 1 .. Numel(sh) :
               array'.elems[i] =
                 array.elems[Position(array.shape, Onto(sh, b, t, Coords(sh, i - 1))) + 1]
      BY <3>8, SlicedParts
    <3>10. ASSUME NEW i \in 1 .. Numel(sh)
           PROVE  array'.elems[i] = array.elems[Place(L.shape, G[Coords(sh, i - 1)], n) + 1]
      <4>1. Numel(sh) = Extent(sh, 1, n) /\ Extent(sh, 1, n) \in Nat
        <5>1. \A a \in 1 .. n : sh[a] \in Nat
          BY <1>9
        <5>2. Extent(sh, 1, n) \in Nat
          BY <5>1, ExtentNat, 1 \in Nat \ {0}
        <5> QED BY <1>9, <5>2, CoordsDigits
      <4>2. i - 1 \in Nat /\ i - 1 < Extent(sh, 1, n)
        BY <4>1
      <4>3. Coords(sh, i - 1) \in Box(sh, n)
        BY <1>9, <1>12, <4>2, CoordsPlace
      <4>4. G[Coords(sh, i - 1)] = Onto(sh, b, t, Coords(sh, i - 1))
        BY <1>6, <4>3 DEF G, Onto
      <4>5. Position(L.shape, G[Coords(sh, i - 1)]) = Place(L.shape, G[Coords(sh, i - 1)], n)
        BY <1>1, <1>2, CoordsDigits
      <4>6. array'.elems[i] = array.elems[Position(array.shape, G[Coords(sh, i - 1)]) + 1]
        BY <3>9, <4>4
      <4> QED BY <3>1, <4>5, <4>6
    <3>11. Exact'
      <4>1. L'.shape = sh /\ L'.shape \in Seq(Nat) /\ Len(L'.shape) = Len(L.shape)
        BY <1>2, <1>8, <1>9
      <4>2. \A a \in 1 .. Len(L.shape) : L'.shape[a] # 0
        BY <1>2, <1>12, <4>1
      <4>3. \A c \in Box(L'.shape, Len(L.shape)) : G[c] \in Box(L.shape, Len(L.shape))
        BY <1>2, <3>2, <4>1
      <4>4. /\ array'.elems = [i \in 1 .. Numel(L'.shape) |-> array'.elems[i]]
            /\ array'.shape = L'.shape
            /\ array' = [shape |-> array'.shape, elems |-> array'.elems]
        BY <3>9, <4>1
      <4>5. \A i \in 1 .. Numel(L'.shape) :
              array'.elems[i]
                = array.elems[Place(L.shape, G[Coords(L'.shape, i - 1)], Len(L.shape)) + 1]
        BY <1>2, <3>10, <4>1
      <4>6. \A c \in Box(L'.shape, Len(L.shape)) :
              L'.base + Address(L'.stride, c, Len(L.shape))
                = L.base + Address(L.stride, G[c], Len(L.shape))
        BY <1>2, <3>7, <4>1
      <4>7. Rising(L'.shape, L'.stride, Len(L.shape)) /\ Apart(G, Box(L'.shape, Len(L.shape)))
        BY <1>2, <3>12, <3>13, <4>1
      <4> QED BY <1>1, <2>4, <4>1, <4>2, <4>3, <4>4, <4>5, <4>6, <4>7, PickedExact, Zenon
    <3> QED BY <3>11 DEF ChainInv
  <2> QED BY <2>2, <2>3, <2>4 DEF ChainInv
<1> QED BY <1>10, <1>11, <1>12

LEMMA SplitAxis ==
  ASSUME NEW n \in Nat, NEW s, n = Len(s), NEW j \in 1 .. n, NEW outer, NEW inner
  PROVE  /\ \A k \in 1 .. n : k < j => Split(s, j, outer, inner)[k] = s[k]
         /\ Split(s, j, outer, inner)[j] = outer
         /\ Split(s, j, outer, inner)[j + 1] = inner
         /\ \A k \in 1 .. n : k > j => Split(s, j, outer, inner)[k + 1] = s[k]
<1>1. Split(s, j, outer, inner) =
        [a \in 1 .. n + 1 |->
           IF a < j THEN s[a]
           ELSE IF a = j THEN outer ELSE IF a = j + 1 THEN inner ELSE s[a - 1]]
  BY DEF Split
<1>2. j \in 1 .. n + 1 /\ j + 1 \in 1 .. n + 1
  OBVIOUS
<1>3. ASSUME NEW k \in 1 .. n, k > j
      PROVE  k + 1 \in 1 .. n + 1 /\ ~(k + 1 < j) /\ k + 1 # j /\ k + 1 # j + 1 /\ (k + 1) - 1 = k
  BY <1>3
<1>4. ASSUME NEW k \in 1 .. n, k > j PROVE Split(s, j, outer, inner)[k + 1] = s[k]
  <2>1. Split(s, j, outer, inner)[k + 1] = s[(k + 1) - 1]
    BY <1>1, <1>3, <1>4
  <2> QED BY <1>3, <1>4, <2>1
<1>5. \A k \in 1 .. n : k < j => Split(s, j, outer, inner)[k] = s[k]
  BY <1>1
<1>6. Split(s, j, outer, inner)[j] = outer /\ Split(s, j, outer, inner)[j + 1] = inner
  BY <1>1, <1>2
<1> QED BY <1>4, <1>5, <1>6

LEMMA FoldParts ==
  ASSUME LayoutInv, NEW axis \in Int, fold(axis), FoldValid(axis)
  PROVE  /\ L'.shape = Split(L.shape, axis, L.shape[axis] \div TILE, TILE)
         /\ L'.stride = Split(L.stride, axis, Wrap(L.stride[axis] * TILE), L.stride[axis])
         /\ L'.base = L.base
         /\ array' = IF array = Undefined THEN Undefined ELSE Reshaped(array, L'.shape)
BY DEF fold, Fold, LayoutInv, Layouts

LEMMA FoldKeeps ==
  ASSUME Arguments, TypeInv, ChainInv, NEW axis \in Int, fold(axis)
  PROVE  ChainInv'
<1>1. /\ L \in Layouts /\ L.shape \in Seq(Nat) /\ Len(L.shape) >= 1 /\ LayoutInv
      /\ L.stride \in Seq(Word) /\ Len(L.stride) = Len(L.shape)
  BY DEF TypeInv, LayoutInv, Layouts
<1>2. PICK n \in Nat \ {0} : n = Len(L.shape)
  BY <1>1
<1>3. CASE ~FoldValid(axis)
  <2>1. L'.shape = L.shape /\ L'.stride = poisoned(L.shape)
    BY <1>1, <1>3 DEF fold, Fold, Layouts
  <2> QED BY <1>1, <2>1 DEF ChainInv, Poisoned, poisoned
<1>4. CASE FoldValid(axis)
  <2>1. axis \in 1 .. n /\ L.shape[axis] % TILE = 0
    BY <1>1, <1>2, <1>4 DEF FoldValid
  <2> DEFINE sh == L'.shape
             st == L'.stride
             o == L.shape[axis] \div TILE
             w == Wrap(L.stride[axis] * TILE)
  <2>2. /\ sh = Split(L.shape, axis, o, TILE) /\ st = Split(L.stride, axis, w, L.stride[axis])
        /\ L'.base = L.base
        /\ array' = IF array = Undefined THEN Undefined ELSE Reshaped(array, sh)
    BY <1>1, <1>4, FoldParts
  <2>3. /\ \A k \in 1 .. n : k < axis => sh[k] = L.shape[k]
        /\ sh[axis] = o /\ sh[axis + 1] = TILE
        /\ \A k \in 1 .. n : k > axis => sh[k + 1] = L.shape[k]
    <3>1. n \in Nat /\ n = Len(L.shape)
      BY <1>2
    <3> HIDE DEF sh, o
    <3> QED BY <2>1, <2>2, <3>1, SplitAxis
  <2>4. /\ \A k \in 1 .. n : k < axis => st[k] = L.stride[k]
        /\ st[axis] = w /\ st[axis + 1] = L.stride[axis]
        /\ \A k \in 1 .. n : k > axis => st[k + 1] = L.stride[k]
    <3>1. n \in Nat /\ n = Len(L.stride)
      BY <1>1, <1>2
    <3> HIDE DEF st, w
    <3> QED BY <2>1, <2>2, <3>1, SplitAxis
  <2>5. LayoutInv'
    BY TypeFold
  <2>6. sh \in Seq(Nat) /\ Len(sh) = n + 1
    <3>1. o \in Nat
      <4>1. L.shape[axis] \in Nat /\ TILE \in Nat \ {0}
        BY <1>1, <1>2, <2>1, TileFacts
      <4> QED BY <4>1
    <3>2. TILE \in Nat /\ axis \in 1 .. Len(L.shape)
      BY <1>2, <2>1, TileFacts
    <3> HIDE DEF sh, o
    <3>3. Split(L.shape, axis, o, TILE) \in {x \in Seq(Nat) : Len(x) = Len(L.shape) + 1}
      BY <1>1, <3>1, <3>2, SplitSeq, Zenon
    <3> QED BY <1>2, <2>2, <3>3
  <2>7. L.shape[axis] \in Nat /\ o \in Nat /\ L.shape[axis] = o * TILE
    <3>1. L.shape[axis] \in Nat /\ TILE \in Nat \ {0}
      BY <1>1, <1>2, <2>1, TileFacts
    <3>2. o \in Nat
      BY <3>1
    <3> DEFINE x == L.shape[axis]
    <3>3. x \in Int /\ x % TILE = 0
      BY <2>1, <3>1
    <3> HIDE DEF x
    <3>4. x = (x \div TILE) * TILE + (x % TILE) /\ x \div TILE \in Int
      BY <3>1, <3>3, DivModFloor
    <3>5. x = (x \div TILE) * TILE
      BY <3>1, <3>3, <3>4
    <3> QED BY <3>1, <3>2, <3>5 DEF x
  <2> DEFINE N == n + 1
  <2>8. N \in Nat \ {0} /\ axis \in 1 .. N /\ axis + 1 \in 1 .. N /\ N = Len(sh) /\ Len(sh) = n + 1
    BY <2>1, <2>6
  \* Every axis of the result is one of the two parts or an axis carried over.
  <2>9. ASSUME NEW k \in 1 .. N
        PROVE  \/ k = axis \/ k = axis + 1
               \/ k \in 1 .. n /\ k < axis
               \/ \E m \in 1 .. n : m > axis /\ k = m + 1
    <3>1. CASE k > axis + 1
      <4>1. k - 1 \in 1 .. n /\ k - 1 > axis /\ k = (k - 1) + 1
        BY <2>1, <3>1
      <4> QED BY <4>1
    <3>2. CASE k < axis
      BY <2>1, <3>2
    <3> QED BY <2>1, <3>1, <3>2
  <2> HIDE DEF sh, st, o, w, N
  <2>10. CASE Empty
    <3>1. PICK k \in 1 .. n : L.shape[k] = 0
      BY <1>2, <2>10 DEF Empty
    <3>2. CASE k < axis
      <4>1. sh[k] = 0 /\ k \in 1 .. n + 1
        BY <2>3, <3>1, <3>2
      <4> QED BY <2>6, <4>1 DEF ChainInv, Empty, sh
    <3>3. CASE k > axis
      <4>1. sh[k + 1] = 0 /\ k + 1 \in 1 .. n + 1
        BY <2>3, <3>1, <3>3
      <4> QED BY <2>6, <4>1 DEF ChainInv, Empty, sh
    <3>4. CASE k = axis
      <4>1. o * TILE = 0 /\ TILE \in Nat \ {0} /\ o \in Nat
        BY <2>7, <3>1, <3>4, TileFacts
      <4>2. o = 0
        BY <4>1
      <4>3. sh[axis] = 0 /\ axis \in 1 .. n + 1
        BY <2>1, <2>3, <4>2
      <4> QED BY <2>6, <4>3 DEF ChainInv, Empty, sh
    <3> QED BY <2>1, <3>2, <3>3, <3>4
  <2>11. CASE Poisoned
    <3>1. CASE \A a \in 1 .. n : L.stride[a] \in {0, POISON}
      <4>1. w \in {0, POISON}
        <5>1. L.stride[axis] = 0 \/ L.stride[axis] = POISON
          BY <2>1, <3>1
        <5>2. TILE \in Int
          BY TileFacts
        <5> QED BY <5>1, <5>2, WrapPoison DEF w
      <4>2. ASSUME NEW k \in 1 .. N PROVE st[k] \in {0, POISON}
        <5>1. CASE k = axis
          BY <2>4, <4>1, <5>1
        <5>2. CASE k = axis + 1
          BY <2>1, <2>4, <3>1, <5>2
        <5>3. CASE k \in 1 .. n /\ k < axis
          BY <2>4, <3>1, <5>3
        <5>4. CASE \E m \in 1 .. n : m > axis /\ k = m + 1
          BY <2>4, <3>1, <5>4
        <5> QED BY <2>9, <5>1, <5>2, <5>3, <5>4
      <4> QED BY <2>8, <4>2 DEF ChainInv, Poisoned, sh, st
    <3>2. CASE \A a \in 1 .. n : L.shape[a] = 1
      <4>1. 1 % TILE = 0 /\ TILE \in Nat /\ TILE >= 2
        BY <2>1, <3>2, TileFacts
      <4> QED BY <4>1
    <3> QED BY <1>2, <2>11, <3>1, <3>2 DEF Poisoned
  <2>12. CASE Exact
    <3>1. /\ \A a \in 1 .. n : L.shape[a] \in Nat \ {0}
          /\ \A a \in 1 .. n : L.stride[a] \in Int
          /\ array \in Sheets /\ Len(array.elems) = Extent(L.shape, 1, n)
          /\ \A c \in Box(L.shape, n) :
               /\ L.base + Address(L.stride, c, n) \in Elements
               /\ array.elems[Place(L.shape, c, n) + 1] = L.base + Address(L.stride, c, n)
          /\ Rising(L.shape, L.stride, n) /\ Distinct(array.elems, Extent(L.shape, 1, n))
      BY <1>1, <1>2, <2>12, ExactFacts
    <3>2. o # 0 /\ TILE \in Nat \ {0}
      <4>1. o * TILE # 0 /\ TILE \in Int
        BY <2>1, <2>7, <3>1, TileFacts
      <4> QED BY <4>1, TileFacts
    <3>3. ASSUME NEW k \in 1 .. N PROVE sh[k] \in Nat \ {0} /\ sh[k] \in Int
      <4>1. CASE k = axis
        BY <2>3, <2>7, <3>2, <4>1
      <4>2. CASE k = axis + 1
        BY <2>3, <3>2, <4>2
      <4>3. CASE k \in 1 .. n /\ k < axis
        BY <2>3, <3>1, <4>3
      <4>4. CASE \E m \in 1 .. n : m > axis /\ k = m + 1
        <5>1. PICK m \in 1 .. n : m > axis /\ k = m + 1
          BY <4>4
        <5>2. sh[k] = L.shape[m] /\ L.shape[m] \in Nat \ {0}
          BY <2>3, <3>1, <5>1
        <5> QED BY <5>2
      <4> QED BY <2>9, <4>1, <4>2, <4>3, <4>4
    <3>4. /\ \A a \in 1 .. axis : Extent(sh, a, N) = Extent(L.shape, a, n)
          /\ \A a \in axis + 1 .. N : Extent(sh, a + 1, N) = Extent(L.shape, a, n)
      <4>1. L.shape[axis] = sh[axis] * sh[axis + 1]
        BY <2>3, <2>7
      <4>2. \A k \in 1 .. n + 1 : sh[k] \in Int
        BY <3>3 DEF N
      <4>3. \A k \in 1 .. n : k < axis => L.shape[k] = sh[k]
        BY <2>3
      <4>4. \A k \in 1 .. n : k > axis => L.shape[k] = sh[k + 1]
        BY <2>3
      <4>5. n \in Nat /\ axis \in 1 .. n
        BY <2>1
      <4>6. ProductMerged(L.shape, sh, n, axis)
        BY <4>1, <4>2, <4>3, <4>4 DEF ProductMerged
      <4>7. \A a \in 1 .. axis : Extent(sh, a, n + 1) = Extent(L.shape, a, n)
        BY <4>5, <4>6, ExtentMerged
      <4>8. \A a \in axis + 1 .. n + 1 : Extent(sh, a + 1, n + 1) = Extent(L.shape, a, n)
        BY <4>5, <4>6, ExtentMerged
      <4> QED BY <4>7, <4>8 DEF N
    <3>5. \A a \in 1 .. N : Extent(sh, a + 1, N) \in Int
      <4>1. ASSUME NEW a \in 1 .. N PROVE Extent(sh, a + 1, N) \in Int
        <5>1. N \in Nat /\ a + 1 \in Nat \ {0} /\ \A k \in a + 1 .. N : sh[k] \in Int
          BY <2>8, <3>3
        <5> QED BY <5>1, ExtentStep
      <4> QED BY <4>1
    <3>6. \A a \in 1 .. n : Extent(L.shape, a + 1, n) \in Int
      <4>1. ASSUME NEW a \in 1 .. n PROVE Extent(L.shape, a + 1, n) \in Int
        <5>1. n \in Nat /\ a + 1 \in Nat \ {0} /\ \A k \in a + 1 .. n : L.shape[k] \in Int
          BY <3>1
        <5> QED BY <5>1, ExtentStep
      <4> QED BY <4>1
    \* The coordinates of the array that a coordinate of the result stands for.
    <3> DEFINE old(c) == [k \in 1 .. n |-> IF k < axis THEN c[k]
                                           ELSE IF k = axis THEN c[axis] * TILE + c[axis + 1]
                                           ELSE c[k + 1]]
    <3>7. ASSUME NEW c \in Box(sh, N)
          PROVE  /\ \A k \in 1 .. N : c[k] \in Nat /\ c[k] < sh[k]
                 /\ old(c) \in Box(L.shape, n)
                 /\ \A k \in 1 .. n : k < axis => old(c)[k] = c[k]
                 /\ old(c)[axis] = c[axis] * TILE + c[axis + 1]
                 /\ \A k \in 1 .. n : k > axis => old(c)[k] = c[k + 1]
      <4>1. \A k \in 1 .. N : c[k] \in Nat /\ c[k] < sh[k]
        BY DEF Box
      <4>2. /\ \A k \in 1 .. n : k < axis => old(c)[k] = c[k]
            /\ old(c)[axis] = c[axis] * TILE + c[axis + 1]
            /\ \A k \in 1 .. n : k > axis => old(c)[k] = c[k + 1]
            /\ old(c) = [k \in 1 .. n |-> old(c)[k]]
        BY <2>1
      <4> HIDE DEF old
      <4>3. ASSUME NEW k \in 1 .. n PROVE old(c)[k] \in Nat /\ old(c)[k] < L.shape[k]
        <5>1. CASE k < axis
          <6>1. k \in 1 .. N
            BY DEF N
          <6> QED BY <2>3, <4>1, <4>2, <5>1, <6>1
        <5>2. CASE k > axis
          <6>1. k + 1 \in 1 .. N
            BY DEF N
          <6> QED BY <2>3, <4>1, <4>2, <5>2, <6>1
        <5>3. CASE k = axis
          <6>1. c[axis] \in Nat /\ c[axis] < o /\ c[axis + 1] \in Nat /\ c[axis + 1] < TILE
            BY <2>3, <2>8, <4>1
          <6>2. \A x, y, p, t \in Nat : x < p /\ y < t => x * t + y \in Nat /\ x * t + y < p * t
            <7> SUFFICES ASSUME NEW x \in Nat, NEW y \in Nat, NEW p \in Nat, NEW t \in Nat,
                                x < p, y < t
                         PROVE  x * t + y \in Nat /\ x * t + y < p * t
              OBVIOUS
            <7>1. (p - 1 - x) * t >= 0 /\ x * t >= 0
              BY ProductNat, p - 1 - x \in Int, p - 1 - x >= 0, t >= 0, x >= 0
            <7>2. (p - 1 - x) * t = p * t - t - x * t
              OBVIOUS
            <7>3. x * t \in Int /\ p * t \in Int
              OBVIOUS
            <7> QED BY <7>1, <7>2, <7>3
          <6>3. c[axis] * TILE + c[axis + 1] \in Nat /\ c[axis] * TILE + c[axis + 1] < o * TILE
            BY <2>7, <3>2, <6>1, <6>2
          <6> QED BY <2>7, <4>2, <5>3, <6>3
        <5> QED BY <2>1, <5>1, <5>2, <5>3
      <4>4. old(c) \in Box(L.shape, n)
        BY <4>2, <4>3 DEF Box
      <4> QED BY <4>1, <4>2, <4>4
    <3> HIDE DEF old
    <3>8. ASSUME NEW c \in Box(sh, N) PROVE Place(sh, c, N) = Place(L.shape, old(c), n)
      <4> DEFINE f == [a \in 1 .. n |-> old(c)[a] * Extent(L.shape, a + 1, n)]
                 g == [a \in 1 .. N |-> c[a] * Extent(sh, a + 1, N)]
      <4>1. ASSUME NEW k \in 1 .. N PROVE g[k] \in Int /\ g[k] = c[k] * Extent(sh, k + 1, N)
        <5>1. c[k] \in Int /\ Extent(sh, k + 1, N) \in Int
          BY <3>5, <3>7
        <5> QED BY <5>1
      <4>2. ASSUME NEW k \in 1 .. n PROVE f[k] = old(c)[k] * Extent(L.shape, k + 1, n)
        OBVIOUS
      <4>3. Place(L.shape, old(c), n) = Total(f, n) /\ Place(sh, c, N) = Total(g, N)
        BY DEF Place
      <4> HIDE DEF f, g
      <4>4. ASSUME NEW k \in 1 .. n, k < axis PROVE f[k] = g[k]
        <5>1. k + 1 \in 1 .. axis /\ k \in 1 .. N
          BY <2>1, <4>4 DEF N
        <5>2. Extent(sh, k + 1, N) = Extent(L.shape, k + 1, n)
          BY <3>4, <5>1
        <5> QED BY <3>7, <4>1, <4>2, <4>4, <5>1, <5>2
      <4>5. ASSUME NEW k \in 1 .. n, k > axis PROVE f[k] = g[k + 1]
        <5>1. k + 1 \in axis + 1 .. N /\ k + 1 \in 1 .. N
          BY <2>1, <4>5 DEF N
        <5>2. Extent(sh, (k + 1) + 1, N) = Extent(L.shape, k + 1, n)
          BY <3>4, <5>1
        <5> QED BY <3>7, <4>1, <4>2, <4>5, <5>1, <5>2
      <4>6. f[axis] = g[axis] + g[axis + 1]
        <5> DEFINE e == Extent(L.shape, axis + 1, n)
        <5>1. axis + 1 \in axis + 1 .. N
          BY <2>8
        <5>2. Extent(sh, (axis + 1) + 1, N) = e
          BY <3>4, <5>1
        <5>3. Extent(sh, axis + 1, N) = sh[axis + 1] * Extent(sh, (axis + 1) + 1, N)
          <6>1. axis + 1 \in Nat \ {0} /\ N \in Nat /\ axis + 1 <= N
                /\ \A k \in axis + 1 .. N : sh[k] \in Int
            BY <2>1, <2>8, <3>3
          <6> QED BY <6>1, ExtentFirst
        <5>4. Extent(sh, axis + 1, N) = TILE * e
          BY <2>3, <5>2, <5>3
        <5>5. e \in Int /\ c[axis] \in Int /\ c[axis + 1] \in Int /\ TILE \in Int
          BY <2>1, <2>8, <3>2, <3>6, <3>7
        <5>6. /\ g[axis] = c[axis] * (TILE * e) /\ g[axis + 1] = c[axis + 1] * e
              /\ f[axis] = (c[axis] * TILE + c[axis + 1]) * e
          BY <2>1, <2>8, <3>7, <4>1, <4>2, <5>2, <5>4
        <5> HIDE DEF e
        <5> QED BY <5>5, <5>6
      <4>7. \A k \in 1 .. n + 1 : g[k] \in Int
        BY <4>1 DEF N
      <4>8. Total(f, n) = Total(g, n + 1)
        <5>1. SumMerged(f, g, n, axis)
          BY <4>4, <4>5, <4>6, <4>7 DEF SumMerged
        <5>2. n \in Nat /\ axis \in 1 .. n
          BY <2>1
        <5> QED BY <5>1, <5>2, TotalMerged
      <4> QED BY <4>3, <4>8 DEF N
    \* The stride of the outer part wraps only where no coordinate uses it.
    <3>9. o # 1 => w = L.stride[axis] * TILE
      <4> SUFFICES ASSUME o # 1 PROVE w = L.stride[axis] * TILE
        OBVIOUS
      <4> DEFINE zero == [k \in 1 .. n |-> 0]
                 tile == [k \in 1 .. n |-> IF k = axis THEN TILE ELSE 0]
      <4>1. zero \in Box(L.shape, n)
        BY <3>1 DEF Box
      <4>2. TILE < L.shape[axis]
        <5>1. o >= 2 /\ o \in Nat /\ TILE \in Nat \ {0}
          BY <2>7, <3>2
        <5>2. (o - 2) * TILE >= 0
          BY <5>1, ProductNat, o - 2 \in Int, o - 2 >= 0, TILE >= 0, TILE \in Int
        <5>3. (o - 2) * TILE = o * TILE - TILE - TILE /\ o * TILE \in Int
          BY <5>1
        <5> QED BY <2>7, <5>1, <5>2, <5>3
      <4>3. tile \in Box(L.shape, n)
        BY <3>1, <3>2, <4>2 DEF Box
      <4>4. tile[axis] = zero[axis] + TILE /\ \A k \in 1 .. n : k # axis => tile[k] = zero[k]
        BY <2>1, <3>2
      <4> HIDE DEF zero, tile
      <4>5. Wrap(L.stride[axis] * TILE) = L.stride[axis] * TILE
        <5>1. n \in Nat /\ TILE \in Nat
          BY <3>2
        <5> QED BY <1>1, <1>2, <2>1, <2>12, <4>1, <4>3, <4>4, <5>1, StrideExact
      <4> QED BY <4>5 DEF w
    <3>10. w \in Int
      <4>1. L.stride[axis] * TILE \in Int
        BY <2>1, <3>1, <3>2
      <4> QED BY <4>1, WrapWord, WordFacts DEF w
    <3>11. ASSUME NEW c \in Box(sh, N) PROVE Address(st, c, N) = Address(L.stride, old(c), n)
      <4> DEFINE f == [a \in 1 .. n |-> old(c)[a] * L.stride[a]]
                 g == [a \in 1 .. N |-> c[a] * st[a]]
      <4>1. ASSUME NEW k \in 1 .. N PROVE g[k] = c[k] * st[k]
        OBVIOUS
      <4>2. ASSUME NEW k \in 1 .. n PROVE f[k] = old(c)[k] * L.stride[k]
        OBVIOUS
      <4>3. Address(L.stride, old(c), n) = Total(f, n) /\ Address(st, c, N) = Total(g, N)
        BY DEF Address
      <4> HIDE DEF f, g
      <4>4. ASSUME NEW k \in 1 .. n, k < axis PROVE f[k] = g[k] /\ g[k] \in Int
        <5>1. k \in 1 .. N /\ st[k] = L.stride[k] /\ L.stride[k] \in Int
          BY <2>4, <3>1, <4>4 DEF N
        <5>2. old(c)[k] = c[k] /\ c[k] \in Int
          BY <3>7, <4>4, <5>1
        <5> QED BY <4>1, <4>2, <5>1, <5>2
      <4>5. ASSUME NEW k \in 1 .. n, k > axis PROVE f[k] = g[k + 1] /\ g[k + 1] \in Int
        <5>1. k + 1 \in 1 .. N /\ st[k + 1] = L.stride[k] /\ L.stride[k] \in Int
          BY <2>4, <3>1, <4>5 DEF N
        <5>2. old(c)[k] = c[k + 1] /\ c[k + 1] \in Int
          BY <3>7, <4>5, <5>1
        <5> QED BY <4>1, <4>2, <5>1, <5>2
      <4>6. f[axis] = g[axis] + g[axis + 1] /\ g[axis] \in Int /\ g[axis + 1] \in Int
        <5>1. /\ g[axis] = c[axis] * w /\ g[axis + 1] = c[axis + 1] * L.stride[axis]
              /\ f[axis] = (c[axis] * TILE + c[axis + 1]) * L.stride[axis]
          BY <2>1, <2>4, <2>8, <3>7, <4>1, <4>2
        <5>2. /\ L.stride[axis] \in Int /\ TILE \in Int /\ c[axis] \in Nat /\ c[axis + 1] \in Int
              /\ c[axis] < o
          BY <2>1, <2>3, <2>8, <3>1, <3>2, <3>7
        <5>3. c[axis] * w = c[axis] * (L.stride[axis] * TILE)
          <6>1. CASE o = 1
            <7>1. c[axis] = 0
              BY <5>2, <6>1
            <7> QED BY <3>10, <5>2, <7>1
          <6>2. CASE o # 1
            BY <3>9, <6>2
          <6> QED BY <6>1, <6>2
        <5>4. g[axis] \in Int /\ g[axis + 1] \in Int
          BY <3>10, <5>1, <5>2
        <5>5. f[axis] = c[axis] * (L.stride[axis] * TILE) + c[axis + 1] * L.stride[axis]
          BY <5>1, <5>2
        <5> QED BY <5>1, <5>3, <5>4, <5>5
      <4>7. ASSUME NEW k \in 1 .. n + 1 PROVE g[k] \in Int
        <5>1. k \in 1 .. N
          BY DEF N
        <5> QED BY <2>9, <4>4, <4>5, <4>6, <5>1
      <4>8. Total(f, n) = Total(g, n + 1)
        <5>1. \A k \in 1 .. n : k < axis => f[k] = g[k]
          BY <4>4
        <5>2. \A k \in 1 .. n : k > axis => f[k] = g[k + 1]
          BY <4>5
        <5>3. f[axis] = g[axis] + g[axis + 1]
          BY <4>6
        <5>4. \A k \in 1 .. n + 1 : g[k] \in Int
          BY <4>7
        <5>5. n \in Nat /\ axis \in 1 .. n
          BY <2>1
        <5>6. SumMerged(f, g, n, axis)
          BY <5>1, <5>2, <5>3, <5>4 DEF SumMerged
        <5> QED BY <5>5, <5>6, TotalMerged
      <4> QED BY <4>3, <4>8 DEF N
    <3>12. array' = [shape |-> sh, elems |-> array.elems]
      <4>1. array # Undefined
        BY <3>1 DEF Arguments, Sheets
      <4> QED BY <2>2, <4>1 DEF Reshaped
    <3>13. array' \in Sheets /\ array'.shape = sh /\ array'.elems = array.elems
      BY <2>6, <3>1, <3>12 DEF Sheets
    <3>14. Extent(sh, 1, N) = Extent(L.shape, 1, n)
      BY <2>1, <3>4
    <3>15. ASSUME NEW c \in Box(sh, N)
           PROVE  /\ L'.base + Address(st, c, N) \in Elements
                  /\ array'.elems[Place(sh, c, N) + 1] = L'.base + Address(st, c, N)
      BY <2>2, <3>1, <3>7, <3>8, <3>11, <3>13
    <3>16. \A a \in 1 .. N : sh[a] # 0
      BY <3>3
    \* Both parts of the split axis rise: it had a whole tile of elements.
    <3>18. Rising(sh, st, N)
      <4> SUFFICES ASSUME NEW k \in 1 .. N, sh[k] # 1 PROVE st[k] > 0
        BY DEF Rising
      <4>0. \A a \in 1 .. n : L.shape[a] # 1 => L.stride[a] > 0
        BY <3>1 DEF Rising
      <4>1. L.stride[axis] > 0 /\ L.stride[axis] \in Int /\ TILE \in Nat \ {0}
        <5>1. \A x, y \in Nat : x # 0 /\ y >= 2 => x * y # 1
          <6> SUFFICES ASSUME NEW x \in Nat, NEW y \in Nat, x # 0, y >= 2 PROVE x * y # 1
            OBVIOUS
          <6>1. (x - 1) * (y - 1) >= 0
            BY ProductNat, x - 1 \in Int, y - 1 \in Int, x - 1 >= 0, y - 1 >= 0
          <6>2. (x - 1) * (y - 1) = x * y - x - y + 1 /\ x * y \in Int
            OBVIOUS
          <6> QED BY <6>1, <6>2
        <5>2. TILE \in Nat \ {0} /\ TILE >= 2
          BY TileFacts
        <5>3. L.shape[axis] # 1
          BY <2>7, <3>2, <5>1, <5>2
        <5> QED BY <2>1, <3>1, <4>0, <5>2, <5>3
      <4>2. CASE k = axis
        <5>1. w = L.stride[axis] * TILE
          BY <2>3, <3>9, <4>2
        <5>2. \A x \in Int, y \in Nat \ {0} : x > 0 => x * y > 0
          <6> SUFFICES ASSUME NEW x \in Int, NEW y \in Nat \ {0}, x > 0 PROVE x * y > 0
            OBVIOUS
          <6>1. (x - 1) * (y - 1) >= 0
            BY ProductNat, x - 1 \in Int, y - 1 \in Int, x - 1 >= 0, y - 1 >= 0
          <6>2. (x - 1) * (y - 1) = x * y - x - y + 1 /\ x * y \in Int
            OBVIOUS
          <6> QED BY <6>1, <6>2
        <5>3. L.stride[axis] * TILE > 0
          BY <4>1, <5>2
        <5> QED BY <2>4, <4>2, <5>1, <5>3
      <4>3. CASE k = axis + 1
        BY <2>4, <4>1, <4>3
      <4>4. CASE k \in 1 .. n /\ k < axis
        BY <2>3, <2>4, <4>0, <4>4
      <4>5. CASE \E m \in 1 .. n : m > axis /\ k = m + 1
        BY <2>3, <2>4, <4>0, <4>5
      <4> QED BY <2>9, <4>2, <4>3, <4>4, <4>5
    <3>17. Exact'
      <4>3. /\ Rising(L'.shape, L'.stride, Len(L'.shape))
            /\ Distinct(array'.elems, Extent(L'.shape, 1, Len(L'.shape)))
        BY <2>8, <3>1, <3>13, <3>14, <3>18 DEF sh, st
      <4>1. /\ \A a \in 1 .. Len(L'.shape) : L'.shape[a] # 0
            /\ array' \in Sheets /\ array'.shape = L'.shape
            /\ Len(array'.elems) = Extent(L'.shape, 1, Len(L'.shape))
        BY <2>8, <3>1, <3>13, <3>14, <3>16 DEF sh
      <4>2. \A c \in Box(L'.shape, Len(L'.shape)) :
              /\ L'.base + Address(L'.stride, c, Len(L'.shape)) \in Elements
              /\ array'.elems[Place(L'.shape, c, Len(L'.shape)) + 1]
                   = L'.base + Address(L'.stride, c, Len(L'.shape))
        BY <2>8, <3>15 DEF sh, st
      <4> QED BY <4>1, <4>2, <4>3 DEF Exact
    <3> QED BY <3>17 DEF ChainInv
  <2> QED BY <2>10, <2>11, <2>12 DEF ChainInv
<1> QED BY <1>3, <1>4

LEMMA TotalTwo ==
  ASSUME NEW f, f[1] \in Int, f[2] \in Int
  PROVE  Total(f, 2) = f[1] + f[2]
<1>1. \A k \in 1 .. 2 : f[k] \in Int
  OBVIOUS
<1>2. \A k \in 1 .. 1 : f[k] \in Int
  OBVIOUS
<1>3. Total(f, 2) = Total(f, 2 - 1) + f[2]
  BY <1>1, TotalStep, 2 \in Nat, 2 # 0
<1>4. Total(f, 1) = Total(f, 1 - 1) + f[1]
  BY <1>2, TotalStep, 1 \in Nat, 1 # 0
<1>5. Total(f, 0) = 0
  <2>1. \A k \in 1 .. 0 : f[k] \in Int
    OBVIOUS
  <2> QED BY <2>1, TotalStep, 0 \in Nat
<1>6. 2 - 1 = 1 /\ 1 - 1 = 0
  OBVIOUS
<1> QED BY <1>3, <1>4, <1>5, <1>6

LEMMA ExtentTwo ==
  ASSUME NEW s, s[1] \in Int, s[2] \in Int
  PROVE  Extent(s, 1, 2) = s[1] * s[2] /\ Extent(s, 2, 2) = s[2] /\ Extent(s, 3, 2) = 1
<1>1. 1 \in Nat \ {0} /\ 2 \in Nat \ {0} /\ 3 \in Nat \ {0} /\ 2 \in Nat /\ 0 \in Nat
  OBVIOUS
<1>2. \A k \in 1 .. 2 : s[k] \in Int
  OBVIOUS
<1>3. (\A k \in 2 .. 2 : s[k] \in Int) /\ \A k \in 3 .. 2 : s[k] \in Int
  OBVIOUS
<1>4. Extent(s, 1, 2) = s[1] * Extent(s, 1 + 1, 2)
  BY <1>1, <1>2, 1 <= 2, ExtentFirst
<1>5. Extent(s, 2, 2) = s[2] * Extent(s, 2 + 1, 2)
  BY <1>1, <1>3, 2 <= 2, ExtentFirst
<1>6. Extent(s, 3, 2) = 1
  BY <1>1, <1>3, 2 < 3, ExtentStep
<1>7. 1 + 1 = 2 /\ 2 + 1 = 3
  OBVIOUS
<1>8. Extent(s, 2, 2) = s[2]
  BY <1>5, <1>6, <1>7
<1> QED BY <1>4, <1>6, <1>7, <1>8

\* The logical elements of a padded grid.
LEMMA LogicalParts ==
  ASSUME NEW n \in Nat, NEW t \in Seq(Nat \ {0}), NEW p \in Seq(Nat \ {0}),
         Len(t) = n, Len(p) = n, \A a \in 1 .. n : t[a] <= p[a]
  PROVE  /\ Logical(t, p).shape = t /\ Logical(t, p) = [shape |-> t, elems |-> Logical(t, p).elems]
         /\ Logical(t, p).elems \in Seq(Int) /\ Len(Logical(t, p).elems) = Extent(t, 1, n)
         /\ Distinct(Logical(t, p).elems, Extent(t, 1, n))
         /\ \A c \in Box(t, n) :
              /\ Logical(t, p).elems[Place(t, c, n) + 1] = Place(p, c, n)
              /\ Place(p, c, n) \in Nat /\ Place(p, c, n) < Extent(p, 1, n)
<1> DEFINE A == Logical(t, p)
           zero == [a \in DOMAIN t |-> 0]
           unit == [a \in DOMAIN t |-> 1]
<1>1. A = Sliced(Grid(p), t, zero, unit)
  BY DEF Logical
<1>2. DOMAIN t = 1 .. n /\ t \in Seq(Nat) /\ p \in Seq(Nat)
      /\ \A a \in 1 .. n : t[a] \in Nat \ {0} /\ p[a] \in Nat \ {0} /\ t[a] # 0 /\ t[a] \in Nat
  OBVIOUS
<1>3. \A a \in DOMAIN t : zero[a] = 0 /\ unit[a] = 1
  OBVIOUS
<1>4. Grid(p).shape = p /\ Grid(p).elems = [i \in 1 .. Numel(p) |-> i - 1]
  BY DEF Grid
<1> HIDE DEF A, zero, unit
<1>5. /\ A.shape = t /\ A = [shape |-> t, elems |-> A.elems]
      /\ A.elems = [i \in 1 .. Numel(t) |-> A.elems[i]]
      /\ \A i \in 1 .. Numel(t) :
           A.elems[i] = Grid(p).elems[Position(Grid(p).shape, Onto(t, zero, unit, Coords(t, i - 1))) + 1]
  BY <1>1, SlicedParts
<1>6. Numel(t) = Extent(t, 1, n) /\ Numel(p) = Extent(p, 1, n)
  BY <1>2, CoordsDigits
<1>7. Extent(t, 1, n) \in Nat /\ Extent(p, 1, n) \in Nat
  <2>1. \A a \in 1 .. n : p[a] \in Nat
    BY <1>2
  <2> QED BY <1>2, <2>1, ExtentNat, 1 \in Nat \ {0}
<1>8. ASSUME NEW c \in Box(t, n)
      PROVE  c \in Box(p, n) /\ Place(p, c, n) \in Nat /\ Place(p, c, n) < Extent(p, 1, n)
  <2>1. c \in [1 .. n -> Nat] /\ \A a \in 1 .. n : c[a] < t[a]
    BY DEF Box
  <2>2. \A a \in 1 .. n : c[a] < p[a]
    BY <1>2, <2>1
  <2>3. c \in Box(p, n)
    BY <2>1, <2>2 DEF Box
  <2>4. \A a \in 1 .. n : p[a] \in Nat \ {0}
    BY <1>2
  <2> QED BY <2>3, <2>4, PlaceDigits
<1>9. ASSUME NEW i \in 1 .. Numel(t)
      PROVE  Coords(t, i - 1) \in Box(t, n) /\ A.elems[i] = Place(p, Coords(t, i - 1), n)
  <2> DEFINE c == Coords(t, i - 1)
  <2>1. i - 1 \in Nat /\ i - 1 < Extent(t, 1, n)
    BY <1>6, <1>7
  <2>2. c \in Box(t, n)
    BY <1>2, <2>1, CoordsPlace
  <2>3. A.elems[i] = Grid(p).elems[Position(p, Onto(t, zero, unit, c)) + 1]
    BY <1>4, <1>5
  <2> HIDE DEF c
  <2>4. Onto(t, zero, unit, c) = c
    <3>1. c \in [1 .. n -> Nat]
      BY <2>2 DEF Box
    <3>2. ASSUME NEW a \in 1 .. n PROVE zero[a] + c[a] * unit[a] = c[a]
      <4>1. zero[a] = 0 /\ unit[a] = 1 /\ c[a] \in Nat
        BY <1>2, <1>3, <3>1
      <4> QED BY <4>1
    <3> QED BY <1>2, <3>1, <3>2 DEF Onto
  <2>5. Position(p, c) = Place(p, c, n)
    BY <1>2, CoordsDigits
  <2>6. A.elems[i] = Grid(p).elems[Place(p, c, n) + 1]
    BY <2>3, <2>4, <2>5
  <2>7. Place(p, c, n) \in Nat /\ Place(p, c, n) < Numel(p)
    BY <1>6, <1>8, <2>2
  <2> DEFINE m == Place(p, c, n)
  <2>8. m \in Nat /\ m < Numel(p) /\ A.elems[i] = Grid(p).elems[m + 1]
    BY <2>6, <2>7
  <2> HIDE DEF m
  <2>9. m + 1 \in 1 .. Numel(p) /\ (m + 1) - 1 = m
    BY <1>6, <1>7, <2>8
  <2>10. A.elems[i] = m
    BY <1>4, <2>8, <2>9
  <2> QED BY <2>2, <2>10 DEF c, m
<1>10. A.elems \in [1 .. Extent(t, 1, n) -> Int]
  <2>1. ASSUME NEW i \in 1 .. Numel(t) PROVE A.elems[i] \in Int
    BY <1>8, <1>9
  <2> QED BY <1>5, <1>6, <2>1
<1>11. A.elems \in Seq(Int) /\ Len(A.elems) = Extent(t, 1, n)
  BY <1>7, <1>10, ArraySeq
<1>12. ASSUME NEW c \in Box(t, n) PROVE A.elems[Place(t, c, n) + 1] = Place(p, c, n)
  <2>1. PICK i \in 1 .. Numel(t) : i = Place(t, c, n) + 1 /\ Coords(t, i - 1) = c
    BY <1>2, PlaceCoords
  <2> QED BY <1>9, <2>1
<1>13. Distinct(A.elems, Extent(t, 1, n))
  <2> SUFFICES ASSUME NEW i \in 1 .. Numel(t), NEW j \in 1 .. Numel(t), A.elems[i] = A.elems[j]
               PROVE  i = j
    BY <1>6 DEF Distinct
  <2> DEFINE c == Coords(t, i - 1)
             d == Coords(t, j - 1)
  <2>1. c \in Box(p, n) /\ Place(t, c, n) = i - 1
    <3>1. i - 1 \in Nat /\ i - 1 < Extent(t, 1, n)
      BY <1>6, <1>7
    <3> QED BY <1>2, <1>8, <3>1, CoordsPlace
  <2>2. d \in Box(p, n) /\ Place(t, d, n) = j - 1
    <3>1. j - 1 \in Nat /\ j - 1 < Extent(t, 1, n)
      BY <1>6, <1>7
    <3> QED BY <1>2, <1>8, <3>1, CoordsPlace
  <2>3. Place(p, c, n) = Place(p, d, n)
    BY <1>9
  <2> HIDE DEF c, d
  <2>4. Digits(p, Place(p, c, n), n) = c
    BY <1>2, <2>1, PlaceDigits
  <2>5. Digits(p, Place(p, d, n), n) = d
    BY <1>2, <2>2, PlaceDigits
  <2>6. c = d
    BY <2>3, <2>4, <2>5
  <2> QED BY <1>6, <1>7, <2>1, <2>2, <2>6
<1> QED BY <1>5, <1>8, <1>11, <1>12, <1>13 DEF A

LEMMA SqueezeExact ==
  ASSUME Arguments, TypeInv, NEW dim \in Int, squeeze_dim(dim), verbs = 0
  PROVE  Exact'
<1>1. BindInv' /\ LayoutInv'
  BY TypeSqueeze
<1> DEFINE t == shape_'
           p == padded_shape_'
<1>2. PICK n \in Nat : n = Len(t)
  BY <1>1 DEF BindInv
<1>3. /\ t \in Seq(Nat \ {0}) /\ p \in Seq(Nat \ {0}) /\ Len(t) = n /\ Len(p) = n
      /\ \A a \in 1 .. n : t[a] <= p[a]
      /\ Extent(p, 1, n) < -POISON
  BY <1>1, <1>2 DEF BindInv
<1>4. L' = [shape |-> t, stride |-> rowmajor(p), base |-> 0] /\ array' = Logical(t, p)
  BY DEF squeeze_dim
<1> HIDE DEF t, p
<1>5. /\ Logical(t, p).shape = t /\ Logical(t, p) = [shape |-> t, elems |-> Logical(t, p).elems]
      /\ Logical(t, p).elems \in Seq(Int) /\ Len(Logical(t, p).elems) = Extent(t, 1, n)
      /\ Distinct(Logical(t, p).elems, Extent(t, 1, n))
      /\ \A c \in Box(t, n) :
           /\ Logical(t, p).elems[Place(t, c, n) + 1] = Place(p, c, n)
           /\ Place(p, c, n) \in Nat /\ Place(p, c, n) < Extent(p, 1, n)
  <2>1. \A a \in 1 .. n : t[a] <= p[a]
    BY <1>3
  <2> QED BY <1>3, <2>1, LogicalParts
<1>6. t \in Seq(Nat) /\ \A a \in 1 .. n : t[a] # 0
  BY <1>3
<1>7. Logical(t, p) \in Sheets
  BY <1>5, <1>6 DEF Sheets
<1>8. ASSUME NEW c \in Box(t, n)
      PROVE  /\ L'.base + Address(L'.stride, c, n) \in Elements
             /\ array'.elems[Place(t, c, n) + 1] = L'.base + Address(L'.stride, c, n)
  <2>1. Address(rowmajor(p), c, n) = Place(p, c, n)
    <3>1. [a \in 1 .. n |-> c[a] * rowmajor(p)[a]] = [a \in 1 .. n |-> c[a] * Extent(p, a + 1, n)]
      BY <1>3 DEF rowmajor
    <3> QED BY <3>1 DEF Address, Place
  <2>2. Extent(p, 1, n) \in Nat
    <3>1. \A a \in 1 .. n : p[a] \in Nat
      BY <1>3
    <3> QED BY <3>1, ExtentNat, 1 \in Nat \ {0}
  <2>3. Place(p, c, n) \in Elements
    BY <1>3, <1>5, <2>2, WordFacts DEF Elements
  <2>4. L'.base + Address(L'.stride, c, n) = Place(p, c, n)
    BY <1>4, <1>5, <2>1
  <2> QED BY <1>4, <1>5, <2>3, <2>4
<1>9. L'.shape = t /\ Len(L'.shape) = n
  BY <1>3, <1>4
<1>10. Rising(L'.shape, L'.stride, n)
  BY <1>3, <1>4, RowmajorRises
<1>11. Distinct(array'.elems, Extent(L'.shape, 1, n))
  BY <1>4, <1>5
<1> QED BY <1>4, <1>5, <1>6, <1>7, <1>8, <1>9, <1>10, <1>11 DEF Exact

\* A place does not depend on the first extent.
LEMMA PlaceSame ==
  ASSUME NEW n \in Nat, NEW s, NEW t, NEW c, \A a \in 1 .. n : c[a] \in Int,
         \A a \in 2 .. n : s[a] \in Int, \A a \in 2 .. n : t[a] = s[a]
  PROVE  Place(t, c, n) = Place(s, c, n)
<1> DEFINE f == [a \in 1 .. n |-> c[a] * Extent(t, a + 1, n)]
           g == [a \in 1 .. n |-> c[a] * Extent(s, a + 1, n)]
<1>1. ASSUME NEW a \in 1 .. n PROVE f[a] = g[a] /\ g[a] \in Int
  <2>1. /\ a + 1 \in Nat \ {0} /\ \A k \in a + 1 .. n : s[k] \in Int
        /\ \A k \in a + 1 .. n : t[k] = s[k]
    OBVIOUS
  <2>2. Extent(t, a + 1, n) = Extent(s, a + 1, n)
    BY <2>1, ExtentSame
  <2>3. Extent(s, a + 1, n) \in Int
    BY <2>1, ExtentStep
  <2> QED BY <2>2, <2>3
<1> HIDE DEF f, g
<1>2. Total(f, n) = Total(g, n)
  BY <1>1, TotalSame
<1> QED BY <1>2 DEF Place, f, g

LEMMA InitExact == Arguments /\ Init => Exact
<1> SUFFICES ASSUME Arguments, Init PROVE Exact
  OBVIOUS
<1> DEFINE t == shape_
           p == padded_shape_
<1>1. t \in Tensors /\ p = PaddedShape(t)
  BY DEF Init
<1>2. t \in Seq(Nat \ {0}) /\ Len(t) >= 2 /\ Extent(p, 1, Len(p)) < -POISON
  BY <1>1, ChainAssumption DEF Arguments, Numel
<1>3. p \in Seq(Nat \ {0}) /\ Len(p) = Len(t) /\ \A a \in 1 .. Len(t) : t[a] <= p[a]
  BY <1>1, <1>2, PaddedShapeFacts
<1>4. L = Anchor(t, p)
      /\ array = Reshaped(IF DensePacked(t, p) THEN Logical(t, p) ELSE Grid(p), L.shape)
  BY DEF Init
<1> HIDE DEF t, p
<1>5. PICK n \in Nat \ {0} : n = Len(t) /\ n >= 2
  BY <1>2
<1> DEFINE s == IF DensePacked(t, p) THEN t ELSE p
           R == Extent(s, 1, n - 1)
           C == s[n]
           sh == <<R, C>>
           st == <<p[n], 1>>
           A == IF DensePacked(t, p) THEN Logical(t, p) ELSE Grid(p)
<1>6. L = [shape |-> sh, stride |-> st, base |-> 0] /\ array = [shape |-> sh, elems |-> A.elems]
  BY <1>4, <1>5 DEF Anchor, Reshaped
<1>7. s \in Seq(Nat \ {0}) /\ Len(s) = n
  BY <1>2, <1>3, <1>5
<1>8. \A a \in 1 .. n : s[a] <= p[a] /\ p[a] \in Nat \ {0} /\ s[a] \in Nat \ {0}
  <2>1. \A a \in 1 .. n : p[a] \in Nat \ {0} /\ t[a] \in Nat \ {0} /\ t[a] <= p[a]
    BY <1>2, <1>3, <1>5
  <2> QED BY <2>1
<1>9. \A a \in 2 .. n - 1 : p[a] = s[a]
  BY <1>5 DEF DensePacked
<1> HIDE DEF s
<1>10. C \in Nat \ {0} /\ p[n] \in Nat \ {0} /\ R \in Nat \ {0} /\ n - 1 \in Nat
  <2>1. 1 \in Nat \ {0} /\ n - 1 \in Nat /\ \A k \in 1 .. n - 1 : s[k] \in Nat \ {0}
    BY <1>8
  <2>2. R \in Nat \ {0}
    BY <2>1, ExtentPositive
  <2> QED BY <1>8, <2>1, <2>2
<1>11. Extent(s, 1, n) = R * C
  <2>1. \A k \in 1 .. n : s[k] \in Int
    BY <1>8
  <2> QED BY <2>1, ExtentStep, 1 \in Nat \ {0}, n >= 1
\* The elements of the anchor: those of its shape, each at its place in the grid.
<1>12. /\ A.elems \in Seq(Int) /\ Len(A.elems) = R * C
       /\ Distinct(A.elems, R * C)
       /\ \A c \in Box(s, n) :
            /\ A.elems[Place(s, c, n) + 1] = Place(p, c, n)
            /\ Place(p, c, n) \in Nat /\ Place(p, c, n) < Extent(p, 1, n)
  <2>1. CASE DensePacked(t, p)
    <3>1. s = t /\ A = Logical(t, p) /\ n \in Nat
      BY <2>1 DEF s
    <3>2. Len(t) = n /\ Len(p) = n /\ \A a \in 1 .. n : t[a] <= p[a]
      BY <1>3, <1>5
    <3>3. /\ Logical(t, p).elems \in Seq(Int) /\ Len(Logical(t, p).elems) = Extent(t, 1, n)
          /\ Distinct(Logical(t, p).elems, Extent(t, 1, n))
          /\ \A c \in Box(t, n) :
               /\ Logical(t, p).elems[Place(t, c, n) + 1] = Place(p, c, n)
               /\ Place(p, c, n) \in Nat /\ Place(p, c, n) < Extent(p, 1, n)
      BY <1>2, <1>3, <3>1, <3>2, LogicalParts
    <3> QED BY <1>11, <3>1, <3>3
  <2>2. CASE ~DensePacked(t, p)
    <3>1. s = p /\ A = Grid(p)
      BY <2>2 DEF s
    <3>2. Numel(p) = R * C /\ R * C \in Nat
      BY <1>10, <1>11, <1>3, <1>5, <3>1 DEF Numel
    <3>3. A.elems = [i \in 1 .. R * C |-> i - 1]
      BY <3>1, <3>2 DEF Grid
    <3> DEFINE M == R * C
    <3> HIDE DEF M, A, R, C
    <3>4. A.elems = [i \in 1 .. M |-> i - 1] /\ M \in Nat
      BY <3>2, <3>3 DEF M
    <3>5. A.elems \in [1 .. M -> Int]
      BY <3>4
    <3>6. A.elems \in Seq(Int) /\ Len(A.elems) = M
      BY <3>4, <3>5, ArraySeq
    <3>7. ASSUME NEW c \in Box(s, n)
          PROVE  /\ A.elems[Place(s, c, n) + 1] = Place(p, c, n)
                 /\ Place(p, c, n) \in Nat /\ Place(p, c, n) < Extent(p, 1, n)
      <4>1. Place(p, c, n) \in Nat /\ Place(p, c, n) < Extent(p, 1, n)
        <5>1. n \in Nat /\ c \in Box(p, n) /\ \A k \in 1 .. n : p[k] \in Nat \ {0}
          BY <1>8, <3>1
        <5> QED BY <5>1, PlaceDigits
      <4>2. Extent(p, 1, n) = M
        BY <1>11, <3>1 DEF M
      <4>3. Place(p, c, n) + 1 \in 1 .. M /\ (Place(p, c, n) + 1) - 1 = Place(p, c, n)
        BY <3>4, <4>1, <4>2
      <4>4. A.elems[Place(p, c, n) + 1] = Place(p, c, n)
        BY <3>4, <4>3
      <4> QED BY <3>1, <4>1, <4>4
    <3>8. Distinct(A.elems, M)
      BY <3>4 DEF Distinct
    <3> QED BY <3>6, <3>7, <3>8 DEF M
  <2> QED BY <2>1, <2>2
<1>13. /\ sh[1] = R /\ sh[2] = C /\ Len(sh) = 2 /\ sh \in Seq(Nat) /\ \A a \in 1 .. 2 : sh[a] # 0
       /\ st[1] = p[n] /\ st[2] = 1
  BY <1>10
<1>14. L.shape = sh /\ L.stride = st /\ L.base = 0 /\ array.shape = sh /\ array.elems = A.elems
  BY <1>6
<1>15. array \in Sheets
  BY <1>6, <1>12, <1>13 DEF Sheets
<1> HIDE DEF R, C, A, sh, st
<1>16. Extent(sh, 1, 2) = R * C /\ Extent(sh, 2, 2) = C /\ Extent(sh, 3, 2) = 1
  <2>1. sh[1] \in Int /\ sh[2] \in Int
    BY <1>10, <1>13
  <2> QED BY <1>13, <2>1, ExtentTwo
<1>17. ASSUME NEW c \in Box(sh, 2)
       PROVE  /\ Address(st, c, 2) \in Elements
              /\ A.elems[Place(sh, c, 2) + 1] = Address(st, c, 2)
  <2>1. c[1] \in Nat /\ c[1] < R /\ c[2] \in Nat /\ c[2] < C
    BY <1>13 DEF Box
  <2> DEFINE x == c[1]
             y == c[2]
  <2>2. x \in Nat /\ x < R /\ y \in Nat /\ y < C
    BY <2>1
  <2>3. Place(sh, c, 2) = x * C + y
    <3> DEFINE f == [a \in 1 .. 2 |-> c[a] * Extent(sh, a + 1, 2)]
    <3>1. f[1] = x * C /\ f[2] = y * 1
      BY <1>16
    <3>2. x * C \in Int /\ y * 1 = y
      BY <1>10, <2>2
    <3>3. Place(sh, c, 2) = Total(f, 2)
      BY DEF Place
    <3> HIDE DEF f, x, y
    <3>4. f[1] \in Int /\ f[2] \in Int
      BY <2>2, <3>1, <3>2
    <3> QED BY <3>1, <3>2, <3>3, <3>4, TotalTwo
  <2>4. Address(st, c, 2) = x * p[n] + y
    <3> DEFINE f == [a \in 1 .. 2 |-> c[a] * st[a]]
    <3>1. f[1] = x * p[n] /\ f[2] = y * 1
      BY <1>13
    <3>2. x * p[n] \in Int /\ y * 1 = y
      BY <1>10, <2>2
    <3>3. Address(st, c, 2) = Total(f, 2)
      BY DEF Address
    <3> HIDE DEF f, x, y
    <3>4. f[1] \in Int /\ f[2] \in Int
      BY <2>2, <3>1, <3>2
    <3> QED BY <3>1, <3>2, <3>3, <3>4, TotalTwo
  <2> HIDE DEF x, y
  <2> DEFINE m == x * C + y
             d == Digits(s, m, n)
  <2>5. m \in Nat /\ m < R * C /\ y = m % C /\ x = m \div C
    <3>0. m \in Nat /\ m \in Int /\ x \in Int /\ y \in Int /\ 0 <= y
      BY <1>10, <2>2
    <3>1. y = m % C /\ x = m \div C
      <4>1. m = x * C + y
        OBVIOUS
      <4> HIDE DEF m
      <4> QED BY <1>10, <2>2, <3>0, <4>1, DivModUnique
    <3>2. (R - 1 - x) * C >= 0
      BY <1>10, <2>2, ProductNat, R - 1 - x \in Int, R - 1 - x >= 0, C >= 0
    <3>3. (R - 1 - x) * C = R * C - C - x * C /\ R * C \in Int /\ x * C \in Int
      BY <1>10, <2>2
    <3> QED BY <1>10, <2>2, <3>0, <3>1, <3>2, <3>3
  <2> HIDE DEF m, d
  <2>6. d \in Box(s, n) /\ Place(s, d, n) = m
    <3>1. n \in Nat /\ m < Extent(s, 1, n) /\ \A k \in 1 .. n : s[k] \in Nat \ {0}
      BY <1>8, <1>11, <2>5
    <3> QED BY <2>5, <3>1, DigitsPlace DEF d
  <2>7. d[n] = y /\ \A a \in 1 .. n - 1 : d[a] = Digits(s, x, n - 1)[a]
    <3>1. m \in Int /\ \A k \in 1 .. n : s[k] \in Nat \ {0}
      BY <1>8, <2>5
    <3>2. /\ Digits(s, m, n)[n] = m % s[n]
          /\ \A a \in 1 .. n - 1 : Digits(s, m, n)[a] = Digits(s, m \div s[n], n - 1)[a]
      BY <3>1, DigitsPeel
    <3> QED BY <2>5, <3>2 DEF d, C
  <2>8. \A k \in 1 .. n : d[k] \in Int
    BY <2>6 DEF Box
  <2>9. Place(p, d, n - 1) = x
    <3> DEFINE e == Digits(s, x, n - 1)
    <3>1. e \in Box(s, n - 1) /\ Place(s, e, n - 1) = x
      <4>1. x < Extent(s, 1, n - 1) /\ \A k \in 1 .. n - 1 : s[k] \in Nat \ {0}
        BY <1>8, <2>2 DEF R
      <4> QED BY <1>10, <2>2, <4>1, DigitsPlace
    <3> HIDE DEF e
    <3>2. \A a \in 1 .. n - 1 : d[a] = e[a] /\ e[a] \in Int
      BY <2>7, <3>1 DEF Box, e
    <3>3. Place(p, d, n - 1) = Place(s, d, n - 1)
      <4>1. /\ \A a \in 1 .. n - 1 : d[a] \in Int
            /\ \A a \in 2 .. n - 1 : s[a] \in Int
        BY <1>8, <2>8
      <4> QED BY <1>9, <1>10, <4>1, PlaceSame
    <3>4. [a \in 1 .. n - 1 |-> d[a] * Extent(s, a + 1, n - 1)]
            = [a \in 1 .. n - 1 |-> e[a] * Extent(s, a + 1, n - 1)]
      BY <3>2
    <3> QED BY <3>1, <3>3, <3>4 DEF Place
  <2>10. Place(p, d, n) = x * p[n] + y
    <3>1. \A k \in 1 .. n : p[k] \in Int
      BY <1>8
    <3>2. Place(p, d, n) = Place(p, d, n - 1) * p[n] + d[n]
      BY <2>8, <3>1, PlacePeel
    <3> QED BY <2>7, <2>9, <3>2
  <2>11. /\ A.elems[m + 1] = Place(p, d, n)
         /\ Place(p, d, n) \in Nat /\ Place(p, d, n) < Extent(p, 1, n)
    BY <1>12, <2>6
  <2>12. Place(p, d, n) \in Elements
    <3>1. Extent(p, 1, n) < -POISON /\ Extent(p, 1, n) \in Nat
      <4>1. \A k \in 1 .. n : p[k] \in Nat
        BY <1>8
      <4>2. Extent(p, 1, n) \in Nat
        BY <4>1, ExtentNat, 1 \in Nat \ {0}
      <4> QED BY <1>2, <1>3, <1>5, <4>2
    <3> QED BY <2>11, <3>1, WordFacts DEF Elements
  <2>13. Place(sh, c, 2) = m
    BY <2>3 DEF m
  <2> QED BY <2>4, <2>10, <2>11, <2>12, <2>13
<1>18. ASSUME NEW c \in Box(sh, 2)
       PROVE  /\ L.base + Address(L.stride, c, 2) \in Elements
              /\ array.elems[Place(sh, c, 2) + 1] = L.base + Address(L.stride, c, 2)
  <2>1. L.base + Address(L.stride, c, 2) = Address(st, c, 2)
    BY <1>14, <1>17 DEF Elements
  <2> QED BY <1>14, <1>17, <2>1
<1>19. Rising(sh, st, 2)
  BY <1>10, <1>13 DEF Rising
<1> QED BY <1>12, <1>13, <1>14, <1>15, <1>16, <1>18, <1>19 DEF Exact

-----------------------------------------------------------------------------
(***************************************************************************)
(* Accepted views.                                                        *)
(***************************************************************************)
LEMMA ChainStep ==
  Arguments /\ ~SqueezeLate /\ TypeInv /\ ChainInv /\ [Next]_vars => ChainInv'
<1> SUFFICES ASSUME Arguments, ~SqueezeLate, TypeInv, ChainInv, [Next]_vars PROVE ChainInv'
  OBVIOUS
<1>1. CASE \E ns \in ReshapeArgs(L.shape) : reshape(ns)
  BY <1>1, ReshapeKeeps
<1>2. CASE \E r \in SliceArgs(L.shape) : slice(r)
  BY <1>2, SliceKeeps
<1>3. CASE \E perm \in PermArgs(L.shape) : permute(perm)
  BY <1>3, PermuteKeeps
<1>4. CASE \E axis \in 0 .. Len(L.shape) : fold(axis)
  <2>1. PICK axis \in Int : fold(axis)
    BY <1>4
  <2> QED BY <2>1, FoldKeeps
<1>5. CASE \E dim \in DOMAIN shape_ : squeeze_dim(dim)
  <2>1. PICK dim \in DOMAIN shape_ : squeeze_dim(dim)
    BY <1>5
  <2>2. dim \in Int
    <3>1. shape_ \in Seq(Nat \ {0})
      BY DEF TypeInv, BindInv
    <3> QED BY <2>1, <3>1
  <2>3. verbs = 0
    BY <2>1 DEF squeeze_dim
  <2> QED BY <2>1, <2>2, <2>3, SqueezeExact DEF ChainInv
<1>6. CASE UNCHANGED vars
  BY <1>6 DEF vars, ChainInv, Empty, Poisoned, Exact
<1> QED BY <1>1, <1>2, <1>3, <1>4, <1>5, <1>6 DEF Next

\* What plan() accepts is neither empty nor poisoned.
LEMMA AcceptedIsExact ==
  ASSUME FACE > 1, TypeInv, ChainInv, ok, Ro * Co # 0
  PROVE  Exact
<1>1. L \in Layouts /\ L.shape \in Seq(Nat) /\ LayoutInv /\ Len(L.shape) >= 1
  BY DEF TypeInv, LayoutInv, Layouts
<1>2. PICK n \in Nat \ {0} : n = Len(L.shape) /\ n = lane /\ n - 1 \in Nat
  BY <1>1 DEF lane
<1>3. Co \in Nat /\ Ro \in Nat /\ L.base \in Int /\ Co = L.shape[n] /\ Ro = Extent(L.shape, 1, n - 1)
  BY <1>1, <1>2, LaneFacts DEF Co, Ro
<1>4. Co # 0 /\ Ro # 0
  BY <1>3
<1>5. /\ \A a \in 1 .. n : L.stride[a] # POISON
      /\ L.stride[n] = 1 /\ Co % FACE = 0 /\ Affine
  <2>1. n \in DOMAIN L.stride /\ DOMAIN L.stride = 1 .. n
    BY <1>1, <1>2 DEF LayoutInv, Layouts
  <2> QED BY <1>2, <2>1 DEF ok, FaceAligned
<1>6. \A k \in 1 .. n : L.shape[k] \in Nat
  BY <1>1, <1>2, LaneFacts
<1>7. Extent(L.shape, 1, n) = Ro * Co
  <2>1. \A k \in 1 .. n : L.shape[k] \in Int
    BY <1>6
  <2> QED BY <1>3, <2>1, ExtentStep, 1 \in Nat \ {0}, n >= 1
<1>8. ~Empty
  <2>1. ~(\E k \in 1 .. n : L.shape[k] = 0)
    BY <1>6, <1>7, ExtentZero
  <2> QED BY <1>2, <2>1 DEF Empty
\* Poison shows in the lane's stride, or the view is one element wide.
<1>9. ~Poisoned
  <2>1. CASE \A a \in 1 .. n : L.stride[a] \in {0, POISON}
    BY <1>5, <2>1, WordFacts
  <2>2. CASE \A a \in 1 .. n : L.shape[a] = 1
    <3>1. Co = 1
      BY <1>3, <2>2
    <3>2. 1 % FACE = 1
      BY TileFacts
    <3> QED BY <1>5, <3>1, <3>2
  <2> QED BY <1>2, <2>1, <2>2 DEF Poisoned
<1> QED BY <1>8, <1>9 DEF ChainInv

\* The layout plan() accepts and the array it presents.
LEMMA ChainAccepted == Arguments /\ FACE > 1 /\ TypeInv /\ ChainInv => AcceptedExact
<1> SUFFICES ASSUME Arguments, FACE > 1, TypeInv, ChainInv, ok, Ro * Co # 0
             PROVE  /\ array # Undefined /\ Co = Last(array.shape)
                    /\ array.elems = [i \in 1 .. Ro * Co |->
                         L.base + ((i - 1) \div Co) * S_row + ((i - 1) % Co)]
  BY DEF AcceptedExact, AffineDesc
<1>1. L \in Layouts /\ L.shape \in Seq(Nat) /\ LayoutInv /\ Len(L.shape) >= 1
  BY DEF TypeInv, LayoutInv, Layouts
<1>2. PICK n \in Nat \ {0} : n = Len(L.shape) /\ n = lane /\ n - 1 \in Nat
  BY <1>1 DEF lane
<1>3. Co \in Nat /\ Ro \in Nat /\ L.base \in Int /\ Co = L.shape[n] /\ Ro = Extent(L.shape, 1, n - 1)
  BY <1>1, <1>2, LaneFacts DEF Co, Ro
<1>4. Co # 0 /\ Ro # 0
  BY <1>3
<1>5. /\ \A a \in 1 .. n : L.stride[a] # POISON
      /\ L.stride[n] = 1 /\ Co % FACE = 0 /\ Affine
  <2>1. n \in DOMAIN L.stride /\ DOMAIN L.stride = 1 .. n
    BY <1>1, <1>2 DEF LayoutInv, Layouts
  <2> QED BY <1>2, <2>1 DEF ok, FaceAligned
<1>6. \A k \in 1 .. n : L.shape[k] \in Nat
  BY <1>1, <1>2, LaneFacts
<1>7. Extent(L.shape, 1, n) = Ro * Co
  <2>1. \A k \in 1 .. n : L.shape[k] \in Int
    BY <1>6
  <2> QED BY <1>3, <2>1, ExtentStep, 1 \in Nat \ {0}, n >= 1
<1>10. Exact
  BY AcceptedIsExact
<1>11. /\ \A a \in 1 .. n : L.shape[a] \in Nat \ {0}
       /\ \A a \in 1 .. n : L.stride[a] \in Int
       /\ array \in Sheets /\ array.shape = L.shape /\ Len(array.elems) = Ro * Co
       /\ \A c \in Box(L.shape, n) :
            array.elems[Place(L.shape, c, n) + 1] = L.base + Address(L.stride, c, n)
  BY <1>1, <1>2, <1>7, <1>10, ExactFacts
<1>12. array # Undefined
  BY <1>11 DEF Arguments, Sheets
<1>13. Last(array.shape) = Co
  BY <1>2, <1>3, <1>11 DEF Last
<1> DEFINE G == [i \in 1 .. Ro * Co |-> L.base + ((i - 1) \div Co) * S_row + ((i - 1) % Co)]
<1>14. ASSUME NEW i \in 1 .. Ro * Co
       PROVE  array.elems[i] = L.base + ((i - 1) \div Co) * S_row + ((i - 1) % Co)
  <2>0. Ro * Co \in Nat
    BY <1>3
  <2> DEFINE m == i - 1
             oR == m \div Co
             d == Digits(L.shape, m, n)
  <2>1. m \in Nat /\ m < Ro * Co /\ m + 1 = i /\ i - 1 = m
    BY <2>0
  <2> HIDE DEF m
  <2>2. d \in Box(L.shape, n) /\ Place(L.shape, d, n) = m
    <3>1. m < Extent(L.shape, 1, n) /\ n \in Nat
      BY <1>7, <2>1
    <3> QED BY <1>11, <2>1, <3>1, DigitsPlace
  <2>3. d[n] = m % L.shape[n] /\ \A a \in 1 .. n - 1 : d[a] = Digits(L.shape, m \div L.shape[n], n - 1)[a]
    <3>1. m \in Int /\ \A k \in 1 .. n : L.shape[k] \in Nat \ {0}
      BY <1>11, <2>1
    <3>2. Digits(L.shape, m, n)[n] = m % L.shape[n]
      BY <3>1, DigitsPeel
    <3>3. \A a \in 1 .. n - 1 :
            Digits(L.shape, m, n)[a] = Digits(L.shape, m \div L.shape[n], n - 1)[a]
      BY <3>1, DigitsPeel
    <3> QED BY <3>2, <3>3
  <2>4. oR \in 0 .. Ro - 1
    <3>1. m \in Int /\ Co \in Nat \ {0} /\ oR \in Int /\ m % Co \in Int /\ oR * Co \in Int
          /\ m = oR * Co + (m % Co) /\ 0 <= m % Co /\ m % Co < Co
      <4>1. m \in Int /\ Co \in Nat \ {0}
        BY <1>3, <1>4, <2>1
      <4>2. /\ m \div Co \in Int /\ m % Co \in Int
            /\ m = (m \div Co) * Co + (m % Co) /\ 0 <= m % Co /\ m % Co < Co
        BY <4>1, DivModFloor
      <4>3. (m \div Co) * Co \in Int
        BY <4>1, <4>2
      <4> QED BY <4>1, <4>2, <4>3
    <3> HIDE DEF oR
    <3>2. CASE oR < 0
      <4>1. (-1 - oR) * Co >= 0
        BY <3>1, <3>2, ProductNat, -1 - oR \in Int, -1 - oR >= 0, Co >= 0
      <4>2. (-1 - oR) * Co = -Co - oR * Co
        BY <3>1
      <4> QED BY <2>1, <3>1, <4>1, <4>2
    <3>3. CASE oR >= Ro
      <4>1. (oR - Ro) * Co >= 0
        BY <1>3, <3>1, <3>3, ProductNat, oR - Ro \in Int, oR - Ro >= 0, Co >= 0
      <4>2. (oR - Ro) * Co = oR * Co - Ro * Co
        BY <1>3, <3>1
      <4> QED BY <2>0, <2>1, <3>1, <4>1, <4>2
    <3> QED BY <1>3, <3>1, <3>2, <3>3
  <2> DEFINE f == [a \in 1 .. n |-> d[a] * L.stride[a]]
  <2>5. Address(L.stride, d, n) = Total(f, n)
    BY DEF Address
  <2>6. \A a \in 1 .. n : d[a] \in Int
    BY <2>2 DEF Box
  <2>7. \A a \in 1 .. n : f[a] \in Int
    BY <1>11, <2>6
  <2>8. f[n] = m % Co
    <3>1. f[n] = d[n] * 1 /\ d[n] \in Int /\ d[n] = m % Co
      BY <1>3, <1>5, <2>3, <2>6
    <3> HIDE DEF f, d
    <3> QED BY <3>1
  <2>9. \A a \in 1 .. n - 1 : f[a] = RowTerm(oR)[a]
    <3> SUFFICES ASSUME NEW a \in 1 .. n - 1 PROVE f[a] = RowTerm(oR)[a]
      OBVIOUS
    <3>1. f[a] = d[a] * L.stride[a] /\ d[a] = Digits(L.shape, oR, n - 1)[a]
      BY <1>3, <2>3
    <3> HIDE DEF f, d, oR
    <3>2. Digits(L.shape, oR, n - 1)[a] = (oR \div Extent(L.shape, a + 1, n - 1)) % L.shape[a]
      BY DEF Digits
    <3>3. RowTerm(oR)[a] = ((oR \div Extent(L.shape, a + 1, n - 1)) % L.shape[a]) * L.stride[a]
      BY <1>2 DEF RowTerm
    <3> QED BY <3>1, <3>2, <3>3
  <2> HIDE DEF f, d, oR
  <2>10. Total(f, n) = Total(f, n - 1) + f[n]
    BY <2>7, TotalStep, n \in Nat, n # 0
  <2>11. \A a \in 1 .. n - 1 : RowTerm(oR)[a] \in Int
    BY <2>7, <2>9
  <2>12. Total(f, n - 1) = Total(RowTerm(oR), n - 1)
    BY <1>2, <2>9, <2>11, TotalSame
  <2>13. row_base(oR) = L.base + Total(RowTerm(oR), n - 1)
    BY <1>2 DEF row_base, RowTerm
  <2>14. row_base(oR) = L.base + oR * S_row /\ S_row \in Int
    BY <1>1, <1>5, <2>4, RowLinear
  <2>15. array.elems[m + 1] = L.base + Address(L.stride, d, n)
    BY <1>11, <2>2
  <2>16. Total(RowTerm(oR), n - 1) \in Int /\ f[n] \in Int
    BY <1>2, <2>7, <2>11, TotalStep
  <2>17. array.elems[m + 1] = (L.base + oR * S_row) + (m % Co)
    BY <1>3, <2>5, <2>8, <2>10, <2>12, <2>13, <2>14, <2>15, <2>16
  <2> QED BY <2>1, <2>17 DEF oR
<1>15. array.elems = [i \in 1 .. Ro * Co |-> array.elems[i]]
  <2>1. array.elems \in Seq(Int)
    BY <1>11 DEF Sheets
  <2> DEFINE e == array.elems
             M == Ro * Co
  <2>2. e \in Seq(Int) /\ Len(e) = M
    BY <1>11, <2>1
  <2> HIDE DEF e, M
  <2>3. e = [i \in 1 .. M |-> e[i]]
    BY <2>2
  <2> QED BY <2>3 DEF e, M
<1>16. array.elems = G
  <2> HIDE DEF G
  <2>1. ASSUME NEW i \in 1 .. Ro * Co PROVE array.elems[i] = G[i]
    BY <1>14 DEF G
  <2>2. G = [i \in 1 .. Ro * Co |-> G[i]]
    BY DEF G
  <2> QED BY <1>15, <2>1, <2>2
<1> QED BY <1>12, <1>13, <1>16

\* A sum of natural terms is natural.
LEMMA TotalNatural ==
  ASSUME NEW f, NEW n \in Nat, \A k \in 1 .. n : f[k] \in Nat
  PROVE  Total(f, n) \in Nat
<1> DEFINE S == {m \in Nat : m <= n => Total(f, m) \in Nat}
<1>1. 0 \in S
  <2>1. \A k \in 1 .. 0 : f[k] \in Int
    OBVIOUS
  <2>2. Total(f, 0) = 0
    BY <2>1, TotalStep, 0 \in Nat
  <2> QED BY <2>2
<1>2. ASSUME NEW m \in Nat, m \in S PROVE m + 1 \in S
  <2> SUFFICES ASSUME m + 1 <= n PROVE Total(f, m + 1) \in Nat
    OBVIOUS
  <2>1. Total(f, m) \in Nat /\ f[m + 1] \in Nat
    BY <1>2
  <2>2. m + 1 \in Nat /\ m + 1 # 0 /\ (m + 1) - 1 = m /\ \A k \in 1 .. m + 1 : f[k] \in Int
    OBVIOUS
  <2>3. Total(f, m + 1) = Total(f, (m + 1) - 1) + f[m + 1]
    BY <2>2, TotalStep
  <2> QED BY <2>1, <2>2, <2>3
<1> HIDE DEF S
<1>3. \A m \in Nat : m \in S
  BY <1>1, <1>2, Induction
<1> QED BY <1>3 DEF S

\* A positive multiple leaves a multiple when it is taken off.
LEMMA MultipleLeast ==
  ASSUME NEW x \in Nat \ {0}, NEW b \in Nat \ {0}, x % b = 0
  PROVE  x - b \in Int /\ x - b >= 0 /\ (x - b) % b = 0
<1> DEFINE q == x \div b
<1>1. x = q * b + 0 /\ q \in Int
  BY DivModFloor, x \in Int
<1> HIDE DEF q
<1>2. q >= 1
  <2> SUFFICES ASSUME q <= 0 PROVE FALSE
    BY <1>1
  <2>1. (0 - q) * b >= 0
    BY <1>1, ProductNat, 0 - q \in Int, 0 - q >= 0, b >= 0
  <2>2. (0 - q) * b = 0 - q * b /\ q * b \in Int
    BY <1>1
  <2> QED BY <1>1, <2>1, <2>2
<1>3. x - b = (q - 1) * b + 0 /\ q - 1 \in Int /\ x - b \in Int
  BY <1>1
<1>4. (q - 1) * b >= 0
  BY <1>1, <1>2, ProductNat, q - 1 \in Int, q - 1 >= 0, b >= 0
<1>5. x - b >= 0
  BY <1>3, <1>4
<1>6. (x - b) % b = 0
  BY <1>3, DivModUnique, 0 \in Int
<1> QED BY <1>3, <1>5, <1>6

\* The step from row to row is not negative: it is a sum of strides of axes that
\* have more than one element.
LEMMA RowsGrow ==
  ASSUME LayoutInv, Exact, Ro # 0
  PROVE  S_row \in Nat
<1>1. lane \in Nat \ {0} /\ lane - 1 \in Nat /\ Ro \in Nat /\ L.base \in Int
  BY LaneFacts
<1>2. Rising(L.shape, L.stride, lane)
  BY DEF Exact, lane
<1>3. ASSUME NEW a \in 1 .. lane - 1 PROVE RowTerm(1)[a] \in Nat
  <2> DEFINE x == 1 \div Extent(L.shape, a + 1, lane - 1)
             d == x % L.shape[a]
  <2>1. d \in Nat
    BY RowTerms, 1 \in Nat
  <2>2. RowTerm(1)[a] = d * L.stride[a]
    BY DEF RowTerm
  <2>3. a \in 1 .. lane /\ L.stride[a] \in Int
    BY <1>1, LaneFacts
  <2>4. L.shape[a] = 1 => d = 0
    <3>1. x \in Int
      <4>1. \A k \in a + 1 .. lane - 1 : L.shape[k] \in Nat /\ L.shape[k] # 0
        <5>1. \A k \in 1 .. lane - 1 : L.shape[k] \in Nat
          BY <1>1, LaneFacts
        <5>2. \A k \in 1 .. lane - 1 : L.shape[k] # 0
          BY <1>1, <5>1, ExtentNat, 1 \in Nat \ {0} DEF Ro
        <5> QED BY <5>1, <5>2
      <4>2. a + 1 \in Nat \ {0}
        OBVIOUS
      <4>3. Extent(L.shape, a + 1, lane - 1) \in Nat \ {0}
        BY <1>1, <4>1, <4>2, ExtentNat
      <4> QED BY <4>3, DivModFloor, 1 \in Int
    <3> HIDE DEF x
    <3> QED BY <3>1
  <2>5. L.shape[a] # 1 => L.stride[a] > 0
    BY <1>2, <2>3 DEF Rising
  <2> HIDE DEF x, d
  <2>6. CASE L.shape[a] = 1
    BY <2>2, <2>3, <2>4, <2>6
  <2>7. CASE L.shape[a] # 1
    <3>1. d * L.stride[a] >= 0 /\ d * L.stride[a] \in Int
      BY <2>1, <2>3, <2>5, <2>7, ProductNat, d \in Int, d >= 0, L.stride[a] >= 0
    <3> QED BY <2>2, <3>1
  <2> QED BY <2>6, <2>7
<1>4. Total(RowTerm(1), lane - 1) \in Nat
  BY <1>1, <1>3, TotalNatural
<1>5. row_base(1) = L.base + Total(RowTerm(1), lane - 1)
  BY DEF row_base, RowTerm
<1>6. row_base(0) = L.base
  BY RowBase, 0 \in Nat
<1> QED BY <1>1, <1>4, <1>5, <1>6 DEF S_row

LEMMA RowsLieApart == Arguments /\ FACE > 1 /\ TypeInv /\ ChainInv => RowsApart
<1> SUFFICES ASSUME Arguments, FACE > 1, TypeInv, ChainInv, ok, Ro * Co # 0
             PROVE  /\ L.base >= 0 /\ L.base % FACE = 0 /\ S_row % FACE = 0
                    /\ Ro > 1 => Co <= S_row
                    /\ L.base + (Ro - 1) * S_row + Co <= src_rows_ * src_cols_
  BY DEF RowsApart, AffineDesc
<1>1. LayoutInv /\ BindInv /\ FaceAligned /\ FACE \in Nat \ {0}
  BY TileFacts DEF TypeInv, ok
<1>2. Exact
  BY AcceptedIsExact
<1>3. Co \in Nat /\ Ro \in Nat /\ L.base \in Int
  BY <1>1, LaneFacts
<1>4. Co \in Nat \ {0} /\ Ro \in Nat \ {0}
  BY <1>3
<1>5. S_row \in Nat
  BY <1>1, <1>2, <1>4, RowsGrow
<1>6. Co % FACE = 0 /\ L.base % FACE = 0
  BY <1>1 DEF FaceAligned
<1>7. FaceRowsWhole
  BY FaceRows
<1>8. L.base >= 0
  <2>1. 0 % FACE = 0
    BY <1>1
  <2>2. <<0, 0>> \in LiveFaces
    BY <1>4, <2>1 DEF LiveFaces
  <2>3. L.base + 0 * S_row + 0 >= 0
    BY <1>7, <2>2 DEF FaceRowsWhole
  <2> QED BY <1>3, <1>5, <2>3
<1>9. S_row % FACE = 0
  <2>1. row_base(0) \in Int /\ row_base(1) \in Int
    BY <1>1, <1>4, RowBase, 0 \in Nat, 1 \in Nat
  <2>2. row_base(0) % FACE = 0 /\ row_base(1) % FACE = 0
    BY <1>1, <1>4, RowAligned, 0 \in Nat, 1 \in Nat
  <2> DEFINE x == row_base(1)
             y == row_base(0)
  <2>3. x \in Int /\ y \in Int /\ x % FACE = 0 /\ y % FACE = 0
    BY <2>1, <2>2
  <2>4. S_row = IF Ro > 1 THEN x - y ELSE 0
    BY DEF S_row
  <2> HIDE DEF x, y
  <2> DEFINE z == 0 - 1
  <2>8. z \in Int /\ z = 0 - 1
    OBVIOUS
  <2> HIDE DEF z
  <2>9. z \in Int /\ y \in Int /\ FACE \in Nat \ {0} /\ y % FACE = 0
    BY <1>1, <2>3, <2>8
  <2>10. (z * y) % FACE = 0
    BY <2>9, MultipleProduct, Zenon
  <2>5. (z * y) % FACE = 0 /\ z * y \in Int
    BY <2>9, <2>10
  <2>6. (x + (z * y)) % FACE = 0
    BY <1>1, <2>3, <2>5, MultipleSum
  <2>7. x - y = x + (z * y) /\ 0 % FACE = 0
    BY <1>1, <2>3, <2>8
  <2> QED BY <2>4, <2>6, <2>7
\* Were a row to begin inside the one before it, an element would be presented
\* twice.
<1>10. ASSUME Ro > 1, S_row < Co PROVE FALSE
  <2> DEFINE M == Ro * Co
             E == array.elems
  <2>1. AcceptedExact
    BY ChainAccepted
  <2>2. E = [i \in 1 .. M |-> L.base + ((i - 1) \div Co) * S_row + ((i - 1) % Co)]
    BY <2>1 DEF AcceptedExact, AffineDesc
  <2>3. Distinct(E, M)
    <3>1. Extent(L.shape, 1, Len(L.shape)) = M
      <4>1. \A k \in 1 .. lane : L.shape[k] \in Int
        BY <1>1, LaneFacts
      <4>2. lane \in Nat \ {0}
        BY <1>1, LaneFacts
      <4>3. Extent(L.shape, 1, lane) = Extent(L.shape, 1, lane - 1) * L.shape[lane]
        BY <4>1, <4>2, ExtentStep, 1 \in Nat \ {0}, lane >= 1
      <4> QED BY <4>3 DEF Ro, Co, lane
    <3> QED BY <1>2, <3>1 DEF Exact
  <2>4. M \in Nat /\ S_row + 1 \in 1 .. M /\ Co + 1 \in 1 .. M
    <3>1. (Ro - 2) * Co >= 0
      BY <1>4, <1>10, ProductNat, Ro - 2 \in Int, Ro - 2 >= 0, Co >= 0
    <3>2. (Ro - 2) * Co = Ro * Co - 2 * Co /\ Ro * Co \in Int
      BY <1>4
    <3> QED BY <1>4, <1>5, <1>10, <3>1, <3>2
  <2>5. S_row \div Co = 0 /\ S_row % Co = S_row
    <3>1. S_row = 0 * Co + S_row /\ S_row \in Int /\ 0 \in Int /\ 0 <= S_row
      BY <1>4, <1>5
    <3> QED BY <1>4, <1>10, <3>1, DivModUnique
  <2>6. Co \div Co = 1 /\ Co % Co = 0
    <3>1. Co = 1 * Co + 0 /\ Co \in Int /\ 1 \in Int /\ 0 \in Int /\ 0 <= 0 /\ 0 < Co
      BY <1>4
    <3> QED BY <1>4, <3>1, DivModUnique
  <2> HIDE DEF M, E
  <2>7. E[S_row + 1] = L.base + S_row
    <3>1. (S_row + 1) - 1 = S_row
      BY <1>5
    <3>2. E[S_row + 1] = L.base + (S_row \div Co) * S_row + (S_row % Co)
      BY <2>2, <2>4, <3>1
    <3> QED BY <1>3, <1>5, <2>5, <3>2
  <2>8. E[Co + 1] = L.base + S_row
    <3>1. (Co + 1) - 1 = Co
      BY <1>4
    <3>2. E[Co + 1] = L.base + (Co \div Co) * S_row + (Co % Co)
      BY <2>2, <2>4, <3>1
    <3> QED BY <1>3, <1>5, <2>6, <3>2
  <2>9. S_row + 1 = Co + 1
    BY <2>3, <2>4, <2>7, <2>8 DEF Distinct
  <2> QED BY <1>4, <1>5, <1>10, <2>9
<1>11. L.base + (Ro - 1) * S_row + Co <= src_rows_ * src_cols_
  <2> DEFINE C == src_cols_
             R == src_rows_
             f == <<Ro - 1, Co - FACE>>
             k == L.base + (Ro - 1) * S_row + (Co - FACE)
  <2>1. C \in Nat \ {0} /\ R \in Nat \ {0}
    BY <1>1, SrcTiled
  <2>2. Co - FACE \in Int /\ Co - FACE >= 0 /\ (Co - FACE) % FACE = 0
    BY <1>1, <1>4, <1>6, MultipleLeast
  <2>3. f \in LiveFaces
    BY <1>1, <1>4, <2>2 DEF LiveFaces
  <2>4. f[1] = Ro - 1 /\ f[2] = Co - FACE
    OBVIOUS
  <2> HIDE DEF f
  <2>5. (k + FACE - 1) \div C = k \div C /\ k \div C < R
    BY <1>7, <2>3, <2>4 DEF FaceRowsWhole
  <2>6. PICK x \in Int : x = (Ro - 1) * S_row
    BY <1>4, <1>5
  <2>15. k = L.base + x + (Co - FACE) /\ FACE \in Int /\ Co \in Int
    BY <1>1, <1>4, <2>6
  <2> HIDE DEF k
  <2>7. k \in Int /\ k + FACE = L.base + (Ro - 1) * S_row + Co
    BY <1>3, <2>6, <2>15
  <2> HIDE DEF C, R
  <2> DEFINE z == k + FACE - 1
             w == z \div C
  <2>8. z \in Int /\ z = k + FACE - 1
    BY <1>1, <2>7
  <2>9. w < R
    BY <2>5
  <2> HIDE DEF z
  <2>10. w \in Int /\ z = w * C + (z % C) /\ z % C < C /\ z % C \in Int
    BY <2>1, <2>8, DivModFloor
  <2> HIDE DEF w
  <2>11. (R - 1 - w) * C >= 0
    BY <2>1, <2>9, <2>10, ProductNat, R - 1 - w \in Int, R - 1 - w >= 0, C >= 0
  <2>12. (R - 1 - w) * C = R * C - C - w * C /\ R * C \in Int /\ w * C \in Int
    BY <2>1, <2>10
  <2>13. z + 1 <= R * C
    BY <2>1, <2>8, <2>10, <2>11, <2>12
  <2>14. k + FACE <= R * C
    BY <1>1, <2>7, <2>8, <2>13
  <2> QED BY <2>7, <2>14 DEF C, R
<1> QED BY <1>4, <1>5, <1>6, <1>8, <1>9, <1>10, <1>11

\* Every accepted view presents exactly the elements its verbs select.
THEOREM AcceptedHolds ==
  Arguments /\ ~SqueezeLate /\ FACE > 1 /\ Spec => []AcceptedExact
<1> SUFFICES ASSUME Arguments, ~SqueezeLate, FACE > 1 PROVE Spec => []AcceptedExact
  OBVIOUS
<1>1. Init => TypeInv /\ ChainInv
  BY TypeInit, InitExact DEF ChainInv
<1>2. TypeInv /\ ChainInv /\ [Next]_vars => (TypeInv /\ ChainInv)'
  BY TypeStep, ChainStep
<1>3. TypeInv /\ ChainInv => AcceptedExact
  BY ChainAccepted
<1> QED BY <1>1, <1>2, <1>3, PTL DEF Spec

\* Every accepted view's rows lie apart in the source: the maps lower() hands out
\* satisfy what the device views and the programs assume of theirs.
THEOREM RowsApartHold ==
  Arguments /\ ~SqueezeLate /\ FACE > 1 /\ Spec => []RowsApart
<1> SUFFICES ASSUME Arguments, ~SqueezeLate, FACE > 1 PROVE Spec => []RowsApart
  OBVIOUS
<1>1. Init => TypeInv /\ ChainInv
  BY TypeInit, InitExact DEF ChainInv
<1>2. TypeInv /\ ChainInv /\ [Next]_vars => (TypeInv /\ ChainInv)'
  BY TypeStep, ChainStep
<1>3. TypeInv /\ ChainInv => RowsApart
  BY RowsLieApart
<1> QED BY <1>1, <1>2, <1>3, PTL DEF Spec
=============================================================================
