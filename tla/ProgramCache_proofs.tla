------------------------- MODULE ProgramCache_proofs -------------------------
(***************************************************************************)
(* What a launch does, for any calls, in any order and at any addresses.   *)
(* First, reusing a cached program is never visible and its kernels agree  *)
(* on the work.  Then the kernels together compute what the call means:    *)
(* how the work is shared, what a view gives at a cell of its tile, where  *)
(* results are stored, and the operands an output element is made of, op   *)
(* by op.  Last, no page past the end of a tensor is touched.              *)
(***************************************************************************)
EXTENDS ProgramKernels, FiniteSetTheorems, FunctionTheorems, TLAPS

-----------------------------------------------------------------------------
\* Integer division by a positive divisor: the only quotient and remainder.
LEMMA DivModFloor ==
  ASSUME NEW a \in Int, NEW b \in Nat \ {0}
  PROVE  /\ a \div b \in Int /\ a % b \in Int
         /\ a = ((a \div b) * b) + (a % b)
         /\ 0 <= a % b /\ a % b < b
OBVIOUS

LEMMA ProductNat ==
  ASSUME NEW a \in Int, NEW b \in Int, a >= 0, b >= 0
  PROVE  a * b \in Int /\ a * b >= 0
OBVIOUS

LEMMA DivModUnique ==
  ASSUME NEW k \in Int, NEW b \in Nat \ {0}, NEW q \in Int, NEW s \in Int,
         k = q * b + s, 0 <= s, s < b
  PROVE  q = k \div b /\ s = k % b
OBVIOUS

LEMMA QuotientNat ==
  ASSUME NEW a \in Nat, NEW b \in Nat \ {0}
  PROVE  a \div b \in Nat /\ a % b \in 0 .. b - 1
OBVIOUS

LEMMA DivModNat ==
  ASSUME NEW a \in Nat, NEW b \in Nat \ {0}
  PROVE  a \div b \in Nat /\ a = (a \div b) * b + (a % b) /\ a % b \in 0 .. b - 1
OBVIOUS

LEMMA SmallRemainder ==
  ASSUME NEW r \in Nat, NEW n \in Nat \ {0}, r < n
  PROVE  r % n = r /\ r \div n = 0 /\ r \div 1 = r
OBVIOUS

LEMMA WholeQuotient ==
  ASSUME NEW a \in Nat \ {0}, NEW b \in Nat \ {0}, a % b = 0
  PROVE  a \div b \in Nat \ {0} /\ a = (a \div b) * b
OBVIOUS

LEMMA QuotientBound ==
  ASSUME NEW a \in Nat, NEW b \in Nat \ {0}, NEW n \in Nat, a < n * b
  PROVE  a \div b < n
OBVIOUS

\* A digit of a number is that of its remainder by a multiple of the base.
LEMMA NestedRemainder ==
  ASSUME NEW t \in Nat, NEW a \in Nat \ {0}, NEW m \in Nat \ {0}, m % a = 0
  PROVE  (t % m) % a = t % a /\ (t % m) \div a = (t \div a) % (m \div a)
<1> DEFINE n == m \div a
           q == t \div a
           r == t % a
<1>1. q \in Int /\ r \in Int /\ t = (q * a) + r /\ 0 <= r /\ r < a
  BY DivModFloor
<1>2. n \in Int /\ m = n * a
  BY DivModFloor
<1> HIDE DEF q, r, n
<1>3. n \in Nat \ {0}
  <2> SUFFICES ASSUME n <= 0 PROVE FALSE
    BY <1>2
  <2>1. (-n) * a >= 0
    BY <1>2, ProductNat, -n \in Nat
  <2>2. (-n) * a = -(n * a)
    BY <1>2
  <2> QED BY <1>2, <2>1, <2>2
<1> DEFINE q2 == q \div n
           r2 == q % n
<1>4. q2 \in Int /\ r2 \in Int /\ q = (q2 * n) + r2 /\ 0 <= r2 /\ r2 < n
  BY <1>1, <1>3, DivModFloor
<1> HIDE DEF q2, r2
<1> DEFINE s == r2 * a + r
<1>5. r2 * a \in Int /\ r2 * a >= 0 /\ (n - 1 - r2) * a \in Int /\ (n - 1 - r2) * a >= 0
  BY <1>3, <1>4, ProductNat, n - 1 - r2 \in Nat
<1>6. (n - 1 - r2) * a = m - a - r2 * a
  BY <1>2, <1>4
<1>7. s \in Int /\ 0 <= s /\ s < m
  BY <1>1, <1>5, <1>6
<1>8. t = q2 * m + s
  <2>1. q * a = q2 * m + r2 * a
    BY <1>2, <1>4
  <2> QED BY <1>1, <1>4, <1>5, <2>1
<1>9. s = t % m
  <2> HIDE DEF s
  <2> QED BY <1>4, <1>7, <1>8, DivModUnique
<1>10. r2 = s \div a /\ r = s % a
  BY <1>1, <1>4, <1>7, DivModUnique
<1> HIDE DEF s
<1>11. (t % m) % a = r /\ (t % m) \div a = r2
  BY <1>9, <1>10
<1> QED BY <1>11 DEF n, q, r, r2

-----------------------------------------------------------------------------
\* An element e of a tensor S across lies in row e div S and column e % S, and
\* these lie in a tile of T by T elements.
PageNumber(e, S, T) == ((e \div S) \div T) * (S \div T) + (e % S) \div T

Located(e, S, T, r, c, w, p, x) ==
  /\ w \in Nat \ {0} /\ S = w * T
  /\ r \in Nat /\ c \in 0 .. S - 1 /\ e = r * S + c
  /\ p \in Nat /\ r % T \in 0 .. T - 1 /\ r = p * T + (r % T)
  /\ x \in 0 .. w - 1 /\ c % T \in 0 .. T - 1 /\ c = x * T + (c % T)

LEMMA ElementSplit ==
  ASSUME NEW T \in Nat \ {0}, NEW S \in Nat \ {0}, S % T = 0, NEW e \in Nat
  PROVE  /\ Located(e, S, T, e \div S, e % S, S \div T, (e \div S) \div T, (e % S) \div T)
         /\ PageNumber(e, S, T) \in Nat
<1>1. S \div T \in Nat \ {0} /\ S = (S \div T) * T
  BY WholeQuotient
<1> DEFINE r == e \div S
           c == e % S
           w == S \div T
<1>2. r \in Nat /\ c \in 0 .. S - 1 /\ e = r * S + c
  BY DivModNat
<1>3. w \in Nat \ {0} /\ S = w * T
  BY <1>1
<1> HIDE DEF r, c, w
<1>10. c \in Nat
  BY <1>2
<1>4. r \div T \in Nat /\ r % T \in 0 .. T - 1 /\ r = (r \div T) * T + (r % T)
  BY <1>2, DivModNat
<1>5. c \div T \in Nat /\ c % T \in 0 .. T - 1 /\ c = (c \div T) * T + (c % T)
  BY <1>10, DivModNat
<1>6. c \div T < w
  <2>1. c < w * T
    BY <1>2, <1>3
  <2> QED BY <1>3, <1>10, <2>1, QuotientBound
<1> DEFINE p == r \div T
           x == c \div T
<1>7. p \in Nat /\ x \in Nat
  BY <1>4, <1>5
<1> HIDE DEF p, x
<1>8. p * w + x \in Nat
  BY <1>3, <1>7, ProductNat
<1>9. (r \div T) * w + c \div T \in Nat
  BY <1>8 DEF p, x
<1>11. x \in 0 .. w - 1
  BY <1>3, <1>6, <1>7 DEF x
<1>12. Located(e, S, T, r, c, w, p, x)
  BY <1>2, <1>3, <1>4, <1>5, <1>11 DEF Located, p, x
<1> QED BY <1>9, <1>12 DEF PageNumber, r, c, w, p, x

\* An element is told by its page and its place in it.
LEMMA PlaceUnique ==
  ASSUME NEW T \in Nat \ {0}, NEW S \in Nat \ {0}, S % T = 0, NEW e \in Nat, NEW f \in Nat,
         PageNumber(e, S, T) = PageNumber(f, S, T),
         (e \div S) % T = (f \div S) % T, (e % S) % T = (f % S) % T
  PROVE  e = f
<1> DEFINE w == S \div T
           re == e \div S
           ce == e % S
           rf == f \div S
           cf == f % S
           p == re \div T
           q == rf \div T
           x == ce \div T
           y == cf \div T
<1>1. /\ w \in Nat \ {0} /\ p \in Int /\ x \in 0 .. w - 1 /\ q \in Int /\ y \in 0 .. w - 1
      /\ p * w + x = q * w + y
      /\ e = re * S + ce /\ f = rf * S + cf
      /\ re = p * T + (re % T) /\ ce = x * T + (ce % T)
      /\ rf = q * T + (rf % T) /\ cf = y * T + (cf % T)
      /\ re % T = rf % T /\ ce % T = cf % T
  <2>1. p * w + x = q * w + y
    BY DEF PageNumber
  <2>2. Located(e, S, T, re, ce, w, p, x) /\ Located(f, S, T, rf, cf, w, q, y)
    BY ElementSplit
  <2>3. re % T = rf % T /\ ce % T = cf % T
    OBVIOUS
  <2> HIDE DEF w, re, ce, rf, cf, p, q, x, y
  <2> QED BY <2>1, <2>2, <2>3 DEF Located
<1> HIDE DEF w, re, ce, rf, cf, p, q, x, y
<1>2. p = q /\ x = y
  <2> DEFINE k == p * w + x
  <2>1. k = p * w + x /\ k = q * w + y /\ k \in Int
    BY <1>1
  <2> HIDE DEF k
  <2>2. x \in Int /\ y \in Int /\ 0 <= x /\ x < w /\ 0 <= y /\ y < w
    BY <1>1
  <2>3. p = k \div w /\ x = k % w
    <3>1. k = p * w + x /\ k \in Int /\ w \in Nat \ {0} /\ p \in Int
      BY <1>1, <2>1
    <3> QED BY <2>2, <3>1, DivModUnique
  <2>4. q = k \div w /\ y = k % w
    <3>1. k = q * w + y /\ k \in Int /\ w \in Nat \ {0} /\ q \in Int
      BY <1>1, <2>1
    <3> QED BY <2>2, <3>1, DivModUnique
  <2> QED BY <2>3, <2>4
<1> QED BY <1>1, <1>2

\* An element of the first P rows lies in one of their pages.
LEMMA PlaceBound ==
  ASSUME NEW T \in Nat \ {0}, NEW S \in Nat \ {0}, S % T = 0, NEW e \in Nat,
         NEW P \in Nat, P % T = 0, e < P * S
  PROVE  PageNumber(e, S, T) < (P \div T) * (S \div T)
<1> DEFINE w == S \div T
           r == e \div S
           p == r \div T
           x == (e % S) \div T
           h == P \div T
<1>1. w \in Nat \ {0} /\ r \in Nat /\ p \in Nat /\ x \in 0 .. w - 1
  <2>1. Located(e, S, T, r, e % S, w, p, x)
    BY ElementSplit
  <2> HIDE DEF w, r, p, x
  <2> QED BY <2>1 DEF Located
<1>2. h \in Nat /\ P = h * T
  BY DivModNat
<1>3. r < P
  BY QuotientBound
<1> HIDE DEF w, r, h, x
<1>4. p < h
  BY <1>1, <1>2, <1>3, QuotientBound
<1> HIDE DEF p
<1>5. (h - 1 - p) * w >= 0
  BY <1>1, <1>2, <1>4, ProductNat, h - 1 - p \in Nat
<1>6. (h - 1 - p) * w = h * w - w - p * w /\ h * w \in Int /\ p * w \in Int
  BY <1>1, <1>2
<1>7. p * w + x < h * w
  BY <1>1, <1>5, <1>6
<1> QED BY <1>7 DEF w, r, h, x, p, PageNumber

-----------------------------------------------------------------------------
\* Work shared out evenly: the first U % N of N workers do one unit more.
EvenShare(U, N, k) == U \div N + (IF k < U % N THEN 1 ELSE 0)
EvenBefore(U, N, k) == k * (U \div N) + (IF k < U % N THEN k ELSE U % N)

LEMMA EvenFacts ==
  ASSUME NEW U \in Nat, NEW N \in Nat \ {0}, NEW k \in 0 .. N - 1
  PROVE  /\ EvenShare(U, N, k) \in Nat /\ EvenBefore(U, N, k) \in Nat
         /\ EvenBefore(U, N, k) + EvenShare(U, N, k) <= U
         /\ \A j \in k + 1 .. N - 1 :
              EvenBefore(U, N, k) + EvenShare(U, N, k) <= EvenBefore(U, N, j)
<1> DEFINE q == U \div N
           r == U % N
<1>1. q \in Nat /\ r \in 0 .. N - 1 /\ U = q * N + r
  BY DivModNat
<1>2. /\ EvenShare(U, N, k) = q + (IF k < r THEN 1 ELSE 0)
      /\ \A j : EvenBefore(U, N, j) = j * q + (IF j < r THEN j ELSE r)
  BY DEF EvenShare, EvenBefore
<1> HIDE DEF q, r
<1>3. k * q \in Nat
  BY <1>1, ProductNat
<1>4. EvenShare(U, N, k) \in Nat /\ EvenBefore(U, N, k) \in Nat
  BY <1>1, <1>2, <1>3
<1>5. EvenBefore(U, N, k) + EvenShare(U, N, k) = (k + 1) * q + (IF k < r THEN k + 1 ELSE r)
  <2>1. (k + 1) * q = k * q + q
    BY <1>1
  <2> QED BY <1>1, <1>2, <1>3, <2>1
<1>6. ASSUME NEW j \in k + 1 .. N
      PROVE  EvenBefore(U, N, k) + EvenShare(U, N, k) <= j * q + (IF j < r THEN j ELSE r)
  <2>1. (j - (k + 1)) * q >= 0
    BY <1>1, ProductNat, j - (k + 1) \in Nat
  <2>2. (j - (k + 1)) * q = j * q - (k + 1) * q
    BY <1>1
  <2>3. j * q \in Int /\ (k + 1) * q \in Int
    BY <1>1
  <2>4. (IF k < r THEN k + 1 ELSE r) <= (IF j < r THEN j ELSE r)
    BY <1>1
  <2> QED BY <1>1, <1>5, <2>1, <2>2, <2>3, <2>4
<1>7. EvenBefore(U, N, k) + EvenShare(U, N, k) <= U
  BY <1>1, <1>6
<1> QED BY <1>2, <1>4, <1>6, <1>7

\* Every unit is some worker's.
LEMMA EvenCover ==
  ASSUME NEW U \in Nat, NEW N \in Nat \ {0}, NEW u \in 0 .. U - 1
  PROVE  \E k \in 0 .. N - 1 :
           EvenBefore(U, N, k) <= u /\ u < EvenBefore(U, N, k) + EvenShare(U, N, k)
<1> DEFINE q == U \div N
           r == U % N
           m == q + 1
           b == r * m
<1>1. q \in Nat /\ r \in 0 .. N - 1 /\ U = q * N + r
  BY DivModNat
<1>2. \A k : /\ EvenShare(U, N, k) = q + (IF k < r THEN 1 ELSE 0)
             /\ EvenBefore(U, N, k) = k * q + (IF k < r THEN k ELSE r)
  BY DEF EvenShare, EvenBefore
<1> HIDE DEF q, r
<1>3. m \in Nat \ {0} /\ b = r * q + r /\ r * q \in Nat /\ b \in Nat
  BY <1>1, ProductNat
<1> HIDE DEF m, b
<1>4. CASE u < b
  <2> DEFINE k == u \div m
  <2>1. k \in Nat /\ u = k * m + (u % m) /\ u % m \in 0 .. m - 1
    BY <1>3, u \in Nat, DivModNat
  <2>2. k < r
    <3>1. u < r * m
      BY <1>4 DEF b
    <3> QED BY <1>1, <1>3, <3>1, QuotientBound
  <2> HIDE DEF k
  <2>3. k \in 0 .. N - 1 /\ k * m = k * q + k /\ k * q \in Int
    BY <1>1, <2>1, <2>2 DEF m
  <2>4. EvenShare(U, N, k) = m /\ EvenBefore(U, N, k) = k * q + k
    BY <1>2, <2>2 DEF m
  <2>5. EvenBefore(U, N, k) <= u /\ u < EvenBefore(U, N, k) + EvenShare(U, N, k)
    BY <1>3, <2>1, <2>3, <2>4
  <2> QED BY <2>3, <2>5
<1>5. CASE u >= b
  <2>1. q # 0
    <3> SUFFICES ASSUME q = 0 PROVE FALSE
      OBVIOUS
    <3>1. q * N = 0 /\ r * q = 0
      BY <1>1
    <3> QED BY <1>1, <1>3, <1>5, <3>1
  <2>2. q \in Nat \ {0} /\ u - b \in Nat
    BY <1>1, <1>3, <1>5, <2>1
  <2> DEFINE d == (u - b) \div q
             k == r + d
  <2>3. d \in Nat /\ u - b = d * q + ((u - b) % q) /\ (u - b) % q \in 0 .. q - 1
    BY <2>2, DivModNat
  <2>4. d < N - r
    <3>1. (N - r) * q = q * N - r * q
      BY <1>1
    <3>2. u - b < (N - r) * q
      BY <1>1, <1>3, <3>1
    <3> QED BY <1>1, <2>2, <3>2, QuotientBound, N - r \in Nat
  <2> HIDE DEF d
  <2>5. k \in 0 .. N - 1 /\ ~(k < r) /\ k * q = r * q + d * q /\ d * q \in Int
    BY <1>1, <2>3, <2>4
  <2> HIDE DEF k
  <2>6. EvenShare(U, N, k) = q /\ EvenBefore(U, N, k) = k * q + r
    BY <1>1, <1>2, <2>5
  <2>7. EvenBefore(U, N, k) <= u /\ u < EvenBefore(U, N, k) + EvenShare(U, N, k)
    BY <1>1, <1>3, <2>2, <2>3, <2>5, <2>6
  <2> QED BY <2>5, <2>7
<1> QED BY <1>3, <1>4, <1>5

-----------------------------------------------------------------------------
Calls == UNION Sessions
Ins(c0, base) == tensor_args(c0, base)
OutOf(c0, dst) == resolve_output(c0, Attributes(c0), dst)
KeyOf(c0, base, dst) ==
  Key(Attributes(c0), Ins(c0, base), IsBound(c0), OutOf(c0, dst))
Anew(c0, base, dst) == create(Attributes(c0), Ins(c0, base), OutOf(c0, dst))

-----------------------------------------------------------------------------
\* Rewriting the addresses a list begins with gives the list packed for them.
LEMMA PatchedAnew ==
  ASSUME NEW old, NEW addrs, NEW rest, Len(old) = Len(addrs)
  PROVE  Patched(WithAddresses(old, rest), addrs) = WithAddresses(addrs, rest)
<1> DEFINE n == Len(addrs)
           m == Len(rest)
<1>1. WithAddresses(old, rest)
        = [i \in 1 .. n + m |-> IF i <= n THEN old[i] ELSE rest[i - n]]
  BY DEF WithAddresses
<1>2. WithAddresses(addrs, rest)
        = [i \in 1 .. n + m |-> IF i <= n THEN addrs[i] ELSE rest[i - n]]
  BY DEF WithAddresses
<1>3. Patched(WithAddresses(old, rest), addrs)
        = [i \in 1 .. n + m |-> IF i <= n THEN addrs[i] ELSE
             IF i <= n THEN old[i] ELSE rest[i - n]]
  BY <1>1 DEF Patched
<1> HIDE DEF n, m
<1> QED BY <1>2, <1>3

\* The same of an indexed copy, whose list may hold the index's address too.
LEMMA PatchedIndexAnew ==
  ASSUME NEW a, NEW k, NEW old, NEW oldidx, NEW addr, NEW idx, NEW indexed \in BOOLEAN
  PROVE  PatchedIndex(index_args(a, k, old, indexed, oldidx), addr, indexed, idx)
           = index_args(a, k, addr, indexed, idx)
<1>1. CASE indexed
  BY <1>1 DEF PatchedIndex, index_args
<1>2. CASE ~indexed
  BY <1>2 DEF PatchedIndex, index_args
<1> QED BY <1>1, <1>2

\* Tensors come as a sequence, and there are as many addresses as tensors.
LEMMA AddressesLen ==
  ASSUME NEW c0 \in Calls, NEW base
  PROVE  /\ DOMAIN Ins(c0, base) = 1 .. Len(Addresses(Ins(c0, base)))
         /\ Len(Addresses(Ins(c0, base))) \in Nat
<1> DEFINE n == IF c0.op \in Norms THEN 3 ELSE Len(c0.views)
           ins == Ins(c0, base)
           A == {ins[i].addr : i \in 1 .. n}
<1>1. n \in Nat
  BY CallAssumption DEF Calls
<1>2. DOMAIN ins = 1 .. n
  BY DEF Ins, tensor_args
<1> HIDE DEF n, ins
<1>3. Addresses(ins) \in [1 .. n -> A]
  BY <1>2 DEF Addresses
<1>4. Addresses(ins) \in Seq(A)
  BY <1>1, <1>3
<1>5. Len(Addresses(ins)) = n
  BY <1>1, <1>3, <1>4
<1> QED BY <1>1, <1>2, <1>5 DEF ins

\* The key tells apart whatever a program depends on besides addresses: an
\* output that is not bound has the spec the attributes compute for it.
LEMMA SameKey ==
  ASSUME NEW c1, NEW b1, NEW d1, NEW c2, NEW b2, NEW d2,
         KeyOf(c1, b1, d1) = KeyOf(c2, b2, d2)
  PROVE  /\ Attributes(c1) = Attributes(c2)
         /\ DOMAIN Ins(c1, b1) = DOMAIN Ins(c2, b2)
         /\ \A i \in DOMAIN Ins(c1, b1) : Ins(c1, b1)[i].spec = Ins(c2, b2)[i].spec
         /\ OutOf(c1, d1).spec = OutOf(c2, d2).spec
<1> DEFINE f1 == [i \in DOMAIN Ins(c1, b1) |-> Ins(c1, b1)[i].spec]
           f2 == [i \in DOMAIN Ins(c2, b2) |-> Ins(c2, b2)[i].spec]
           o1 == IF IsBound(c1) THEN <<OutOf(c1, d1).spec>> ELSE <<>>
           o2 == IF IsBound(c2) THEN <<OutOf(c2, d2).spec>> ELSE <<>>
<1>1. Attributes(c1) = Attributes(c2) /\ f1 = f2 /\ o1 = o2
  BY DEF KeyOf, Key
<1>2. OutOf(c1, d1).spec = OutOf(c2, d2).spec
  <2>1. CASE IsBound(c1) /\ IsBound(c2)
    BY <1>1, <2>1
  <2>2. CASE ~IsBound(c1) /\ ~IsBound(c2)
    BY <1>1, <2>2 DEF OutOf, resolve_output
  <2>3. IsBound(c1) <=> IsBound(c2)
    BY <1>1
  <2> QED BY <2>1, <2>2, <2>3
<1>3. DOMAIN Ins(c1, b1) = DOMAIN Ins(c2, b2)
  BY <1>1
<1>4. ASSUME NEW i \in DOMAIN Ins(c1, b1)
      PROVE  Ins(c1, b1)[i].spec = Ins(c2, b2)[i].spec
  BY <1>1, <1>3
<1> QED BY <1>1, <1>2, <1>3, <1>4

\* A program built for one call and overridden for another with its key is
\* the program built for the other.
LEMMA OverrideAnew ==
  ASSUME NEW c1 \in Calls, NEW b1, NEW d1, NEW c2 \in Calls, NEW b2, NEW d2,
         KeyOf(c1, b1, d1) = KeyOf(c2, b2, d2)
  PROVE  override_runtime_arguments(
           Anew(c1, b1, d1), Attributes(c2), Ins(c2, b2), OutOf(c2, d2)) = Anew(c2, b2, d2)
<1> DEFINE a == Attributes(c2)
           i1 == Ins(c1, b1)
           i2 == Ins(c2, b2)
           o1 == OutOf(c1, d1)
           o2 == OutOf(c2, d2)
           p == create(a, i1, o1)
           q == create(a, i2, o2)
           r == override_runtime_arguments(p, a, i2, o2)
<1>1. /\ Attributes(c1) = a /\ DOMAIN i1 = DOMAIN i2
      /\ \A i \in DOMAIN i1 : i1[i].spec = i2[i].spec
      /\ o1.spec = o2.spec
  BY SameKey
<1>2. Len(Addresses(i1)) = Len(Addresses(i2))
  <2>1. /\ Len(Addresses(i1)) \in Nat /\ Len(Addresses(i2)) \in Nat
        /\ 1 .. Len(Addresses(i1)) = 1 .. Len(Addresses(i2))
    BY <1>1, AddressesLen
  <2> QED BY <2>1
<1> HIDE DEF a, i1, i2, o1, o2
<1>3. p.kernels = q.kernels
  BY <1>1 DEF create, Kernels
<1>4. ASSUME NEW k \in AllCores(a)
      PROVE  (IF a.op \in RowCopies
              THEN PatchedIndex(ReaderList(a, i1, k), i2[1].addr, gather(a), i2[2].addr)
              ELSE Patched(ReaderList(a, i1, k), Addresses(i2))) = ReaderList(a, i2, k)
  <2>1. CASE a.op \in RowCopies
    <3>1. gather(a) \in BOOLEAN
      BY DEF gather
    <3>2. PatchedIndex(index_args(a, k, i1[1].addr, gather(a), i1[2].addr),
                       i2[1].addr, gather(a), i2[2].addr)
            = index_args(a, k, i2[1].addr, gather(a), i2[2].addr)
      BY <3>1, PatchedIndexAnew
    <3> QED BY <2>1, <3>2 DEF ReaderList
  <2>2. CASE a.op \notin RowCopies
    <3>1. Patched(WithAddresses(Addresses(i1), reader_args(a, k)), Addresses(i2))
            = WithAddresses(Addresses(i2), reader_args(a, k))
      BY <1>2, PatchedAnew
    <3> QED BY <2>2, <3>1 DEF ReaderList
  <2> QED BY <2>1, <2>2
<1>5. ASSUME NEW k \in AllCores(a)
      PROVE  (IF a.op \in RowCopies
              THEN PatchedIndex(WriterList(a, i1, o1, k), o2.addr, ~gather(a), i2[2].addr)
              ELSE Patched(WriterList(a, i1, o1, k), <<o2.addr>>)) = WriterList(a, i2, o2, k)
  <2>1. CASE a.op \in RowCopies
    <3>1. PICK b \in BOOLEAN : b <=> ~gather(a)
      OBVIOUS
    <3>2. PatchedIndex(index_args(a, k, o1.addr, b, i1[2].addr), o2.addr, b, i2[2].addr)
            = index_args(a, k, o2.addr, b, i2[2].addr)
      BY <3>1, PatchedIndexAnew
    <3>3. PatchedIndex(index_args(a, k, o1.addr, ~gather(a), i1[2].addr),
                       o2.addr, ~gather(a), i2[2].addr)
            = index_args(a, k, o2.addr, ~gather(a), i2[2].addr)
      BY <3>1, <3>2 DEF PatchedIndex, index_args
    <3> QED BY <2>1, <3>3 DEF WriterList
  <2>2. CASE a.op \notin RowCopies
    <3>1. Len(<<o1.addr>>) = Len(<<o2.addr>>)
      OBVIOUS
    <3>2. Patched(WithAddresses(<<o1.addr>>, writer_args(a, k)), <<o2.addr>>)
            = WithAddresses(<<o2.addr>>, writer_args(a, k))
      BY <3>1, PatchedAnew
    <3> QED BY <2>2, <3>2 DEF WriterList
  <2> QED BY <2>1, <2>2
<1>6. r = q
  <2> DEFINE R(ins) == [k \in AllCores(a) |-> ReaderList(a, ins, k)]
             W(ins, out) == [k \in AllCores(a) |-> WriterList(a, ins, out, k)]
             C == [k \in AllCores(a) |-> compute_args(a, k)]
             pr == [k \in AllCores(a) |->
                      IF a.op \in RowCopies
                      THEN PatchedIndex(ReaderList(a, i1, k), i2[1].addr, gather(a), i2[2].addr)
                      ELSE Patched(ReaderList(a, i1, k), Addresses(i2))]
             pw == [k \in AllCores(a) |->
                      IF a.op \in RowCopies
                      THEN PatchedIndex(WriterList(a, i1, o1, k), o2.addr, ~gather(a), i2[2].addr)
                      ELSE Patched(WriterList(a, i1, o1, k), <<o2.addr>>)]
  <2>1. p.reader = R(i1) /\ p.writer = W(i1, o1)
    BY DEF create
  <2>2. pr = R(i2)
    BY <1>4
  <2>3. pw = W(i2, o2)
    BY <1>5
  <2>4. r = [p EXCEPT !.reader = pr, !.writer = pw]
    <3>1. \A k \in AllCores(a) : p.reader[k] = ReaderList(a, i1, k)
      BY <2>1
    <3>2. \A k \in AllCores(a) : p.writer[k] = WriterList(a, i1, o1, k)
      BY <2>1
    <3>3. DOMAIN p.reader = AllCores(a) /\ DOMAIN p.writer = AllCores(a)
      BY <2>1
    <3> HIDE DEF p
    <3> QED BY <3>1, <3>2, <3>3 DEF override_runtime_arguments
  <2>5. /\ p = [kernels |-> Kernels(a, i1, o1), reader |-> R(i1), compute |-> C,
                writer |-> W(i1, o1)]
        /\ q = [kernels |-> Kernels(a, i2, o2), reader |-> R(i2), compute |-> C,
                writer |-> W(i2, o2)]
    BY DEF create
  <2>6. Kernels(a, i1, o1) = Kernels(a, i2, o2)
    BY <1>3, <2>5
  <2>7. [p EXCEPT !.reader = pr, !.writer = pw]
          = [kernels |-> Kernels(a, i1, o1), reader |-> pr, compute |-> C, writer |-> pw]
    <3> DEFINE kern == Kernels(a, i1, o1)
               rd == R(i1)
               wr == W(i1, o1)
               u == [p EXCEPT !.reader = pr]
    <3>1. p = [kernels |-> kern, reader |-> rd, compute |-> C, writer |-> wr]
      BY <2>5
    <3>2. u = [kernels |-> kern, reader |-> pr, compute |-> C, writer |-> wr]
      <4> HIDE DEF p, q, r, R, W, C, pr, pw, kern, rd, wr
      <4> QED BY <3>1
    <3>3. [u EXCEPT !.writer = pw]
            = [kernels |-> kern, reader |-> pr, compute |-> C, writer |-> pw]
      <4> HIDE DEF p, q, r, R, W, C, pr, pw, kern, rd, wr, u
      <4> QED BY <3>2
    <3> QED BY <3>3
  <2> HIDE DEF p, q, r, R, W, C, pr, pw
  <2> QED BY <2>2, <2>3, <2>4, <2>5, <2>6, <2>7
<1>7. Anew(c1, b1, d1) = p /\ Anew(c2, b2, d2) = q
  BY <1>1 DEF Anew, a, i1, i2, o1, o2
<1> QED BY <1>6, <1>7 DEF a, i1, i2, o1, o2

-----------------------------------------------------------------------------
\* The last launch is that of an accepted call, and runs what building its
\* program anew would give.
Launched(c0, base, dst) ==
  launched = [call |-> c0, a |-> Attributes(c0), ins |-> Ins(c0, base),
              out |-> OutOf(c0, dst), program |-> Anew(c0, base, dst)]
LaunchInv ==
  launched # None =>
    \E c0 \in Calls, base \in Bases : \E dst \in {base, base + 1} :
      Lowers(c0) /\ Launched(c0, base, dst)

\* Whatever is cached is what building for some call with that key gives.
CacheInv ==
  /\ session \in Sessions
  /\ \A key \in DOMAIN cache :
       \E c0 \in Calls, base \in Bases : \E dst \in {base, base + 1} :
         key = KeyOf(c0, base, dst) /\ cache[key] = Anew(c0, base, dst)
  /\ LaunchInv

THEOREM CacheInit == Init => CacheInv
BY DEF Init, CacheInv, LaunchInv

LEMMA LaunchStep ==
  ASSUME CacheInv, NEW c0 \in session, NEW base \in Bases, NEW dst \in {base, base + 1},
         Launch(c0, base, dst)
  PROVE  CacheInv'
<1> DEFINE a == Attributes(c0)
           ins == Ins(c0, base)
           out == OutOf(c0, dst)
           key == KeyOf(c0, base, dst)
           prog == IF key \in DOMAIN cache
                      THEN override_runtime_arguments(cache[key], a, ins, out)
                      ELSE create(a, ins, out)
<1>1. /\ c0 \in Calls
      /\ session' = session
      /\ cache' = [x \in DOMAIN cache \cup {key} |-> IF x = key THEN prog ELSE cache[x]]
      /\ launched' = [call |-> c0, a |-> a, ins |-> ins, out |-> out, program |-> prog]
  BY DEF Launch, CacheInv, Calls, KeyOf, Ins, OutOf
<1>2. prog = Anew(c0, base, dst)
  <2>1. CASE key \in DOMAIN cache
    <3>1. PICK c \in Calls, b \in Bases :
            \E d \in {b, b + 1} : key = KeyOf(c, b, d) /\ cache[key] = Anew(c, b, d)
      BY <2>1 DEF CacheInv
    <3>2. PICK d \in {b, b + 1} : key = KeyOf(c, b, d) /\ cache[key] = Anew(c, b, d)
      BY <3>1
    <3>3. override_runtime_arguments(Anew(c, b, d), a, ins, out) = Anew(c0, base, dst)
      BY <1>1, <3>2, OverrideAnew
    <3> QED BY <2>1, <3>2, <3>3
  <2>2. CASE key \notin DOMAIN cache
    BY <2>2 DEF Anew
  <2> QED BY <2>1, <2>2
<1> HIDE DEF prog, key
<1>3. LaunchInv'
  <2>1. Lowers(c0)
    BY DEF Launch
  <2> QED BY <1>1, <1>2, <2>1 DEF LaunchInv, Launched, Anew
<1>4. ASSUME NEW x \in DOMAIN cache'
      PROVE  \E c \in Calls, b \in Bases : \E d \in {b, b + 1} :
               x = KeyOf(c, b, d) /\ cache'[x] = Anew(c, b, d)
  <2>1. CASE x = key
    <3>1. cache'[x] = Anew(c0, base, dst)
      BY <1>1, <1>2, <2>1
    <3> QED BY <1>1, <2>1, <3>1 DEF key
  <2>2. CASE x # key
    <3>1. x \in DOMAIN cache /\ cache'[x] = cache[x]
      BY <1>1, <2>2
    <3> QED BY <3>1 DEF CacheInv
  <2> QED BY <2>1, <2>2
<1> QED BY <1>1, <1>3, <1>4 DEF CacheInv

THEOREM CacheStep == CacheInv /\ [Next]_vars => CacheInv'
<1> SUFFICES ASSUME CacheInv, [Next]_vars PROVE CacheInv'
  OBVIOUS
<1>1. ASSUME NEW c0 \in session, Refuse(c0) PROVE CacheInv'
  BY <1>1 DEF Refuse, CacheInv, LaunchInv
<1>2. ASSUME NEW c0 \in session, NEW base \in Bases, NEW dst \in {base, base + 1},
             Launch(c0, base, dst)
      PROVE  CacheInv'
  BY <1>2, LaunchStep
<1>3. CASE UNCHANGED vars
  BY <1>3 DEF vars, CacheInv, LaunchInv, Launched
<1> QED BY <1>1, <1>2, <1>3 DEF Next

\* A launch runs the program that building it anew for its tensors would
\* give, whatever calls and addresses came before it: the cache key leaves
\* out nothing a program depends on, and override_runtime_arguments rewrites
\* everything the key leaves out.
THEOREM LaunchesFresh == Spec => []LaunchFresh
<1>1. CacheInv => LaunchFresh
  BY DEF CacheInv, LaunchInv, Launched, LaunchFresh, Anew
<1> QED BY <1>1, CacheInit, CacheStep, PTL DEF Spec

-----------------------------------------------------------------------------
(***************************************************************************)
(* What the attributes of an accepted call are.                            *)
(***************************************************************************)
LEMMA AcrossPositive ==
  ASSUME NEW x \in Nat \ {0}
  PROVE  TilesAcross(x) \in Nat \ {0}
<1> DEFINE n == x + TILE - 1
           q == n \div TILE
<1>1. n \in Nat /\ n >= TILE /\ TILE \in Nat \ {0}
  BY TileAssumption
<1> HIDE DEF n
<1>2. q \in Int /\ n % TILE \in Int /\ n = (q * TILE) + (n % TILE) /\ n % TILE < TILE
  BY <1>1, DivModFloor
<1> HIDE DEF q
<1>3. q * TILE > 0
  BY <1>1, <1>2
<1>4. q > 0
  <2> SUFFICES ASSUME q <= 0 PROVE FALSE
    BY <1>2
  <2>1. (-q) * TILE >= 0
    BY <1>1, <1>2, ProductNat, -q \in Nat
  <2>2. (-q) * TILE = -(q * TILE)
    BY <1>1, <1>2
  <2> QED BY <1>1, <1>2, <1>3, <2>1, <2>2
<1> QED BY <1>2, <1>4 DEF TilesAcross, n, q

LEMMA GridPositive ==
  ASSUME NEW d, NonEmpty(d)
  PROVE  n_otr(d) \in Nat \ {0} /\ n_otc(d) \in Nat \ {0} /\ out_tiles(d) \in Nat \ {0}
<1>1. n_otr(d) \in Nat \ {0} /\ n_otc(d) \in Nat \ {0}
  BY AcrossPositive DEF n_otr, n_otc, NonEmpty
<1> QED BY <1>1 DEF out_tiles

LEMMA OutNonEmpty ==
  ASSUME NEW c \in Calls, NEW d, NonEmpty(d)
  PROVE  NonEmpty(OutLike(c, d).desc)
<1>1. CASE c.out = NoOut
  BY <1>1 DEF OutLike, of_shape, tensor, view, dense, linear, NonEmpty
<1>2. CASE c.out # NoOut
  BY <1>2, OperandsAssumption DEF OutLike, Calls
<1> QED BY <1>1, <1>2

LEMMA ViewFields ==
  ASSUME NEW c, NEW ins, NEW d
  PROVE  LET a == ViewAttributes(c, ins, d)
         IN  /\ a.op = c.op /\ a.ins = ins /\ a.o = d
             /\ a.n_otr = n_otr(d) /\ a.n_otc = n_otc(d)
             /\ a.out_cols = Out(c).cols /\ a.mem = output_memory_config(c, Out(c))
BY DEF ViewAttributes

LEMMA EltwiseFields ==
  ASSUME NEW c
  PROVE  LET a == EltwiseAttributes(c)
             d == EltwiseOut(c).desc
         IN  /\ a.op = c.op /\ a.ins = Feed(c).maps /\ a.bcast = Feed(c).bcast /\ a.tpg = Feed(c).tpg
             /\ a.out_cols = Out(c).cols /\ a.mem = output_memory_config(c, Out(c))
             /\ c.op \in Eltwise => a.n_otr = n_otr(d) /\ a.n_otc = n_otc(d)
                                  /\ a.o = Scattered(c, EltwiseOut(c))
<1> DEFINE r == [ViewAttributes(c, Feed(c).maps, Out(c).desc) EXCEPT
                    !.o = Scattered(c, Out(c)),
                    !.out_rows = IF Scattered(c, Out(c)).P > 0
                                 THEN WeightRows(c) * Scattered(c, Out(c)).A ELSE @]
           s == [bcast |-> Feed(c).bcast, tpg |-> Feed(c).tpg,
                 canon_G |-> IF c.canonical THEN WeightRows(c) ELSE 0,
                 canon_nt |-> IF c.canonical THEN Tokens(c) ELSE 0]
           a == EltwiseAttributes(c)
<1>1. a = With(r, s)
  BY DEF EltwiseAttributes
<1>2. /\ DOMAIN r = {"op", "ins", "o", "n_otr", "n_otc", "out_rows", "out_cols", "mem"}
      /\ r.op = c.op /\ r.ins = Feed(c).maps
      /\ r.n_otr = n_otr(Out(c).desc) /\ r.n_otc = n_otc(Out(c).desc)
      /\ r.o = Scattered(c, Out(c))
      /\ r.out_cols = Out(c).cols /\ r.mem = output_memory_config(c, Out(c))
  BY DEF ViewAttributes
<1>3. /\ DOMAIN s = {"bcast", "tpg", "canon_G", "canon_nt"}
      /\ s.bcast = Feed(c).bcast /\ s.tpg = Feed(c).tpg
  OBVIOUS
<1> HIDE DEF r, s, a
<1>4. c.op \in Eltwise => Out(c) = EltwiseOut(c)
  BY DEF Out, Eltwise, Binary, Elementwise3
<1>5. /\ a.op = r.op /\ a.ins = r.ins /\ a.o = r.o /\ a.n_otr = r.n_otr /\ a.n_otc = r.n_otc
      /\ a.bcast = s.bcast /\ a.tpg = s.tpg /\ a.out_cols = r.out_cols /\ a.mem = r.mem
  BY <1>1, <1>2, <1>3 DEF With
<1> QED BY <1>2, <1>3, <1>4, <1>5 DEF a

\* The other ops add their fields to those of a view op as they are.
LEMMA WithFields ==
  ASSUME NEW c, NEW ins, NEW d, NEW s,
         DOMAIN s \cap {"op", "ins", "o", "n_otr", "n_otc", "out_rows", "out_cols", "mem"} = {}
  PROVE  LET a == With(ViewAttributes(c, ins, d), s)
         IN  /\ a.op = c.op /\ a.ins = ins /\ a.o = d
             /\ a.n_otr = n_otr(d) /\ a.n_otc = n_otc(d)
             /\ a.out_cols = Out(c).cols /\ a.mem = output_memory_config(c, Out(c))
             /\ \A f \in DOMAIN s : a[f] = s[f]
<1> DEFINE r == ViewAttributes(c, ins, d)
           a == With(r, s)
<1>1. /\ DOMAIN r = {"op", "ins", "o", "n_otr", "n_otc", "out_rows", "out_cols", "mem"}
      /\ r.op = c.op /\ r.ins = ins /\ r.o = d /\ r.n_otr = n_otr(d) /\ r.n_otc = n_otc(d)
      /\ r.out_cols = Out(c).cols /\ r.mem = output_memory_config(c, Out(c))
  BY DEF ViewAttributes
<1> HIDE DEF r
<1>2. a = [f \in DOMAIN r \cup DOMAIN s |-> IF f \in DOMAIN r THEN r[f] ELSE s[f]]
  BY DEF With
<1> HIDE DEF a
<1>3. /\ a.op = r.op /\ a.ins = r.ins /\ a.o = r.o /\ a.n_otr = r.n_otr /\ a.n_otc = r.n_otc
      /\ a.out_cols = r.out_cols /\ a.mem = r.mem
  BY <1>1, <1>2
<1>4. \A f \in DOMAIN s : a[f] = s[f]
  BY <1>1, <1>2
<1> QED BY <1>1, <1>3, <1>4 DEF a, r

NormMap(c, d) == IF Folds(c) THEN Folded(d) ELSE d
LEMMA NormFields ==
  ASSUME NEW c
  PROVE  LET a == NormAttributes(c)
             d == NormMap(c, Out(c).desc)
         IN  /\ a.op = c.op /\ a.ins = <<NormMap(c, c.views[1].desc)>> /\ a.o = d
             /\ a.n_otr = n_otr(d) /\ a.n_otc = n_otc(d)
             /\ a.out_cols = Out(c).cols /\ a.mem = output_memory_config(c, Out(c))
             /\ a.rscale = rscale(c) /\ a.eps = c.eps /\ a.affine = Affine(c)
             /\ a.wide = wide(c) /\ a.global = Folds(c)
<1> DEFINE s == [rscale |-> rscale(c), eps |-> c.eps, affine |-> Affine(c),
                 wide |-> wide(c), global |-> Folds(c)]
           ins == <<NormMap(c, c.views[1].desc)>>
           d == NormMap(c, Out(c).desc)
<1>1. NormAttributes(c) = With(ViewAttributes(c, ins, d), s)
  BY DEF NormAttributes, NormMap
<1>2. /\ DOMAIN s = {"rscale", "eps", "affine", "wide", "global"}
      /\ s["rscale"] = rscale(c) /\ s["eps"] = c.eps /\ s["affine"] = Affine(c)
      /\ s["wide"] = wide(c) /\ s["global"] = Folds(c)
  OBVIOUS
<1> HIDE DEF s, ins, d
<1>3. DOMAIN s \cap {"op", "ins", "o", "n_otr", "n_otc", "out_rows", "out_cols", "mem"} = {}
  BY <1>2
<1> QED BY <1>1, <1>2, <1>3, WithFields DEF ins, d

LEMMA MulL2Fields ==
  ASSUME NEW c
  PROVE  LET a == MulL2Attributes(c)
             d == Out(c).desc
         IN  /\ a.op = c.op /\ a.ins = [x \in {1, 2} |-> Repeated(Descs(c)[x], d)] /\ a.o = d
             /\ a.n_otr = n_otr(d) /\ a.n_otc = n_otc(d)
             /\ a.out_cols = Out(c).cols /\ a.mem = output_memory_config(c, Out(c))
             /\ a.rscale = 1 /\ a.eps = c.eps
<1> DEFINE s == [rscale |-> 1, eps |-> c.eps]
           d == Out(c).desc
           ins == [x \in {1, 2} |-> Repeated(Descs(c)[x], d)]
<1>1. MulL2Attributes(c) = With(ViewAttributes(c, ins, d), s)
  BY DEF MulL2Attributes
<1>2. DOMAIN s = {"rscale", "eps"} /\ s["rscale"] = 1 /\ s["eps"] = c.eps
  OBVIOUS
<1> HIDE DEF s, ins, d
<1>3. DOMAIN s \cap {"op", "ins", "o", "n_otr", "n_otc", "out_rows", "out_cols", "mem"} = {}
  BY <1>2
<1> QED BY <1>1, <1>2, <1>3, WithFields DEF ins, d

LEMMA RkFields ==
  ASSUME NEW c
  PROVE  LET a == RkAttributes(c)
             d == Out(c).desc
         IN  /\ a.op = c.op /\ a.ins = Descs(c) /\ a.o = d
             /\ a.n_otr = n_otr(d) /\ a.n_otc = n_otc(d)
             /\ a.out_cols = Out(c).cols /\ a.mem = output_memory_config(c, Out(c))
             /\ a.rscale = 1 /\ a.w_bcast = w_bcast(c) /\ a.rbs_per_group = n_otr(Descs(c)[3])
<1> DEFINE s == [rscale |-> 1, w_bcast |-> w_bcast(c), rbs_per_group |-> n_otr(Descs(c)[3])]
           d == Out(c).desc
           ins == Descs(c)
<1>1. RkAttributes(c) = With(ViewAttributes(c, ins, d), s)
  BY DEF RkAttributes
<1>2. /\ DOMAIN s = {"rscale", "w_bcast", "rbs_per_group"} /\ s["rscale"] = 1
      /\ s["w_bcast"] = w_bcast(c) /\ s["rbs_per_group"] = n_otr(Descs(c)[3])
  OBVIOUS
<1> HIDE DEF s, ins, d
<1>3. DOMAIN s \cap {"op", "ins", "o", "n_otr", "n_otc", "out_rows", "out_cols", "mem"} = {}
  BY <1>2
<1> QED BY <1>1, <1>2, <1>3, WithFields DEF ins, d

\* Which attributes an op has.
LEMMA OpAttributes ==
  ASSUME NEW c
  PROVE  /\ c.op \in Eltwise => Attributes(c) = EltwiseAttributes(c)
         /\ c.op \in Norms => Attributes(c) = NormAttributes(c)
         /\ c.op = "mul_l2_norm" => Attributes(c) = MulL2Attributes(c)
         /\ c.op = "rk" => Attributes(c) = RkAttributes(c)
         /\ c.op \in RowCopies => Attributes(c) = RowCopyAttributes(c)
         /\ c.op = "realize" => Attributes(c) = ViewAttributes(c, Descs(c), Out(c).desc)
BY DEF Attributes, Eltwise, Binary, Elementwise3, Norms, RowCopies

-----------------------------------------------------------------------------
(***************************************************************************)
(* Argument lists.                                                         *)
(***************************************************************************)
LEMMA LenNat ==
  ASSUME NEW V, NEW A \in Seq(V)
  PROVE  Len(A) \in Nat
OBVIOUS

\* Laid end to end up to list x, lists s occupy the places up to m[x].
Lists(s, n, V) == DOMAIN s = 1 .. n /\ Len(s) = n /\ \A x \in 1 .. n : s[x] \in Seq(V)
Places(s, n, m) == m \in [0 .. n -> Int] /\ \A x \in 1 .. n : m[x] = m[x - 1] + Len(s[x])
EndToEnd(l, s, n, m, V) ==
  /\ l \in Seq(V) /\ Len(l) = m[n] - m[0]
  /\ \A x \in 1 .. n : /\ m[0] <= m[x - 1] /\ m[x] <= m[n]
                        /\ \A i \in 1 .. Len(s[x]) : l[(m[x - 1] - m[0]) + i] = s[x][i]

LEMMA EndToEndNext ==
  ASSUME NEW n \in Nat, NEW s, NEW V, Lists(s, n, V), NEW m, Places(s, n, m),
         NEW j \in 1 .. n - 1, NEW l, EndToEnd(l, s, j, m, V)
  PROVE  EndToEnd(l \o s[j + 1], s, j + 1, m, V)
<1>1. PICK B : B = s[j + 1]
  OBVIOUS
<1> DEFINE h == l \o B
<1>2. j \in Nat \ {0} /\ j + 1 \in 1 .. n /\ (j + 1) - 1 = j
  OBVIOUS
<1>3. l \in Seq(V) /\ B \in Seq(V) /\ Len(B) \in Nat /\ Len(l) = m[j] - m[0]
  BY <1>1, <1>2, LenNat DEF Lists, EndToEnd
<1>4. m[j + 1] = m[j] + Len(B) /\ m[j] \in Int /\ m[0] \in Int /\ m[j + 1] \in Int
  BY <1>1, <1>2 DEF Places
<1>5. /\ h \in Seq(V) /\ Len(h) = Len(l) + Len(B)
      /\ \A p \in 1 .. Len(l) : h[p] = l[p]
      /\ \A p \in 1 .. Len(B) : h[Len(l) + p] = B[p]
  <2>1. l \in Seq(V) /\ B \in Seq(V)
    BY <1>3
  <2>2. /\ l \o B \in Seq(V) /\ Len(l \o B) = Len(l) + Len(B)
        /\ \A p \in 1 .. Len(l) : (l \o B)[p] = l[p]
        /\ \A p \in 1 .. Len(B) : (l \o B)[Len(l) + p] = B[p]
    BY <2>1
  <2> QED BY <2>2
<1> HIDE DEF h
<1>6. Len(h) = m[j + 1] - m[0]
  BY <1>3, <1>4, <1>5
<1>7. ASSUME NEW x \in 1 .. j + 1
      PROVE  /\ m[0] <= m[x - 1] /\ m[x] <= m[j + 1]
             /\ \A i \in 1 .. Len(s[x]) : h[(m[x - 1] - m[0]) + i] = s[x][i]
  <2>1. CASE x = j + 1
    <3>1. Len(l) \in Nat /\ m[x - 1] - m[0] = Len(l)
      BY <1>2, <1>3, <2>1, LenNat
    <3>2. m[0] <= m[x - 1] /\ m[x] <= m[j + 1]
      BY <1>2, <1>3, <1>4, <2>1, <3>1
    <3>3. \A i \in 1 .. Len(s[x]) : h[(m[x - 1] - m[0]) + i] = s[x][i]
      BY <1>1, <1>5, <2>1, <3>1
    <3> QED BY <3>2, <3>3
  <2>2. CASE x # j + 1
    <3>1. x \in 1 .. j /\ x \in 1 .. n /\ x - 1 \in 0 .. n /\ x \in 0 .. n
      BY <1>2, <2>2
    <3>2. /\ m[0] <= m[x - 1] /\ m[x] <= m[j]
          /\ \A i \in 1 .. Len(s[x]) : l[(m[x - 1] - m[0]) + i] = s[x][i]
      BY <3>1 DEF EndToEnd
    <3>3. m[x] = m[x - 1] + Len(s[x]) /\ m[x] \in Int /\ m[x - 1] \in Int
      BY <3>1 DEF Places
    <3>4. Len(s[x]) \in Nat
      BY <3>1, LenNat DEF Lists
    <3>5. ASSUME NEW i \in 1 .. Len(s[x])
          PROVE  h[(m[x - 1] - m[0]) + i] = s[x][i]
      <4>1. i \in Int /\ 1 <= i /\ i <= Len(s[x])
        BY <3>4
      <4>2. (m[x - 1] - m[0]) + i \in 1 .. Len(l)
        <5> DEFINE a == m[x - 1]
                   b == Len(s[x])
        <5>1. /\ a \in Int /\ m[0] \in Int /\ m[0] <= a /\ a + b <= m[j] /\ m[j] \in Int
              /\ b \in Nat /\ i \in Int /\ 1 <= i /\ i <= b
          BY <1>4, <3>2, <3>3, <3>4, <4>1
        <5>2. Len(l) = m[j] - m[0]
          BY <1>3
        <5> HIDE DEF a, b
        <5>3. 1 <= (a - m[0]) + i /\ (a - m[0]) + i <= m[j] - m[0]
          BY <5>1
        <5> QED BY <5>1, <5>2, <5>3 DEF a
      <4> QED BY <1>5, <3>2, <4>2
    <3>6. m[x] <= m[j + 1]
      BY <1>3, <1>4, <3>2, <3>3
    <3> QED BY <3>2, <3>5, <3>6
  <2> QED BY <2>1, <2>2
<1>8. EndToEnd(h, s, j + 1, m, V)
  BY <1>5, <1>6, <1>7 DEF EndToEnd
<1> QED BY <1>1, <1>8 DEF h

LEMMA EndToEndFirst ==
  ASSUME NEW n \in Nat \ {0}, NEW s, NEW V, Lists(s, n, V), NEW m, Places(s, n, m)
  PROVE  EndToEnd(s[1], s, 1, m, V)
<1>1. 1 \in 1 .. n /\ 0 \in 0 .. n /\ 1 \in 0 .. n /\ 1 - 1 = 0
  OBVIOUS
<1>2. m[1] = m[0] + Len(s[1]) /\ m[0] \in Int /\ m[1] \in Int
  BY <1>1 DEF Places
<1>3. s[1] \in Seq(V) /\ Len(s[1]) \in Nat
  BY <1>1, LenNat DEF Lists
<1>4. Len(s[1]) = m[1] - m[0] /\ m[0] <= m[1 - 1]
  BY <1>1, <1>2, <1>3
<1>5. \A i \in 1 .. Len(s[1]) : (m[1 - 1] - m[0]) + i = i
  BY <1>1, <1>2, <1>3
<1>6. \A i \in 1 .. Len(s[1]) : s[1][(m[1 - 1] - m[0]) + i] = s[1][i]
  BY <1>5
<1>7. \A x \in 1 .. 1 : x = 1
  OBVIOUS
<1> QED BY <1>2, <1>3, <1>4, <1>6, <1>7 DEF EndToEnd

\* Up to five lists, the most an op has views.
LEMMA Flattened ==
  ASSUME NEW n \in 1 .. 5, NEW s, NEW V, Lists(s, n, V), NEW m, Places(s, n, m)
  PROVE  EndToEnd(FlattenSeq(s), s, n, m, V)
<1> DEFINE Then(x, y) == x \o y
           F(g) == [i \in 1 .. n |-> IF i = 1 THEN s[i] ELSE Then(g[i - 1], s[i])]
           q == CHOOSE g : g = F(g)
           c2 == Then(s[1], s[2])
           c3 == Then(c2, s[3])
           c4 == Then(c3, s[4])
           c5 == Then(c4, s[5])
           f == [i \in 1 .. n |-> IF i = 1 THEN s[1] ELSE IF i = 2 THEN c2
                                  ELSE IF i = 3 THEN c3 ELSE IF i = 4 THEN c4 ELSE c5]
<1>1. FlattenSeq(s) = q[n]
  BY DEF FlattenSeq, Lists
<1> HIDE DEF Then
<1>2. c2 = Then(s[1], s[2]) /\ c3 = Then(c2, s[3]) /\ c4 = Then(c3, s[4]) /\ c5 = Then(c4, s[5])
  OBVIOUS
<1> HIDE DEF c2, c3, c4, c5
<1>3. f = F(f)
  <2>1. /\ \A i \in 1 .. n : i = 1 => f[i] = s[1]
        /\ \A i \in 1 .. n : i = 2 => f[i] = c2
        /\ \A i \in 1 .. n : i = 3 => f[i] = c3
        /\ \A i \in 1 .. n : i = 4 => f[i] = c4
        /\ \A i \in 1 .. n : i = 5 => f[i] = c5
    OBVIOUS
  <2>2. f = [i \in 1 .. n |-> f[i]]
    OBVIOUS
  <2> HIDE DEF f
  <2>3. ASSUME NEW i \in 1 .. n
        PROVE  f[i] = IF i = 1 THEN s[i] ELSE Then(f[i - 1], s[i])
    <3>1. i \in {1, 2, 3, 4, 5} /\ (i > 1 => i - 1 \in 1 .. n)
      OBVIOUS
    <3>2. CASE i = 1
      BY <2>1, <3>2
    <3>3. CASE i = 2
      BY <1>2, <2>1, <3>1, <3>3
    <3>4. CASE i = 3
      BY <1>2, <2>1, <3>1, <3>4
    <3>5. CASE i = 4
      BY <1>2, <2>1, <3>1, <3>5
    <3>6. CASE i = 5
      BY <1>2, <2>1, <3>1, <3>6
    <3> QED BY <3>1, <3>2, <3>3, <3>4, <3>5, <3>6
  <2> QED BY <2>2, <2>3
<1> HIDE DEF f
<1>4. q = F(q)
  BY <1>3
<1> HIDE DEF q
<1>5. EndToEnd(q[1], s, 1, m, V)
  <2>1. q[1] = s[1]
    BY <1>4
  <2> QED BY <2>1, EndToEndFirst
<1>6. ASSUME NEW j \in 1 .. n - 1, EndToEnd(q[j], s, j, m, V)
      PROVE  EndToEnd(q[j + 1], s, j + 1, m, V)
  <2>1. j + 1 \in 1 .. n /\ j + 1 # 1 /\ (j + 1) - 1 = j /\ n \in Nat
    OBVIOUS
  <2>2. q[j + 1] = Then(q[j], s[j + 1])
    BY <1>4, <2>1
  <2>3. EndToEnd(q[j] \o s[j + 1], s, j + 1, m, V)
    BY <1>6, <2>1, EndToEndNext
  <2> QED BY <2>2, <2>3 DEF Then
<1> DEFINE P(j) == EndToEnd(q[j], s, j, m, V)
<1>7. P(1) /\ \A j \in 1 .. n - 1 : P(j) => P(j + 1)
  BY <1>5, <1>6
<1> HIDE DEF P
<1>8. P(n)
  <2>1. n \in {1, 2, 3, 4, 5}
    OBVIOUS
  <2>2. n > 1 => P(2)
    BY <1>7, 1 \in 1 .. n - 1 \/ n <= 1, 1 + 1 = 2
  <2>3. n > 2 => P(3)
    BY <1>7, <2>2, 2 \in 1 .. n - 1 \/ n <= 2, 2 + 1 = 3
  <2>4. n > 3 => P(4)
    BY <1>7, <2>3, 3 \in 1 .. n - 1 \/ n <= 3, 3 + 1 = 4
  <2>5. n > 4 => P(5)
    BY <1>7, <2>4, 4 \in 1 .. n - 1 \/ n <= 4, 4 + 1 = 5
  <2> QED BY <1>7, <2>1, <2>2, <2>3, <2>4, <2>5
<1> QED BY <1>1, <1>8 DEF P

-----------------------------------------------------------------------------
\* The views an op walks: a norm reads its weights page by page.
Walked(c) == IF c.op \in Norms THEN 1 ELSE Len(c.views)

LEMMA Arity ==
  ASSUME NEW c \in Calls
  PROVE  /\ Len(c.views) \in 1 .. 5 /\ DOMAIN c.views = 1 .. Len(c.views)
         /\ c.op \in Norms => Len(c.views) \in 1 .. 3
         /\ c.op \in Binary \cup RowCopies \cup {"mul_l2_norm"} => Len(c.views) = 2
         /\ c.op \in Elementwise3 \cup {"k_update"} => Len(c.views) = 3
         /\ c.op = "realize" => Len(c.views) = 1
         /\ c.op = "rk" => Len(c.views) = 5
         /\ Walked(c) \in 1 .. 5
<1>1. /\ c.op \in Eltwise \cup Norms \cup RowCopies \cup {"realize", "mul_l2_norm", "rk"}
      /\ \E n \in Operands(c.op) : DOMAIN c.views = 1 .. n /\ Len(c.views) = n
  BY OperandsAssumption DEF Calls
<1> QED BY <1>1 DEF Operands, Walked, Eltwise, Binary, Elementwise3, Norms, RowCopies

LEMMA OpNames ==
  ASSUME NEW c \in Calls
  PROVE  /\ c.op \in Eltwise \cup Norms \cup RowCopies \cup {"realize", "mul_l2_norm", "rk"}
         /\ c.op \in Eltwise <=> c.op \in Binary \cup Elementwise3 \cup {"k_update"}
         /\ c.op \in Eltwise => c.op \notin Norms \cup RowCopies \cup {"realize", "mul_l2_norm", "rk"}
         /\ c.op \in Norms => c.op \notin RowCopies \cup {"realize", "mul_l2_norm", "rk"}
         /\ c.op \in RowCopies => c.op \notin {"realize", "mul_l2_norm", "rk"}
         /\ c.op \in Binary => c.op \notin Elementwise3 \cup {"k_update"}
<1>1. c.op \in Eltwise \cup Norms \cup RowCopies \cup {"realize", "mul_l2_norm", "rk"}
  BY OperandsAssumption DEF Calls
<1> QED BY <1>1 DEF Eltwise, Binary, Elementwise3, Norms, RowCopies

LEMMA InsFacts ==
  ASSUME NEW c \in Calls
  PROVE  /\ Attributes(c).op = c.op
         /\ c.op \notin RowCopies => DOMAIN Attributes(c).ins = 1 .. Walked(c)
         /\ c.op \in Eltwise => DOMAIN Attributes(c).bcast = 1 .. Walked(c)
<1> USE OpAttributes
<1>1. CASE c.op \in Eltwise
  <2>1. /\ Attributes(c).op = c.op /\ Attributes(c).ins = Feed(c).maps
        /\ Attributes(c).bcast = Feed(c).bcast
    BY <1>1, EltwiseFields
  <2>2. Walked(c) = Len(c.views) /\ DOMAIN c.views = 1 .. Walked(c)
    BY <1>1, Arity, OpNames DEF Walked
  <2>3. DOMAIN Feed(c).maps = DOMAIN c.views /\ DOMAIN Feed(c).bcast = DOMAIN c.views
    <3>1. CASE Shifted(c, EltwiseOut(c))
      <4>1. c.op = "lerp"
        BY <3>1 DEF Shifted, IsTokenShift
      <4>2. Len(c.views) = 3
        BY <4>1, Arity DEF Elementwise3
      <4>3. Feed(c).maps = ShiftMaps(c, EltwiseOut(c)) /\ DOMAIN Feed(c).bcast = DOMAIN c.views
        BY <3>1 DEF Feed
      <4>4. DOMAIN ShiftMaps(c, EltwiseOut(c)) = 1 .. 3
        BY DEF ShiftMaps
      <4> QED BY <2>2, <4>2, <4>3, <4>4, Arity
    <3>2. CASE ~Shifted(c, EltwiseOut(c))
      BY <3>2 DEF Feed
    <3> QED BY <3>1, <3>2
  <2> QED BY <1>1, <2>1, <2>2, <2>3, OpNames
<1>2. CASE c.op \in Norms
  <2>1. Attributes(c).op = c.op /\ Attributes(c).ins = <<NormMap(c, c.views[1].desc)>>
    BY <1>2, NormFields
  <2> QED BY <1>2, <2>1, OpNames DEF Walked
<1>3. CASE c.op = "mul_l2_norm"
  <2>1. Attributes(c).op = c.op /\ DOMAIN Attributes(c).ins = {1, 2}
    <3>1. /\ MulL2Attributes(c).op = c.op
          /\ MulL2Attributes(c).ins = [x \in {1, 2} |-> Repeated(Descs(c)[x], Out(c).desc)]
      BY MulL2Fields
    <3> QED BY <1>3, <3>1
  <2>2. Walked(c) = 2
    BY <1>3, Arity, OpNames DEF Walked
  <2> QED BY <1>3, <2>1, <2>2, OpNames
<1>4. CASE c.op = "rk"
  <2>1. Attributes(c).op = c.op /\ Attributes(c).ins = Descs(c)
    BY <1>4, RkFields
  <2> QED BY <1>4, <2>1, Arity, OpNames DEF Walked, Descs
<1>5. CASE c.op = "realize"
  <2>1. Attributes(c).op = c.op /\ Attributes(c).ins = Descs(c)
    BY <1>5, ViewFields
  <2> QED BY <1>5, <2>1, Arity, OpNames DEF Walked, Descs
<1>6. CASE c.op \in RowCopies
  BY <1>6, OpNames DEF RowCopyAttributes
<1> QED BY <1>1, <1>2, <1>3, <1>4, <1>5, <1>6, OpNames

-----------------------------------------------------------------------------
\* What the last launch is made of.
LEMMA LaunchedFacts ==
  ASSUME LaunchInv, launched # None
  PROVE  LET c == launched.call
             a == launched.a
             ins == launched.ins
         IN  /\ c \in Calls /\ Lowers(c) /\ a = Attributes(c) /\ a.op = c.op /\ op = c.op
             /\ DOMAIN ins = 1 .. (IF c.op \in Norms THEN 3 ELSE Len(c.views))
             /\ program.kernels = Kernels(a, ins, launched.out)
             /\ Running = AllCores(a)
             /\ \A k \in Running : /\ program.reader[k] = ReaderList(a, ins, k)
                                   /\ program.compute[k] = compute_args(a, k)
                                   /\ program.writer[k] = WriterList(a, ins, launched.out, k)
<1>1. PICK c \in Calls, base \in Bases :
        \E dst0 \in {base, base + 1} : Lowers(c) /\ Launched(c, base, dst0)
  BY DEF LaunchInv
<1>0. PICK dst \in {base, base + 1} : Lowers(c) /\ Launched(c, base, dst)
  BY <1>1
<1> DEFINE a == Attributes(c)
           ins == Ins(c, base)
           out == OutOf(c, dst)
<1>2. /\ launched.call = c /\ launched.a = a /\ launched.ins = ins /\ launched.out = out
      /\ program = create(a, ins, out)
  BY <1>0 DEF Launched, Anew, program
<1>3. a.op = c.op
  BY <1>1, InsFacts
<1>4. DOMAIN ins = 1 .. (IF c.op \in Norms THEN 3 ELSE Len(c.views))
  BY DEF Ins, tensor_args
<1> HIDE DEF a, ins, out
<1>5. /\ program.kernels = Kernels(a, ins, out)
      /\ program.reader = [k \in AllCores(a) |-> ReaderList(a, ins, k)]
      /\ program.compute = [k \in AllCores(a) |-> compute_args(a, k)]
      /\ program.writer = [k \in AllCores(a) |-> WriterList(a, ins, out, k)]
  BY <1>2 DEF create
<1>6. op = c.op
  BY <1>3, <1>5 DEF op, Kernels
<1>7. Running = AllCores(a)
  BY <1>5 DEF Running
<1> QED BY <1>1, <1>2, <1>3, <1>4, <1>5, <1>6, <1>7 DEF a

\* A view block is as long as its kind says, and begins with the start tile.
LEMMA BlockFacts ==
  ASSUME NEW t0, NEW d
  PROVE  LET b == append_view_args(t0, d)
             V == {t0, d.base, d.S_row, d.Cs, nct(d), d.Ro, d.Co, n_otc(d), d.P, d.A, d.B}
         IN  /\ b \in Seq(V) /\ Len(b) = view_num_args(kind_of(d)) /\ b[1] = t0
             /\ kind_of(d) # "dense" =>
                  /\ b[2] = d.base /\ b[3] = d.S_row /\ b[4] = d.Cs /\ b[5] = nct(d)
                  /\ b[6] = d.Ro /\ b[7] = d.Co /\ b[8] = n_otc(d)
             /\ kind_of(d) = "grouped" => b[9] = d.P /\ b[10] = d.A /\ b[11] = d.B
             /\ view_num_args(kind_of(d)) = CASE kind_of(d) = "dense" -> 1
                                            [] kind_of(d) = "grouped" -> 11 [] OTHER -> 8
<1>1. kind_of(d) \in {"dense", "grouped", "affine"}
  BY DEF kind_of
<1>2. CASE kind_of(d) = "dense"
  BY <1>2 DEF append_view_args, view_num_args
<1>3. CASE kind_of(d) = "grouped"
  BY <1>3 DEF append_view_args, view_num_args
<1>4. CASE kind_of(d) = "affine"
  BY <1>4 DEF append_view_args, view_num_args
<1> QED BY <1>1, <1>2, <1>3, <1>4

\* The kernels find the blocks of up to five views one behind the other.
LEMMA NextFacts ==
  ASSUME NEW n \in 1 .. 5, Len(program.kernels.kinds) = n, view_base \in Int
  PROVE  LET v(x) == view_num_args(program.kernels.kinds[x])
         IN  next \in [0 .. n -> Int] /\ next[0] = view_base
             /\ \A x \in 1 .. n : next[x] = next[x - 1] + v(x)
<1> DEFINE v(x) == view_num_args(program.kernels.kinds[x])
           F(g) == [x \in 0 .. n |-> IF x = 0 THEN view_base ELSE g[x - 1] + v(x)]
           q == CHOOSE g : g = F(g)
           f == [x \in 0 .. n |->
                   IF x = 0 THEN view_base
                   ELSE IF x = 1 THEN view_base + v(1)
                   ELSE IF x = 2 THEN (view_base + v(1)) + v(2)
                   ELSE IF x = 3 THEN ((view_base + v(1)) + v(2)) + v(3)
                   ELSE IF x = 4 THEN (((view_base + v(1)) + v(2)) + v(3)) + v(4)
                   ELSE ((((view_base + v(1)) + v(2)) + v(3)) + v(4)) + v(5)]
<1>1. next = q
  BY DEF next
<1>2. \A x : v(x) \in Int
  BY DEF view_num_args
<1> HIDE DEF v
<1>3. f = F(f)
  OBVIOUS
<1> HIDE DEF f
<1>4. q = F(q)
  BY <1>3
<1> HIDE DEF q
<1> DEFINE P(x) == q[x] \in Int
<1>5. q[0] = view_base /\ \A x \in 1 .. n : q[x] = q[x - 1] + v(x)
  BY <1>4
<1>6. \A x \in 0 .. n : q[x] \in Int
  <2>1. q[0] \in Int
    BY <1>5
  <2>2. q[1] \in Int
    BY <1>2, <1>5, <2>1, 1 \in 1 .. n, 1 - 1 = 0
  <2>3. n > 1 => q[2] \in Int
    BY <1>2, <1>5, <2>2, 2 \in 1 .. n \/ n <= 1, 2 - 1 = 1
  <2>4. n > 2 => q[3] \in Int
    BY <1>2, <1>5, <2>3, 3 \in 1 .. n \/ n <= 2, 3 - 1 = 2
  <2>5. n > 3 => q[4] \in Int
    BY <1>2, <1>5, <2>4, 4 \in 1 .. n \/ n <= 3, 4 - 1 = 3
  <2>6. n > 4 => q[5] \in Int
    BY <1>2, <1>5, <2>5, 5 \in 1 .. n \/ n <= 4, 5 - 1 = 4
  <2>7. \A x \in 0 .. n : x = 0 \/ x = 1 \/ (x = 2 /\ n > 1) \/ (x = 3 /\ n > 2)
                          \/ (x = 4 /\ n > 3) \/ (x = 5 /\ n > 4)
    OBVIOUS
  <2> QED BY <2>1, <2>2, <2>3, <2>4, <2>5, <2>6, <2>7
<1>7. q \in [0 .. n -> Int]
  BY <1>4, <1>6
<1> QED BY <1>1, <1>5, <1>7 DEF v

-----------------------------------------------------------------------------
\* A list that begins with its addresses, then scalars, then view blocks.
InOrder(l, A, S, F) ==
  /\ Len(l) = (Len(A) + Len(S)) + Len(F)
  /\ \A i \in 1 .. Len(A) : l[i] = A[i]
  /\ \A j \in 1 .. Len(S) : l[Len(A) + j] = S[j]
  /\ \A p \in 1 .. Len(F) : l[(Len(A) + Len(S)) + p] = F[p]

\* Packing puts the three parts one after the other.
LEMMA ArgsPlaced ==
  ASSUME NEW V, NEW S \in Seq(V), NEW F \in Seq(V), NEW A, Len(A) \in Nat
  PROVE  InOrder(WithAddresses(A, S \o F), A, S, F)
<1> DEFINE R == S \o F
           a == Len(A)
           s == Len(S)
           f == Len(F)
           m == Len(R)
           l == WithAddresses(A, R)
<1>1. /\ m = s + f /\ s \in Nat /\ f \in Nat /\ a \in Nat
      /\ \A j \in 1 .. s : R[j] = S[j]
      /\ \A p \in 1 .. f : R[s + p] = F[p]
  OBVIOUS
<1> HIDE DEF R
<1>2. l = [i \in 1 .. a + m |-> IF i <= a THEN A[i] ELSE R[i - a]]
  BY DEF WithAddresses
<1> HIDE DEF l, a, s, f, m
<1>3. Len(l) = a + m
  BY <1>1, <1>2
<1>4. \A i \in 1 .. a : l[i] = A[i]
  BY <1>1, <1>2
<1>5. \A j \in 1 .. m : l[a + j] = R[j]
  BY <1>1, <1>2
<1>6. \A j \in 1 .. s : l[a + j] = S[j]
  BY <1>1, <1>5
<1>7. \A p \in 1 .. f : l[(a + s) + p] = F[p]
  <2> SUFFICES ASSUME NEW p \in 1 .. f PROVE l[(a + s) + p] = F[p]
    OBVIOUS
  <2>1. s + p \in 1 .. m /\ a + (s + p) = (a + s) + p
    BY <1>1
  <2> QED BY <1>1, <1>5, <2>1
<1>8. Len(l) = (a + s) + f
  BY <1>1, <1>3
<1> QED BY <1>4, <1>6, <1>7, <1>8 DEF InOrder, l, a, s, f, R

\* The same lists in the words of each op.
EltwiseLists(c, k) ==
  LET a == Attributes(c)
      flags == [x \in DOMAIN a.bcast |-> flag(a.bcast[x])]
  IN  /\ ReaderScalars(a, k) = <<Count(a, k), a.tpg>> \o flags
      /\ compute_args(a, k) = <<Count(a, k), a.tpg, First(a, k) % a.tpg>> \o flags
GlobalLists(c, k) ==
  LET a == Attributes(c)
  IN  /\ ReaderScalars(a, k) = <<work_tiles(a), a.affine>>
      /\ compute_args(a, k) = <<work_tiles(a), a.affine, a.eps, a.rscale>>
NormLists(c, k) ==
  LET a == Attributes(c)
  IN  /\ ReaderScalars(a, k) = <<here(a, k), a.n_otc, a.rscale, a.eps, a.affine>>
      /\ compute_args(a, k) = <<here(a, k), a.n_otc, a.affine, a.eps, a.rscale>>
MulL2Lists(c, k) ==
  LET a == Attributes(c)
  IN  /\ ReaderScalars(a, k) = <<here(a, k), a.n_otc>>
      /\ compute_args(a, k) = <<here(a, k), a.n_otc, a.eps, a.rscale>>
RkLists(c, k) ==
  LET a == Attributes(c)
  IN  /\ ReaderScalars(a, k)
           = <<here(a, k), a.n_otc, w_grp(a), w_phase0(a, k), w_resident(a, k)>>
      /\ compute_args(a, k)
           = <<here(a, k), a.n_otc, a.rscale, w_grp(a), w_phase0(a, k), w_resident(a, k)>>

LEMMA ScalarLists ==
  ASSUME NEW c \in Calls, NEW k
  PROVE  /\ c.op \in Eltwise => EltwiseLists(c, k)
         /\ c.op \in Norms /\ IsGlobal(Attributes(c)) => GlobalLists(c, k)
         /\ c.op \in Norms /\ ~IsGlobal(Attributes(c)) => NormLists(c, k)
         /\ c.op = "mul_l2_norm" => MulL2Lists(c, k)
         /\ c.op = "rk" => RkLists(c, k)
         /\ c.op = "realize" => ReaderScalars(Attributes(c), k) = <<Count(Attributes(c), k)>>
<1>1. PICK a : a = Attributes(c)
  OBVIOUS
<1>2. a.op = c.op
  BY <1>1, InsFacts
<1>3. IsGlobal(a) => c.op \in Norms
  BY <1>2 DEF IsGlobal
<1>4. ASSUME c.op \in Eltwise PROVE EltwiseLists(c, k)
  BY <1>1, <1>2, <1>3, <1>4, OpNames DEF ReaderScalars, compute_args, EltwiseLists, IsRowNorm
<1>5. ASSUME c.op \in Norms /\ IsGlobal(a) PROVE GlobalLists(c, k)
  BY <1>1, <1>2, <1>5, OpNames DEF ReaderScalars, compute_args, GlobalLists, IsGlobal, IsRowNorm
<1>6. ASSUME c.op \in Norms /\ ~IsGlobal(a) PROVE NormLists(c, k)
  BY <1>1, <1>2, <1>6, OpNames DEF ReaderScalars, compute_args, NormLists, IsGlobal, IsRowNorm
<1>7. ASSUME c.op = "mul_l2_norm" PROVE MulL2Lists(c, k)
  BY <1>1, <1>2, <1>3, <1>7, OpNames DEF ReaderScalars, compute_args, MulL2Lists, IsRowNorm
<1>8. ASSUME c.op = "rk" PROVE RkLists(c, k)
  BY <1>1, <1>2, <1>3, <1>8, OpNames DEF ReaderScalars, compute_args, RkLists, IsRowNorm
<1>9. ASSUME c.op = "realize" PROVE ReaderScalars(a, k) = <<Count(a, k)>>
  BY <1>1, <1>2, <1>3, <1>9, OpNames DEF ReaderScalars, IsRowNorm
<1> QED BY <1>1, <1>4, <1>5, <1>6, <1>7, <1>8, <1>9

-----------------------------------------------------------------------------
\* The view blocks of a launched reader's list, as its factory packs them.
Block(k, x) == append_view_args(Start(launched.a, k, x), launched.a.ins[x])
PackedBlocks(k) == [x \in DOMAIN launched.a.ins |-> Block(k, x)]
Views == Walked(launched.call)

LEMMA KindsFacts ==
  ASSUME LaunchInv, launched # None, op \notin RowCopies
  PROVE  /\ Views \in 1 .. 5 /\ DOMAIN launched.a.ins = 1 .. Views /\ Blocks = 1 .. Views
         /\ Len(program.kernels.kinds) = Views
         /\ \A x \in 1 .. Views : program.kernels.kinds[x] = kind_of(launched.a.ins[x])
         /\ program.kernels.out_kind = kind_of(launched.a.o)
<1> DEFINE c == launched.call
           a == launched.a
           kinds == program.kernels.kinds
<1>1. /\ c \in Calls /\ a = Attributes(c) /\ op = c.op /\ a.op = c.op
      /\ program.kernels = Kernels(a, launched.ins, launched.out)
  BY LaunchedFacts
<1>2. Views \in 1 .. 5 /\ DOMAIN a.ins = 1 .. Views
  BY <1>1, Arity, InsFacts DEF Views
<1> HIDE DEF a
<1>3. kinds = [x \in DOMAIN a.ins |-> kind_of(a.ins[x])] /\ program.kernels.out_kind = kind_of(a.o)
  BY <1>1 DEF Kernels
<1> HIDE DEF kinds
<1>4. DOMAIN kinds = 1 .. Views /\ \A x \in 1 .. Views : kinds[x] = kind_of(a.ins[x])
  BY <1>2, <1>3
<1>5. Len(kinds) = Views
  <2>1. kinds = [x \in 1 .. Views |-> kind_of(a.ins[x])] /\ Views \in Nat
    BY <1>2, <1>3
  <2> QED BY <2>1
<1> QED BY <1>2, <1>3, <1>4, <1>5 DEF a, kinds, Blocks

LEMMA BlocksPacked ==
  ASSUME LaunchInv, launched # None, op \notin RowCopies, view_base \in Int, NEW k
  PROVE  \E V : /\ EndToEnd(FlattenSeq(PackedBlocks(k)), PackedBlocks(k), Views, next, V)
                /\ Places(PackedBlocks(k), Views, next)
<1> DEFINE a == launched.a
           s == PackedBlocks(k)
           n == Views
           W(t0, d) == {t0, d.base, d.S_row, d.Cs, nct(d), d.Ro, d.Co, n_otc(d), d.P, d.A, d.B}
           V == UNION {W(Start(a, k, x), a.ins[x]) : x \in 1 .. n}
<1>1. /\ n \in 1 .. 5 /\ DOMAIN a.ins = 1 .. n /\ Len(program.kernels.kinds) = n
      /\ \A x \in 1 .. n : program.kernels.kinds[x] = kind_of(a.ins[x])
  BY KindsFacts
<1>2. /\ next \in [0 .. n -> Int] /\ next[0] = view_base
      /\ \A x \in 1 .. n : next[x] = next[x - 1] + view_num_args(program.kernels.kinds[x])
  BY <1>1, NextFacts
<1>3. s = [x \in 1 .. n |-> Block(k, x)]
  BY <1>1 DEF PackedBlocks
<1>4. ASSUME NEW x \in 1 .. n
      PROVE  Block(k, x) \in Seq(V) /\ Len(Block(k, x)) = view_num_args(kind_of(a.ins[x]))
  <2>1. /\ Block(k, x) \in Seq(W(Start(a, k, x), a.ins[x]))
        /\ Len(Block(k, x)) = view_num_args(kind_of(a.ins[x]))
    <3>1. PICK t0, d : t0 = Start(a, k, x) /\ d = a.ins[x]
      OBVIOUS
    <3>2. /\ append_view_args(t0, d) \in Seq(W(t0, d))
          /\ Len(append_view_args(t0, d)) = view_num_args(kind_of(d))
      BY BlockFacts
    <3>3. Block(k, x) = append_view_args(t0, d)
      BY <3>1 DEF Block
    <3> HIDE DEF W
    <3> QED BY <3>1, <3>2, <3>3
  <2>2. W(Start(a, k, x), a.ins[x]) \subseteq V
    OBVIOUS
  <2> HIDE DEF W, V
  <2>3. PICK U, q : U = W(Start(a, k, x), a.ins[x]) /\ q = Block(k, x)
    OBVIOUS
  <2>4. q \in Seq(U) /\ U \subseteq V
    BY <2>1, <2>2, <2>3
  <2>5. q \in Seq(V)
    BY <2>4
  <2> QED BY <2>1, <2>3, <2>5
<1> HIDE DEF V, W, s
<1>5. Lists(s, n, V)
  <2>1. DOMAIN s = 1 .. n /\ Len(s) = n
    BY <1>1, <1>3
  <2> QED BY <1>3, <1>4, <2>1 DEF Lists
<1>6. Places(s, n, next)
  <2>1. \A x \in 1 .. n : next[x] = next[x - 1] + Len(s[x])
    BY <1>1, <1>2, <1>3, <1>4
  <2> QED BY <1>2, <2>1 DEF Places
<1>7. EndToEnd(FlattenSeq(s), s, n, next, V)
  BY <1>1, <1>5, <1>6, Flattened
<1> QED BY <1>6, <1>7 DEF s

\* A reader finds the addresses and the blocks of its views where it looks for
\* them, and the list ends behind them.
LaidOut(k) ==
  LET l == program.reader[k]
  IN  /\ Len(l) = next[Views]
      /\ \A i \in DOMAIN launched.ins : get_arg_val(l, i - 1) = launched.ins[i].addr
      /\ \A x \in 1 .. Views : \A i \in 1 .. Len(Block(k, x)) :
           get_arg_val(l, next[x - 1] + (i - 1)) = Block(k, x)[i]

\* It does, and finds its scalars too, when its first block is behind them.
LEMMA ReaderLayout ==
  ASSUME LaunchInv, launched # None, op \notin RowCopies, NEW k \in Running,
         NEW V, NEW S \in Seq(V), ReaderScalars(launched.a, k) = S,
         NEW n \in Nat, DOMAIN launched.ins = 1 .. n, view_base = n + Len(S)
  PROVE  LaidOut(k) /\ \A j \in 1 .. Len(S) : get_arg_val(program.reader[k], n + (j - 1)) = S[j]
<1> DEFINE a == launched.a
           A == Addresses(launched.ins)
           s == PackedBlocks(k)
           F == FlattenSeq(s)
           l == program.reader[k]
<1>1. l = WithAddresses(A, S \o F)
  <2>1. l = ReaderList(a, launched.ins, k) /\ a.op = op
    BY LaunchedFacts
  <2> QED BY <2>1 DEF ReaderList, reader_args, PackedBlocks, Block
<1>2. Len(A) = n /\ \A i \in 1 .. n : A[i] = launched.ins[i].addr
  BY DEF Addresses
<1>3. view_base \in Int
  OBVIOUS
<1>4. PICK U : EndToEnd(F, s, Views, next, U) /\ Places(s, Views, next)
  BY <1>3, BlocksPacked
<1>5. /\ Views \in 1 .. 5 /\ next \in [0 .. Views -> Int] /\ next[0] = n + Len(S)
      /\ \A x \in 1 .. Views : s[x] = Block(k, x)
  BY <1>3, KindsFacts, NextFacts DEF PackedBlocks
<1> HIDE DEF A, F, s, l
<1>6. F \in Seq(U) /\ Len(F) = next[Views] - next[0] /\ Len(F) \in Nat
  BY <1>4, LenNat DEF EndToEnd
<1>7. S \in Seq(V \cup U) /\ F \in Seq(V \cup U) /\ Len(S) \in Nat
  <2>1. \A X, Y, q : q \in Seq(X) => q \in Seq(X \cup Y) /\ q \in Seq(Y \cup X)
    OBVIOUS
  <2> QED BY <1>6, <2>1, LenNat
<1>8. /\ Len(l) = (n + Len(S)) + Len(F)
      /\ \A i \in 1 .. n : l[i] = A[i]
      /\ \A j \in 1 .. Len(S) : l[n + j] = S[j]
      /\ \A p \in 1 .. Len(F) : l[(n + Len(S)) + p] = F[p]
  <2>1. PICK X : X = V \cup U
    OBVIOUS
  <2>2. S \in Seq(X) /\ F \in Seq(X) /\ Len(A) \in Nat
    BY <1>2, <1>7, <2>1
  <2>3. InOrder(WithAddresses(A, S \o F), A, S, F)
    BY <2>2, ArgsPlaced
  <2>4. InOrder(l, A, S, F)
    BY <1>1, <2>3
  <2> QED BY <1>2, <2>4 DEF InOrder
<1>9. Len(l) = next[Views]
  <2>1. next[Views] \in Int /\ next[0] \in Int
    BY <1>5
  <2> QED BY <1>5, <1>6, <1>8, <2>1
<1>10. \A i \in 1 .. n : get_arg_val(l, i - 1) = launched.ins[i].addr
  <2>1. \A i \in 1 .. n : (i - 1) + 1 = i
    OBVIOUS
  <2> QED BY <1>2, <1>8, <2>1 DEF get_arg_val
<1>11. \A j \in 1 .. Len(S) : get_arg_val(l, n + (j - 1)) = S[j]
  <2>1. \A j \in 1 .. Len(S) : (n + (j - 1)) + 1 = n + j
    BY <1>7
  <2> QED BY <1>8, <2>1 DEF get_arg_val
<1>12. ASSUME NEW x \in 1 .. Views, NEW i \in 1 .. Len(Block(k, x))
       PROVE  get_arg_val(l, next[x - 1] + (i - 1)) = Block(k, x)[i]
  <2>1. s[x] = Block(k, x)
    BY <1>5
  <2>2. /\ next[0] <= next[x - 1] /\ next[x] <= next[Views]
        /\ F[(next[x - 1] - next[0]) + i] = Block(k, x)[i]
    BY <1>4, <2>1 DEF EndToEnd
  <2>3. next[x] = next[x - 1] + Len(Block(k, x))
    BY <1>4, <2>1 DEF Places
  <2>4. PICK u, v, w, z : u = next[x - 1] /\ v = next[0] /\ w = next[x] /\ z = next[Views]
    OBVIOUS
  <2>5. u \in Int /\ v \in Int /\ w \in Int /\ z \in Int
    <3>1. x \in 0 .. Views /\ x - 1 \in 0 .. Views /\ 0 \in 0 .. Views /\ Views \in 0 .. Views
      BY <1>5
    <3> QED BY <1>5, <2>4, <3>1
  <2>6. PICK m : m = Len(Block(k, x))
    OBVIOUS
  <2>7. m \in Int /\ w = u + m
    <3>1. Block(k, x) \in Seq({Start(a, k, x), a.ins[x].base, a.ins[x].S_row, a.ins[x].Cs,
                               nct(a.ins[x]), a.ins[x].Ro, a.ins[x].Co, n_otc(a.ins[x]),
                               a.ins[x].P, a.ins[x].A, a.ins[x].B})
      BY BlockFacts DEF Block
    <3> QED BY <2>3, <2>4, <2>6, <3>1, LenNat
  <2>8. (u - v) + i \in 1 .. Len(F) /\ v + ((u - v) + i) = (u + (i - 1)) + 1 /\ v = n + Len(S)
    <3>1. i \in Int /\ 1 <= i /\ i <= m /\ v <= u /\ w <= z /\ Len(F) = z - v
      BY <1>6, <2>2, <2>4, <2>6, <2>7
    <3>2. v = n + Len(S)
      BY <1>5, <2>4
    <3>3. 1 <= (u - v) + i /\ (u - v) + i <= z - v
      BY <2>5, <2>7, <3>1
    <3> QED BY <2>5, <3>1, <3>2, <3>3
  <2>9. l[v + ((u - v) + i)] = F[(u - v) + i]
    BY <1>8, <2>8
  <2> QED BY <2>2, <2>4, <2>8, <2>9 DEF get_arg_val
<1> QED BY <1>9, <1>10, <1>11, <1>12 DEF l, LaidOut

\* The writer finds its count and its view behind the output's address.
LEMMA WriterLayout ==
  ASSUME LaunchInv, launched # None, op \notin RowCopies, NEW k \in Running
  PROVE  LET l == program.writer[k]
             a == launched.a
             b == append_view_args(First(a, k), a.o)
         IN  /\ Len(l) = 2 + view_num_args(program.kernels.out_kind)
             /\ Len(b) = view_num_args(program.kernels.out_kind)
             /\ get_arg_val(l, 0) = launched.out.addr /\ writer_tiles(k) = Count(a, k)
             /\ \A i \in 1 .. Len(b) : get_arg_val(l, 2 + (i - 1)) = b[i]
<1>1. PICK a, d, t0, addr, n :
        /\ a = launched.a /\ d = a.o /\ t0 = First(a, k) /\ addr = launched.out.addr
        /\ n = Count(a, k)
  OBVIOUS
<1>2. PICK l, b, v : l = program.writer[k] /\ b = append_view_args(t0, d) /\ v = view_num_args(kind_of(d))
  OBVIOUS
<1>3. l = WithAddresses(<<addr>>, <<n>> \o b)
  <2>1. l = WriterList(a, launched.ins, launched.out, k) /\ a.op = op
    BY <1>1, <1>2, LaunchedFacts
  <2> QED BY <1>1, <1>2, <2>1 DEF WriterList, writer_args
<1>4. program.kernels.out_kind = kind_of(d)
  BY <1>1, KindsFacts
<1>5. PICK V : b \in Seq(V) /\ Len(b) = v
  BY <1>2, BlockFacts
<1>6. PICK A, S, X : A = <<addr>> /\ S = <<n>> /\ X = V \cup {n}
  OBVIOUS
<1>7. /\ Len(A) = 1 /\ A[1] = addr /\ Len(S) = 1 /\ S[1] = n
      /\ b \in Seq(X) /\ S \in Seq(X) /\ Len(b) \in Nat
  BY <1>5, <1>6
<1>8. InOrder(l, A, S, b)
  <2>1. Len(A) \in Nat /\ S \in Seq(X) /\ b \in Seq(X)
    BY <1>7
  <2>2. InOrder(WithAddresses(A, S \o b), A, S, b)
    BY <2>1, ArgsPlaced
  <2> QED BY <1>3, <1>6, <2>2
<1>9. /\ Len(l) = 2 + Len(b) /\ l[1] = addr /\ l[2] = n
      /\ \A p \in 1 .. Len(b) : l[2 + p] = b[p]
  <2>1. /\ Len(l) = (Len(A) + Len(S)) + Len(b)
        /\ \A i \in 1 .. Len(A) : l[i] = A[i]
        /\ \A j \in 1 .. Len(S) : l[Len(A) + j] = S[j]
        /\ \A p \in 1 .. Len(b) : l[(Len(A) + Len(S)) + p] = b[p]
    BY <1>8 DEF InOrder
  <2>2. Len(A) + Len(S) = 2 /\ Len(A) + 1 = 2 /\ 1 \in 1 .. Len(A) /\ 1 \in 1 .. Len(S)
    BY <1>7
  <2> QED BY <1>7, <2>1, <2>2
<1>10. get_arg_val(l, 0) = addr /\ get_arg_val(l, 1) = n
  BY <1>9 DEF get_arg_val
<1>11. \A i \in 1 .. Len(b) : get_arg_val(l, 2 + (i - 1)) = b[i]
  <2>1. \A i \in 1 .. Len(b) : (2 + (i - 1)) + 1 = 2 + i
    OBVIOUS
  <2> QED BY <1>9, <2>1 DEF get_arg_val
<1> QED BY <1>1, <1>2, <1>4, <1>5, <1>9, <1>10, <1>11 DEF writer_tiles

-----------------------------------------------------------------------------
\* What the kernels of each op find behind the addresses.
LEMMA EltwiseArgs ==
  ASSUME LaunchInv, launched # None, op \in Eltwise, NEW k \in Running
  PROVE  LET a == launched.a
         IN  /\ LaidOut(k) /\ n_tiles(k) = Count(a, k)
             /\ get_arg_val(program.reader[k], IF op \in Binary THEN 3 ELSE 4) = a.tpg
             /\ get_arg_val(program.compute[k], 0) = Count(a, k)
             /\ get_arg_val(program.compute[k], 1) = a.tpg
             /\ get_arg_val(program.compute[k], 2) = First(a, k) % a.tpg
             /\ \A x \in Blocks : /\ reader_bcast(k, x) = flag(a.bcast[x])
                                  /\ get_arg_val(program.compute[k], 2 + x) = flag(a.bcast[x])
<1> DEFINE c == launched.call
           n == Len(c.views)
           B == launched.a.bcast
           flags == [x \in DOMAIN B |-> flag(B[x])]
           m == Count(launched.a, k)
           g == launched.a.tpg
           f == First(launched.a, k) % launched.a.tpg
           S == <<m, g>> \o flags
           l == program.reader[k]
           C == program.compute[k]
<1>1. /\ c \in Calls /\ launched.a = Attributes(c) /\ c.op = op
      /\ DOMAIN launched.ins = 1 .. n
      /\ C = compute_args(launched.a, k)
  BY LaunchedFacts, OpNames
<1>2. /\ op \notin RowCopies /\ op \notin Norms \cup {"mul_l2_norm", "rk", "realize"}
      /\ op \in Binary \cup Elementwise3 \cup {"k_update"}
      /\ (op \in Binary <=> op \notin Elementwise3 \cup {"k_update"})
  BY <1>1, OpNames
<1>3. n = IF op \in Binary THEN 2 ELSE 3
  BY <1>1, <1>2, Arity
<1>4. Views = n /\ DOMAIN B = 1 .. n /\ Blocks = 1 .. n
  BY <1>1, <1>2, InsFacts, KindsFacts DEF Walked, Views
<1>5. ReaderScalars(launched.a, k) = S /\ C = <<m, g, f>> \o flags
  BY <1>1, ScalarLists DEF EltwiseLists
<1> DEFINE V == {m, g, f, 0, 1}
<1> HIDE DEF m, g, f, B, n, l, C
<1>6. flags \in Seq(V) /\ Len(flags) = n /\ \A x \in 1 .. n : flags[x] = flag(B[x])
  BY <1>3, <1>4 DEF flag
<1> HIDE DEF flags
<1>7. S \in Seq(V) /\ Len(S) = 2 + n /\ S[1] = m /\ S[2] = g /\ \A x \in 1 .. n : S[2 + x] = flags[x]
  <2>1. PICK T : T = <<m, g>>
    OBVIOUS
  <2>2. T \in Seq(V) /\ Len(T) = 2 /\ T[1] = m /\ T[2] = g /\ n \in Nat
    BY <1>3, <2>1
  <2> HIDE DEF V
  <2>3. /\ T \o flags \in Seq(V) /\ Len(T \o flags) = 2 + n
        /\ \A j \in 1 .. 2 : (T \o flags)[j] = T[j]
        /\ \A x \in 1 .. n : (T \o flags)[2 + x] = flags[x]
    <3>1. T \in Seq(V) /\ flags \in Seq(V)
      BY <1>6, <2>2
    <3>2. /\ T \o flags \in Seq(V) /\ Len(T \o flags) = Len(T) + Len(flags)
          /\ \A j \in 1 .. Len(T) : (T \o flags)[j] = T[j]
          /\ \A x \in 1 .. Len(flags) : (T \o flags)[Len(T) + x] = flags[x]
      BY <3>1
    <3> QED BY <1>6, <2>2, <3>2
  <2> QED BY <2>1, <2>2, <2>3
<1>8. C[1] = m /\ C[2] = g /\ C[3] = f /\ \A x \in 1 .. n : C[3 + x] = flags[x]
  BY <1>3, <1>5, <1>6
<1> HIDE DEF S, V
<1>9. view_base = n + Len(S) /\ n \in Nat
  BY <1>2, <1>3, <1>7 DEF view_base
<1>10. LaidOut(k) /\ \A j \in 1 .. Len(S) : get_arg_val(l, n + (j - 1)) = S[j]
  <2>1. DOMAIN launched.ins = 1 .. n
    BY <1>1 DEF n
  <2>2. S \in Seq(V) /\ ReaderScalars(launched.a, k) = S /\ op \notin RowCopies
    BY <1>2, <1>5, <1>7
  <2>3. /\ LaidOut(k)
        /\ \A j \in 1 .. Len(S) : get_arg_val(program.reader[k], n + (j - 1)) = S[j]
    BY <1>9, <2>1, <2>2, ReaderLayout
  <2> QED BY <2>3 DEF l
<1>11. get_arg_val(l, n) = m /\ get_arg_val(l, n + 1) = g
  <2>1. 1 \in 1 .. Len(S) /\ 2 \in 1 .. Len(S) /\ n + (1 - 1) = n /\ n + (2 - 1) = n + 1
    BY <1>3, <1>7
  <2> QED BY <1>7, <1>10, <2>1
<1>12. ASSUME NEW x \in 1 .. n
       PROVE  reader_bcast(k, x) = flag(B[x]) /\ get_arg_val(C, 2 + x) = flag(B[x])
  <2>1. /\ 2 + x \in 1 .. Len(S) /\ n + ((2 + x) - 1) = (IF op \in Binary THEN 3 ELSE 4) + x
        /\ (2 + x) + 1 = 3 + x
    BY <1>3, <1>7
  <2>2. get_arg_val(l, (IF op \in Binary THEN 3 ELSE 4) + x) = flag(B[x])
    BY <1>6, <1>7, <1>10, <2>1
  <2>3. get_arg_val(C, 2 + x) = flag(B[x])
    BY <1>6, <1>8, <2>1 DEF get_arg_val
  <2> QED BY <2>2, <2>3 DEF reader_bcast, l
<1>13. n_tiles(k) = m
  BY <1>2, <1>3, <1>11 DEF n_tiles, l
<1>14. get_arg_val(C, 0) = m /\ get_arg_val(C, 1) = g /\ get_arg_val(C, 2) = f
  BY <1>8 DEF get_arg_val
<1>15. get_arg_val(l, IF op \in Binary THEN 3 ELSE 4) = g
  BY <1>3, <1>11
<1> QED BY <1>4, <1>10, <1>12, <1>13, <1>14, <1>15 DEF l, C, B, m, g, f

LEMMA GlobalFlag ==
  ASSUME LaunchInv, launched # None
  PROVE  program.kernels.global <=> (op \in Norms /\ launched.a.global)
<1>1. program.kernels = Kernels(launched.a, launched.ins, launched.out) /\ launched.a.op = op
  BY LaunchedFacts
<1>2. PICK a, i, o : a = launched.a /\ program.kernels = Kernels(a, i, o)
  BY <1>1
<1>3. Kernels(a, i, o).global = IsGlobal(a)
  BY DEF Kernels
<1>4. Kernels(a, i, o).global <=> IsGlobal(a)
  BY <1>3
<1>5. IsGlobal(a) <=> (op \in Norms /\ launched.a.global)
  BY <1>1, <1>2 DEF IsGlobal
<1>6. program.kernels.global = Kernels(a, i, o).global
  BY <1>2
<1> QED BY <1>4, <1>5, <1>6

LEMMA NormArgs ==
  ASSUME LaunchInv, launched # None, op \in Norms, ~program.kernels.global, NEW k \in Running
  PROVE  LET a == launched.a
             l == program.reader[k]
             C == program.compute[k]
         IN  /\ LaidOut(k) /\ n_rb(k) = here(a, k) /\ ctiles(k) = a.n_otc
             /\ get_arg_val(l, 7) = a.affine
             /\ get_arg_val(C, 0) = here(a, k) /\ get_arg_val(C, 1) = a.n_otc
             /\ get_arg_val(C, 2) = a.affine /\ get_arg_val(C, 3) = a.eps
             /\ get_arg_val(C, 4) = a.rscale
<1>1. PICK h, w, s, e, f :
        h = here(launched.a, k) /\ w = launched.a.n_otc /\ s = launched.a.rscale
        /\ e = launched.a.eps /\ f = launched.a.affine
  OBVIOUS
<1>2. PICK S, V : S = <<h, w, s, e, f>> /\ V = {h, w, s, e, f}
  OBVIOUS
<1>3. S \in Seq(V) /\ Len(S) = 5 /\ S[1] = h /\ S[2] = w /\ S[5] = f
  BY <1>2
<1>4. /\ launched.call \in Calls /\ launched.a = Attributes(launched.call)
      /\ launched.call.op = op /\ launched.a.op = op
      /\ DOMAIN launched.ins = 1 .. 3
      /\ program.compute[k] = compute_args(launched.a, k)
  BY LaunchedFacts
<1>5. op \notin RowCopies \cup {"mul_l2_norm", "rk", "realize"} /\ op \notin Eltwise /\ op \notin Binary
  BY <1>4, OpNames DEF Eltwise
<1>6. ReaderScalars(launched.a, k) = S /\ program.compute[k] = <<h, w, f, e, s>>
  <2>1. ~IsGlobal(launched.a)
    BY <1>4, GlobalFlag DEF IsGlobal
  <2>2. NormLists(launched.call, k)
    BY <1>4, <2>1, ScalarLists
  <2> QED BY <1>1, <1>2, <1>4, <2>2 DEF NormLists
<1>7. view_base = 3 + Len(S)
  BY <1>3, <1>5 DEF view_base
<1>8. /\ LaidOut(k)
      /\ \A j \in 1 .. Len(S) : get_arg_val(program.reader[k], 3 + (j - 1)) = S[j]
  <2>1. op \notin RowCopies /\ S \in Seq(V) /\ ReaderScalars(launched.a, k) = S /\ 3 \in Nat
    BY <1>3, <1>5, <1>6
  <2> QED BY <1>4, <1>7, <2>1, ReaderLayout
<1>9. /\ get_arg_val(program.reader[k], 3) = h /\ get_arg_val(program.reader[k], 4) = w
      /\ get_arg_val(program.reader[k], 7) = f
  <2>1. /\ 1 \in 1 .. Len(S) /\ 2 \in 1 .. Len(S) /\ 5 \in 1 .. Len(S)
        /\ 3 + (1 - 1) = 3 /\ 3 + (2 - 1) = 4 /\ 3 + (5 - 1) = 7
    BY <1>3
  <2> QED BY <1>3, <1>8, <2>1
<1>10. n_rb(k) = h /\ ctiles(k) = w
  BY <1>5, <1>9 DEF n_rb, ctiles
<1>11. /\ get_arg_val(program.compute[k], 0) = h /\ get_arg_val(program.compute[k], 1) = w
       /\ get_arg_val(program.compute[k], 2) = f /\ get_arg_val(program.compute[k], 3) = e
       /\ get_arg_val(program.compute[k], 4) = s
  BY <1>6 DEF get_arg_val
<1> QED BY <1>1, <1>8, <1>9, <1>10, <1>11

LEMMA GlobalArgs ==
  ASSUME LaunchInv, launched # None, op \in Norms, program.kernels.global, NEW k \in Running
  PROVE  LET a == launched.a
             l == program.reader[k]
             C == program.compute[k]
         IN  /\ LaidOut(k) /\ n_tiles(k) = work_tiles(a) /\ get_arg_val(l, 4) = a.affine
             /\ get_arg_val(C, 0) = work_tiles(a) /\ get_arg_val(C, 1) = a.affine
             /\ get_arg_val(C, 2) = a.eps /\ get_arg_val(C, 3) = a.rscale
<1>1. PICK h, s, e, f :
        h = work_tiles(launched.a) /\ s = launched.a.rscale
        /\ e = launched.a.eps /\ f = launched.a.affine
  OBVIOUS
<1>2. PICK S, V : S = <<h, f>> /\ V = {h, f}
  OBVIOUS
<1>3. S \in Seq(V) /\ Len(S) = 2 /\ S[1] = h /\ S[2] = f
  BY <1>2
<1>4. /\ launched.call \in Calls /\ launched.a = Attributes(launched.call)
      /\ launched.call.op = op /\ launched.a.op = op
      /\ DOMAIN launched.ins = 1 .. 3
      /\ program.compute[k] = compute_args(launched.a, k)
  BY LaunchedFacts
<1>5. op \notin RowCopies \cup {"mul_l2_norm", "rk", "realize"} /\ op \notin Eltwise /\ op \notin Binary
  BY <1>4, OpNames DEF Eltwise
<1>6. ReaderScalars(launched.a, k) = S /\ program.compute[k] = <<h, f, e, s>>
  <2>1. IsGlobal(launched.a)
    BY <1>4, GlobalFlag DEF IsGlobal
  <2>2. GlobalLists(launched.call, k)
    BY <1>4, <2>1, ScalarLists
  <2> QED BY <1>1, <1>2, <1>4, <2>2 DEF GlobalLists
<1>7. view_base = 3 + Len(S)
  BY <1>3, <1>5 DEF view_base
<1>8. /\ LaidOut(k)
      /\ \A j \in 1 .. Len(S) : get_arg_val(program.reader[k], 3 + (j - 1)) = S[j]
  <2>1. op \notin RowCopies /\ S \in Seq(V) /\ ReaderScalars(launched.a, k) = S /\ 3 \in Nat
    BY <1>3, <1>5, <1>6
  <2> QED BY <1>4, <1>7, <2>1, ReaderLayout
<1>9. get_arg_val(program.reader[k], 3) = h /\ get_arg_val(program.reader[k], 4) = f
  <2>1. 1 \in 1 .. Len(S) /\ 2 \in 1 .. Len(S) /\ 3 + (1 - 1) = 3 /\ 3 + (2 - 1) = 4
    BY <1>3
  <2> QED BY <1>3, <1>8, <2>1
<1>10. n_tiles(k) = h
  BY <1>5, <1>9 DEF n_tiles
<1>11. /\ get_arg_val(program.compute[k], 0) = h /\ get_arg_val(program.compute[k], 1) = f
       /\ get_arg_val(program.compute[k], 2) = e /\ get_arg_val(program.compute[k], 3) = s
  BY <1>6 DEF get_arg_val
<1> QED BY <1>1, <1>8, <1>9, <1>10, <1>11

LEMMA MulL2Args ==
  ASSUME LaunchInv, launched # None, op = "mul_l2_norm", NEW k \in Running
  PROVE  LET a == launched.a
             C == program.compute[k]
         IN  /\ LaidOut(k)
             /\ n_rb(k) = here(a, k) /\ ctiles(k) = a.n_otc
             /\ get_arg_val(C, 0) = here(a, k) /\ get_arg_val(C, 1) = a.n_otc
<1>1. PICK h, w, s, e :
        h = here(launched.a, k) /\ w = launched.a.n_otc /\ s = launched.a.rscale
        /\ e = launched.a.eps
  OBVIOUS
<1>2. PICK S, V : S = <<h, w>> /\ V = {h, w}
  OBVIOUS
<1>3. S \in Seq(V) /\ Len(S) = 2 /\ S[1] = h /\ S[2] = w
  BY <1>2
<1>4. /\ launched.call \in Calls /\ launched.a = Attributes(launched.call)
      /\ launched.call.op = op
      /\ DOMAIN launched.ins = 1 .. (IF op \in Norms THEN 3 ELSE Len(launched.call.views))
      /\ program.compute[k] = compute_args(launched.a, k)
  BY LaunchedFacts
<1>5. op \notin RowCopies /\ op \notin Norms /\ op \notin Eltwise /\ op \notin Binary
  BY <1>4, OpNames DEF Eltwise
<1>6. DOMAIN launched.ins = 1 .. 2
  <2>1. Len(launched.call.views) = 2
    BY <1>4, Arity
  <2> QED BY <1>4, <1>5, <2>1
<1>7. ReaderScalars(launched.a, k) = S /\ program.compute[k] = <<h, w, e, s>>
  <2>1. MulL2Lists(launched.call, k)
    BY <1>4, ScalarLists
  <2> QED BY <1>1, <1>2, <1>4, <2>1 DEF MulL2Lists
<1>8. view_base = 2 + Len(S)
  BY <1>3, <1>5 DEF view_base
<1>9. /\ LaidOut(k)
      /\ \A j \in 1 .. Len(S) : get_arg_val(program.reader[k], 2 + (j - 1)) = S[j]
  <2>1. op \notin RowCopies /\ S \in Seq(V) /\ ReaderScalars(launched.a, k) = S /\ 2 \in Nat
    BY <1>3, <1>5, <1>7
  <2> QED BY <1>6, <1>8, <2>1, ReaderLayout
<1>10. get_arg_val(program.reader[k], 2) = h /\ get_arg_val(program.reader[k], 3) = w
  <2>1. 1 \in 1 .. Len(S) /\ 2 \in 1 .. Len(S) /\ 2 + (1 - 1) = 2 /\ 2 + (2 - 1) = 3
    BY <1>3
  <2> QED BY <1>3, <1>9, <2>1
<1>11. get_arg_val(program.compute[k], 0) = h /\ get_arg_val(program.compute[k], 1) = w
  BY <1>7 DEF get_arg_val
<1> QED BY <1>1, <1>9, <1>10, <1>11 DEF n_rb, ctiles

LEMMA RkArgs ==
  ASSUME LaunchInv, launched # None, op = "rk", NEW k \in Running
  PROVE  LET a == launched.a
             l == program.reader[k]
             C == program.compute[k]
         IN  /\ LaidOut(k) /\ n_rb(k) = here(a, k) /\ ctiles(k) = a.n_otc
             /\ rk_grp(k) = w_grp(a) /\ get_arg_val(l, 8) = w_phase0(a, k)
             /\ get_arg_val(l, 9) = w_resident(a, k)
             /\ get_arg_val(C, 0) = here(a, k) /\ get_arg_val(C, 1) = a.n_otc
             /\ \A i \in 3 .. 5 : get_arg_val(C, i) = get_arg_val(l, i + 4)
<1>1. PICK h, w, s, g, p, r :
        h = here(launched.a, k) /\ w = launched.a.n_otc /\ s = launched.a.rscale
        /\ g = w_grp(launched.a) /\ p = w_phase0(launched.a, k) /\ r = w_resident(launched.a, k)
  OBVIOUS
<1>2. PICK S, V : S = <<h, w, g, p, r>> /\ V = {h, w, g, p, r}
  OBVIOUS
<1>3. S \in Seq(V) /\ Len(S) = 5 /\ S[1] = h /\ S[2] = w /\ S[3] = g /\ S[4] = p /\ S[5] = r
  BY <1>2
<1>4. /\ launched.call \in Calls /\ launched.a = Attributes(launched.call)
      /\ launched.call.op = op
      /\ DOMAIN launched.ins = 1 .. (IF op \in Norms THEN 3 ELSE Len(launched.call.views))
      /\ program.compute[k] = compute_args(launched.a, k)
  BY LaunchedFacts
<1>5. op \notin RowCopies /\ op \notin Norms /\ op \notin Eltwise /\ op \notin Binary
  BY <1>4, OpNames DEF Eltwise
<1>6. DOMAIN launched.ins = 1 .. 5
  <2>1. Len(launched.call.views) = 5
    BY <1>4, Arity
  <2> QED BY <1>4, <1>5, <2>1
<1>7. ReaderScalars(launched.a, k) = S /\ program.compute[k] = <<h, w, s, g, p, r>>
  <2>1. RkLists(launched.call, k)
    BY <1>4, ScalarLists
  <2> QED BY <1>1, <1>2, <1>4, <2>1 DEF RkLists
<1>8. view_base = 5 + Len(S)
  BY <1>3, <1>5 DEF view_base
<1>9. /\ LaidOut(k)
      /\ \A j \in 1 .. Len(S) : get_arg_val(program.reader[k], 5 + (j - 1)) = S[j]
  <2>1. op \notin RowCopies /\ S \in Seq(V) /\ ReaderScalars(launched.a, k) = S /\ 5 \in Nat
    BY <1>3, <1>5, <1>7
  <2> QED BY <1>6, <1>8, <2>1, ReaderLayout
<1>10. /\ get_arg_val(program.reader[k], 5) = h /\ get_arg_val(program.reader[k], 6) = w
       /\ get_arg_val(program.reader[k], 7) = g /\ get_arg_val(program.reader[k], 8) = p
       /\ get_arg_val(program.reader[k], 9) = r
  <2>1. \A j \in 1 .. 5 : j \in 1 .. Len(S) /\ 5 + (j - 1) = 4 + j
    BY <1>3
  <2>2. \A j \in 1 .. 5 : get_arg_val(program.reader[k], 4 + j) = S[j]
    BY <1>9, <2>1
  <2>3. 4 + 1 = 5 /\ 4 + 2 = 6 /\ 4 + 3 = 7 /\ 4 + 4 = 8 /\ 4 + 5 = 9
    OBVIOUS
  <2> QED BY <1>3, <2>2, <2>3
<1>11. /\ get_arg_val(program.compute[k], 0) = h /\ get_arg_val(program.compute[k], 1) = w
       /\ get_arg_val(program.compute[k], 3) = g /\ get_arg_val(program.compute[k], 4) = p
       /\ get_arg_val(program.compute[k], 5) = r
  BY <1>7 DEF get_arg_val
<1>12. \A i \in 3 .. 5 : get_arg_val(program.compute[k], i) = get_arg_val(program.reader[k], i + 4)
  <2>1. \A i \in 3 .. 5 : i = 3 \/ i = 4 \/ i = 5
    OBVIOUS
  <2>2. 3 + 4 = 7 /\ 4 + 4 = 8 /\ 5 + 4 = 9
    OBVIOUS
  <2> QED BY <1>10, <1>11, <2>1, <2>2
<1> QED BY <1>1, <1>9, <1>10, <1>11, <1>12 DEF n_rb, ctiles, rk_grp

LEMMA RealizeArgs ==
  ASSUME LaunchInv, launched # None, op = "realize", NEW k \in Running
  PROVE  LaidOut(k) /\ n_tiles(k) = Count(launched.a, k)
<1>1. PICK h : h = Count(launched.a, k)
  OBVIOUS
<1>2. PICK S, V : S = <<h>> /\ V = {h}
  OBVIOUS
<1>3. S \in Seq(V) /\ Len(S) = 1 /\ S[1] = h
  BY <1>2
<1>4. /\ launched.call \in Calls /\ launched.a = Attributes(launched.call)
      /\ launched.call.op = op
      /\ DOMAIN launched.ins = 1 .. (IF op \in Norms THEN 3 ELSE Len(launched.call.views))
  BY LaunchedFacts
<1>5. op \notin RowCopies /\ op \notin Norms /\ op \notin Eltwise /\ op \notin Binary
  BY <1>4, OpNames DEF Eltwise
<1>6. DOMAIN launched.ins = 1 .. 1
  <2>1. Len(launched.call.views) = 1
    BY <1>4, Arity
  <2> QED BY <1>4, <1>5, <2>1
<1>7. ReaderScalars(launched.a, k) = S
  BY <1>1, <1>2, <1>4, ScalarLists
<1>8. view_base = 1 + Len(S)
  BY <1>3, <1>5 DEF view_base
<1>9. /\ LaidOut(k)
      /\ \A j \in 1 .. Len(S) : get_arg_val(program.reader[k], 1 + (j - 1)) = S[j]
  <2>1. op \notin RowCopies /\ S \in Seq(V) /\ ReaderScalars(launched.a, k) = S /\ 1 \in Nat
    BY <1>3, <1>5, <1>7
  <2> QED BY <1>6, <1>8, <2>1, ReaderLayout
<1>10. get_arg_val(program.reader[k], 1) = h
  <2>1. 1 \in 1 .. Len(S) /\ 1 + (1 - 1) = 1
    BY <1>3
  <2> QED BY <1>3, <1>9, <2>1
<1> QED BY <1>1, <1>5, <1>9, <1>10 DEF n_tiles

\* An indexed copy's lists are those of its two sides, one of them indexed.
LEMMA RowCopyArgs ==
  ASSUME LaunchInv, launched # None, op \in RowCopies, NEW k \in Running
  PROVE  /\ {Len(program.reader[k]), Len(program.writer[k])} = {5, 8}
         /\ get_arg_val(program.reader[k], 4) = K
         /\ program.kernels.pages = <<IO_DEPTH>>
<1>1. PICK a, ins, out : a = launched.a /\ ins = launched.ins /\ out = launched.out
  OBVIOUS
<1>2. /\ launched.call \in Calls /\ launched.call.op = op /\ a.op = op
      /\ program.kernels = Kernels(a, ins, out)
      /\ program.reader[k] = ReaderList(a, ins, k)
      /\ program.writer[k] = WriterList(a, ins, out, k)
  BY <1>1, LaunchedFacts
<1>3. /\ program.reader[k] = index_args(a, k, ins[1].addr, gather(a), ins[2].addr)
      /\ program.writer[k] = index_args(a, k, out.addr, ~gather(a), ins[2].addr)
  BY <1>2 DEF ReaderList, WriterList
<1>4. /\ gather(a) => Len(program.reader[k]) = 8
      /\ ~gather(a) => Len(program.reader[k]) = 5
  BY <1>3 DEF index_args
<1>5. /\ gather(a) => Len(program.writer[k]) = 5
      /\ ~gather(a) => Len(program.writer[k]) = 8
  BY <1>3 DEF index_args
<1>6. ASSUME NEW addr, NEW b, NEW idx PROVE get_arg_val(index_args(a, k, addr, b, idx), 4) = K
  BY DEF index_args, get_arg_val
<1>7. get_arg_val(program.reader[k], 4) = K
  BY <1>3, <1>6
<1>8. program.kernels.pages = <<IO_DEPTH>>
  <2>1. Pages(a) = <<IO_DEPTH>>
    <3>1. a.op \notin Eltwise /\ a.op \in RowCopies /\ a.op \notin Norms /\ a.op # "realize"
      BY <1>2, OpNames
    <3> QED BY <3>1 DEF Pages, IsGlobal, IsRowNorm
  <2> QED BY <1>2, <2>1 DEF Kernels
<1>9. {Len(program.reader[k]), Len(program.writer[k])} = {5, 8}
  BY <1>4, <1>5
<1> QED BY <1>7, <1>8, <1>9

LEMMA ReaderEnds ==
  ASSUME LaunchInv, launched # None, op \notin RowCopies, NEW k \in Running
  PROVE  LaidOut(k)
<1>1. op \in Eltwise \cup Norms \cup {"realize", "mul_l2_norm", "rk"}
  BY LaunchedFacts, OpNames
<1> QED BY <1>1, EltwiseArgs, NormArgs, GlobalArgs, MulL2Args, RkArgs, RealizeArgs

\* Every argument list a launch hands to a kernel is as long as the kernel
\* reads, for every op and any mix of the three kinds of view: the kernels'
\* offsets, computed from the kinds, end where the host's packing ends.
THEOREM TypesHold == Spec => []TypeOK
<1>1. ASSUME CacheInv PROVE TypeOK
  <2> SUFFICES ASSUME launched # None, NEW k \in Running
               PROVE  IF op \in RowCopies
                      THEN {Len(program.reader[k]), Len(program.writer[k])} = {5, 8}
                      ELSE /\ Len(program.reader[k]) = next[Len(program.kernels.kinds)]
                           /\ Len(program.writer[k]) = 2 + view_num_args(program.kernels.out_kind)
    BY DEF TypeOK
  <2>1. LaunchInv
    BY <1>1 DEF CacheInv
  <2>2. CASE op \in RowCopies
    BY <2>1, <2>2, RowCopyArgs
  <2>3. CASE op \notin RowCopies
    <3>1. Len(program.reader[k]) = next[Len(program.kernels.kinds)]
      BY <2>1, <2>3, ReaderEnds, KindsFacts DEF LaidOut
    <3>2. Len(program.writer[k]) = 2 + view_num_args(program.kernels.out_kind)
      BY <2>1, <2>3, WriterLayout
    <3> QED BY <2>3, <3>1, <3>2
  <2> QED BY <2>2, <2>3
<1> QED BY <1>1, CacheInit, CacheStep, PTL DEF Spec

-----------------------------------------------------------------------------
(***************************************************************************)
(* The kernels of a core agree.                                            *)
(***************************************************************************)
LEMMA Multiples ==
  ASSUME NEW n \in Nat \ {0}, NEW m \in Nat
  PROVE  (m * n) % n = 0 /\ n % n = 0 /\ (2 * n) % n = 0
<1>1. m * n \in Int /\ m * n = m * n + 0 /\ n = 1 * n + 0 /\ 2 * n = 2 * n + 0
  OBVIOUS
<1>2. 0 = (m * n) % n
  BY <1>1, DivModUnique
<1>3. 0 = n % n
  BY <1>1, DivModUnique
<1>4. 0 = (2 * n) % n
  BY <1>1, DivModUnique
<1> QED BY <1>2, <1>3, <1>4

\* An operand is resident only as a group of at least one tile.
LEMMA GroupPositive ==
  ASSUME NEW c \in Calls, c.op \in Eltwise, NEW x \in DOMAIN c.views, Attributes(c).bcast[x]
  PROVE  Attributes(c).tpg \in Nat \ {0}
<1> DEFINE o == EltwiseOut(c)
           G == Groups(c, o)
<1>1. Attributes(c).bcast = Feed(c).bcast /\ Attributes(c).tpg = Feed(c).tpg
  BY OpAttributes, EltwiseFields
<1>2. Feed(c).bcast[x]
  BY <1>1
<1>3. ~Shifted(c, o)
  <2> SUFFICES ASSUME Shifted(c, o) PROVE FALSE
    OBVIOUS
  <2>1. Feed(c).bcast = [y \in DOMAIN c.views |-> FALSE]
    BY DEF Feed
  <2> QED BY <1>2, <2>1
<1>4. /\ Feed(c).bcast = [y \in DOMAIN c.views |-> Resident(c.views[y].desc, o.desc, o.rows)]
      /\ Feed(c).tpg = IF G = {} THEN out_tiles(o.desc) ELSE CHOOSE n \in G : TRUE
  BY <1>3 DEF Feed
<1>5. Resident(c.views[x].desc, o.desc, o.rows)
  BY <1>2, <1>4
<1>6. out_tiles(c.views[x].desc) \in G
  BY <1>5 DEF Groups, Descs
<1>7. Feed(c).tpg \in G
  <2> HIDE DEF G
  <2> QED BY <1>4, <1>6
<1>8. PICK y \in DOMAIN c.views : Feed(c).tpg = out_tiles(c.views[y].desc)
  BY <1>7 DEF Groups, Descs
<1>9. NonEmpty(c.views[y].desc)
  BY OperandsAssumption DEF Calls
<1> QED BY <1>1, <1>8, <1>9, GridPositive

LEMMA NormMapPositive ==
  ASSUME NEW c \in Calls, c.op \in Norms, Lowers(c)
  PROVE  NonEmpty(NormMap(c, Out(c).desc))
<1> DEFINE d == Out(c).desc
<1>1. d = OutLike(c, Descs(c)[1]).desc /\ NormLowers(c, Descs(c), d)
  <2>1. c.op \notin Eltwise /\ c.op \notin RowCopies /\ c.op # "mul_l2_norm" /\ c.op # "rk" /\ c.op # "realize"
    BY OpNames
  <2> QED BY <2>1 DEF Out, Lowers, RowCopies
<1>2. 1 \in DOMAIN c.views /\ Descs(c)[1] = c.views[1].desc
  BY Arity DEF Descs
<1>3. NonEmpty(c.views[1].desc)
  BY <1>2, OperandsAssumption DEF Calls
<1>4. NonEmpty(d)
  BY <1>1, <1>2, <1>3, OutNonEmpty
<1>5. CASE ~Folds(c)
  BY <1>4, <1>5 DEF NormMap
<1>6. CASE Folds(c)
  <2>1. PICK C : C = d.Co /\ C \in Nat \ {0} /\ C % (TILE * TILE) = 0
    BY <1>1, <1>2, <1>4, <1>6 DEF Folds, RowWidth, NormLowers, SameGrid, NonEmpty
  <2>2. TILE \in Nat \ {0} /\ TILE * TILE \in Nat \ {0}
    BY TileAssumption
  <2>3. PICK q \in Int : C = q * (TILE * TILE)
    <3>1. PICK T \in Nat \ {0} : T = TILE * TILE
      BY <2>2
    <3>2. C \in Int /\ C % T = 0
      BY <2>1, <3>1
    <3>3. C \div T \in Int /\ C = ((C \div T) * T) + (C % T)
      BY <3>2, DivModFloor
    <3>4. PICK q : q = C \div T
      OBVIOUS
    <3>5. q \in Int /\ C = (q * T) + 0 /\ q * T \in Int
      BY <3>2, <3>3, <3>4
    <3> QED BY <3>1, <3>5
  <2>4. q > 0
    <3> SUFFICES ASSUME q <= 0 PROVE FALSE
      OBVIOUS
    <3>1. -q \in Int /\ -q >= 0 /\ TILE * TILE >= 0 /\ TILE * TILE \in Int
      BY <2>2
    <3>2. (-q) * (TILE * TILE) >= 0
      BY <3>1, ProductNat
    <3>3. (-q) * (TILE * TILE) = -(q * (TILE * TILE))
      BY <2>2, <2>3
    <3> QED BY <2>1, <2>3, <3>2, <3>3
  <2>5. q * TILE \in Int /\ q * TILE > 0
    <3>1. q * TILE \in Int /\ q * TILE >= 0
      BY <2>2, <2>3, <2>4, ProductNat
    <3>2. (q - 1) * TILE >= 0 /\ (q - 1) * TILE = q * TILE - TILE
      BY <2>2, <2>3, <2>4, ProductNat, q - 1 \in Int
    <3> QED BY <2>2, <3>1, <3>2
  <2>6. C \div TILE = q * TILE
    <3>1. C = ((q * TILE) * TILE) + 0 /\ C \in Int
      BY <2>1, <2>2, <2>3
    <3> QED BY <2>2, <2>5, <3>1, DivModUnique
  <2>7. NormMap(c, d) = linear(d.base, TILE, d.Cs, d.Co \div TILE, TILE)
    BY <1>6 DEF NormMap, Folded
  <2>8. NormMap(c, d).Ro = q * TILE /\ NormMap(c, d).Co = TILE
    BY <2>1, <2>6, <2>7 DEF linear
  <2> QED BY <2>2, <2>5, <2>8 DEF NonEmpty
<1> QED BY <1>5, <1>6

LEMMA GridsPositive ==
  ASSUME NEW c \in Calls, Lowers(c), c.op \in Norms \cup {"mul_l2_norm", "rk"}
  PROVE  LET a == Attributes(c)
         IN  /\ a.n_otr \in Nat \ {0} /\ a.n_otc \in Nat \ {0}
             /\ work_tiles(a) = a.n_otr * a.n_otc /\ work_tiles(a) \in Nat \ {0}
             /\ c.op = "rk" => a.rbs_per_group \in Nat \ {0}
<1> DEFINE a == Attributes(c)
<1>1. ASSUME NEW x \in DOMAIN c.views PROVE Descs(c)[x] = c.views[x].desc /\ NonEmpty(Descs(c)[x])
  BY OperandsAssumption DEF Calls, Descs
<1>2. PICK d : NonEmpty(d) /\ a.n_otr = n_otr(d) /\ a.n_otc = n_otc(d)
  <2>1. CASE c.op \in Norms
    <3>1. a.n_otr = n_otr(NormMap(c, Out(c).desc)) /\ a.n_otc = n_otc(NormMap(c, Out(c).desc))
      BY <2>1, OpAttributes, NormFields
    <3> QED BY <2>1, <3>1, NormMapPositive
  <2>2. CASE c.op = "mul_l2_norm"
    <3>1. Out(c) = OutLike(c, Descs(c)[FullOperand(c)])
      BY <2>2 DEF Out, Eltwise, Binary, Elementwise3
    <3>2. FullOperand(c) \in {1, 2} /\ DOMAIN c.views = {1, 2}
      <4>1. FullOperand(c) = 1 \/ FullOperand(c) = 2
        BY DEF FullOperand
      <4> QED BY <2>2, <4>1, Arity
    <3>3. NonEmpty(Out(c).desc)
      BY <1>1, <3>1, <3>2, OutNonEmpty
    <3>4. a = MulL2Attributes(c)
      BY <2>2, OpAttributes
    <3>5. a.n_otr = n_otr(Out(c).desc) /\ a.n_otc = n_otc(Out(c).desc)
      <4> HIDE DEF a
      <4> QED BY <3>4, MulL2Fields
    <3> QED BY <3>3, <3>5
  <2>3. CASE c.op = "rk"
    <3>1. Out(c) = OutLike(c, Descs(c)[5])
      BY <2>3 DEF Out, Eltwise, Binary, Elementwise3
    <3>2. 5 \in DOMAIN c.views
      BY <2>3, Arity
    <3>3. NonEmpty(Out(c).desc)
      BY <1>1, <3>1, <3>2, OutNonEmpty
    <3> QED BY <2>3, <3>3, OpAttributes, RkFields
  <2> QED BY <2>1, <2>2, <2>3
<1>3. a.n_otr \in Nat \ {0} /\ a.n_otc \in Nat \ {0}
  BY <1>2, GridPositive
<1>4. work_tiles(a) = a.n_otr * a.n_otc
  <2>1. a.op \notin RowCopies
    BY InsFacts, OpNames
  <2> HIDE DEF a
  <2> QED BY <2>1 DEF work_tiles
<1>5. work_tiles(a) \in Nat \ {0}
  BY <1>2, <1>4, GridPositive DEF out_tiles
<1>6. c.op = "rk" => a.rbs_per_group \in Nat \ {0}
  <2> SUFFICES ASSUME c.op = "rk" PROVE a.rbs_per_group \in Nat \ {0}
    OBVIOUS
  <2>1. 3 \in DOMAIN c.views
    BY Arity
  <2>2. a.rbs_per_group = n_otr(Descs(c)[3])
    BY OpAttributes, RkFields
  <2> QED BY <1>1, <2>1, <2>2, GridPositive
<1> QED BY <1>3, <1>4, <1>5, <1>6

LEMMA EltwiseAgree ==
  ASSUME LaunchInv, launched # None, op \in Eltwise, NEW k \in Running
  PROVE  Fits(k) /\ SameCounts(k) /\ Scaled(k)
<1> DEFINE c == launched.call
<1>1. PICK a : a = launched.a
  OBVIOUS
<1>2. /\ c \in Calls /\ a = Attributes(c) /\ a.op = op /\ c.op = op
      /\ program.kernels = Kernels(a, launched.ins, launched.out)
  BY <1>1, LaunchedFacts
<1>3. op \notin RowCopies \cup Norms \cup {"mul_l2_norm", "rk", "realize"}
  BY <1>2, OpNames
<1>4. ~program.kernels.global
  BY <1>3, GlobalFlag
<1>5. Blocks = DOMAIN c.views /\ DOMAIN a.ins = Blocks
  <2>1. Blocks = 1 .. Walked(c) /\ DOMAIN a.ins = 1 .. Walked(c)
    BY <1>1, <1>3, KindsFacts DEF Views
  <2>2. DOMAIN c.views = 1 .. Walked(c)
    BY <1>2, <1>3, Arity DEF Walked
  <2> QED BY <2>1, <2>2
<1>6. /\ n_tiles(k) = Count(a, k)
      /\ get_arg_val(program.reader[k], IF op \in Binary THEN 3 ELSE 4) = a.tpg
      /\ get_arg_val(program.compute[k], 0) = Count(a, k)
      /\ get_arg_val(program.compute[k], 1) = a.tpg
      /\ \A x \in Blocks : /\ reader_bcast(k, x) = flag(a.bcast[x])
                           /\ get_arg_val(program.compute[k], 2 + x) = flag(a.bcast[x])
  BY <1>1, EltwiseArgs
<1>7. writer_tiles(k) = Count(a, k)
  BY <1>1, <1>3, WriterLayout
<1>8. Read(k) = n_tiles(k) /\ ~RowOp
  BY <1>3 DEF Read, RowOp
<1>9. program.kernels.pages = [x \in DOMAIN a.ins |-> IF a.bcast[x] THEN a.tpg ELSE 4]
  <2>1. Pages(a) = [x \in DOMAIN a.ins |-> IF a.bcast[x] THEN a.tpg ELSE 4]
    BY <1>2, <1>3 DEF Pages, IsGlobal, IsRowNorm
  <2> QED BY <1>2, <2>1 DEF Kernels
<1>10. ASSUME NEW x \in Blocks PROVE program.kernels.pages[x] % AtOnce(k, x) = 0
  <2>1. CASE a.bcast[x]
    <3>1. a.tpg \in Nat \ {0}
      BY <1>2, <1>5, <2>1, GroupPositive
    <3>2. program.kernels.pages[x] = a.tpg
      BY <1>5, <1>9, <2>1
    <3>3. AtOnce(k, x) = a.tpg
      BY <1>6, <2>1 DEF AtOnce, flag
    <3> QED BY <3>1, <3>2, <3>3, Multiples
  <2>2. CASE ~a.bcast[x]
    <3>1. program.kernels.pages[x] = 4
      BY <1>5, <1>9, <2>2
    <3>2. AtOnce(k, x) = 1
      BY <1>6, <2>2 DEF AtOnce, flag
    <3> QED BY <3>1, <3>2
  <2> QED BY <2>1, <2>2
<1>11. Fits(k)
  BY <1>3, <1>10 DEF Fits
<1>12. SameCounts(k)
  BY <1>3, <1>4, <1>6, <1>7, <1>8 DEF SameCounts
<1>13. Scaled(k)
  BY <1>3 DEF Scaled
<1> QED BY <1>11, <1>12, <1>13

\* Ops that work by rows of tiles hand a core whole rows.
LEMMA RowCounts ==
  ASSUME LaunchInv, launched # None, op \in Norms \cup {"mul_l2_norm", "rk"},
         ~program.kernels.global, NEW k \in Running
  PROVE  /\ RowOp /\ op \notin RowCopies /\ op \notin Eltwise
         /\ writer_tiles(k) = here(launched.a, k) * launched.a.n_otc
<1>1. PICK a : a = launched.a /\ a.op = op /\ launched.call.op = op /\ launched.call \in Calls
  BY LaunchedFacts
<1>2. RowOp /\ op \notin RowCopies /\ op \notin Eltwise
  BY <1>1, OpNames DEF RowOp
<1>3. writer_tiles(k) = Count(a, k)
  BY <1>1, <1>2, WriterLayout
<1>4. per_unit(a) = a.n_otc
  <2>1. ~IsGlobal(a)
    BY <1>1, GlobalFlag DEF IsGlobal
  <2>2. IsRowOp(a)
    BY <1>1 DEF IsRowOp
  <2> QED BY <2>1, <2>2 DEF per_unit
<1> QED BY <1>1, <1>2, <1>3, <1>4 DEF Count

LEMMA RowNormAgree ==
  ASSUME LaunchInv, launched # None, op \in Norms, ~program.kernels.global, NEW k \in Running
  PROVE  Fits(k) /\ SameCounts(k) /\ Scaled(k)
<1> DEFINE c == launched.call
<1>1. PICK a : a = launched.a
  OBVIOUS
<1>2. /\ c \in Calls /\ Lowers(c) /\ a = Attributes(c) /\ a.op = op /\ c.op = op
      /\ program.kernels = Kernels(a, launched.ins, launched.out)
  BY <1>1, LaunchedFacts
<1>3. op \notin RowCopies \cup Eltwise \cup {"mul_l2_norm", "rk", "realize"}
  BY <1>2, OpNames
<1>4. /\ n_rb(k) = here(a, k) /\ ctiles(k) = a.n_otc
      /\ get_arg_val(program.reader[k], 7) = a.affine
      /\ get_arg_val(program.compute[k], 0) = here(a, k) /\ get_arg_val(program.compute[k], 1) = a.n_otc
      /\ get_arg_val(program.compute[k], 2) = a.affine /\ get_arg_val(program.compute[k], 3) = a.eps
      /\ get_arg_val(program.compute[k], 4) = a.rscale
  BY <1>1, NormArgs
<1>5. RowOp /\ writer_tiles(k) = here(a, k) * a.n_otc
  BY <1>1, RowCounts
<1>6. Read(k) = here(a, k) * a.n_otc
  BY <1>4, <1>5 DEF Read
<1>7. a.n_otc \in Nat \ {0}
  BY <1>2, GridsPositive
<1>8. program.kernels.pages = <<IF a.wide THEN a.n_otc ELSE 2 * a.n_otc>> /\ Blocks = 1 .. 1
  <2>1. IsRowNorm(a) /\ ~IsGlobal(a)
    BY <1>1, <1>2, GlobalFlag DEF IsRowNorm, IsGlobal
  <2>2. Pages(a) = <<IF a.wide THEN a.n_otc ELSE 2 * a.n_otc>>
    BY <1>2, <1>3, <2>1 DEF Pages
  <2>3. Blocks = 1 .. Walked(c) /\ Walked(c) = 1
    BY <1>2, <1>3, KindsFacts DEF Views, Walked
  <2> QED BY <1>2, <2>2, <2>3 DEF Kernels
<1>9. Fits(k)
  <2>1. \A x \in Blocks : AtOnce(k, x) = a.n_otc
    BY <1>3, <1>4, <1>5 DEF AtOnce
  <2>2. program.kernels.pages[1] = a.n_otc \/ program.kernels.pages[1] = 2 * a.n_otc
    BY <1>8
  <2>3. \A x \in Blocks : x = 1
    BY <1>8
  <2>4. ASSUME NEW x \in Blocks PROVE program.kernels.pages[x] % AtOnce(k, x) = 0
    <3>1. x = 1 /\ AtOnce(k, x) = a.n_otc
      BY <2>1, <2>3
    <3>2. a.n_otc % a.n_otc = 0 /\ (2 * a.n_otc) % a.n_otc = 0
      BY <1>7, Multiples
    <3> QED BY <2>2, <3>1, <3>2
  <2> QED BY <1>3, <2>4 DEF Fits
<1>10. SameCounts(k)
  BY <1>3, <1>4, <1>5, <1>6 DEF SameCounts, affine_kind
<1>11. Scaled(k)
  <2>1. a.rscale = rscale(c) /\ a.eps = c.eps /\ (a.global <=> Folds(c))
    <3>1. a = NormAttributes(c)
      BY <1>2, OpAttributes
    <3>2. /\ NormAttributes(c).rscale = rscale(c) /\ NormAttributes(c).eps = c.eps
          /\ NormAttributes(c).global = Folds(c)
      BY NormFields
    <3> QED BY <3>1, <3>2
  <2>2. ~Folds(c)
    BY <1>1, <2>1, GlobalFlag
  <2>3. rscale(c) = IF op = "l2_norm" THEN 1 ELSE c.views[1].desc.Co
    BY <1>2, <2>2 DEF rscale, RowWidth
  <2> QED BY <1>4, <2>1, <2>3 DEF Scaled, call
<1> QED BY <1>9, <1>10, <1>11

\* A folded row is the work of one core.
LEMMA OneGlobal ==
  ASSUME NEW a, IsGlobal(a), work_tiles(a) \in Nat \ {0}, NEW k \in AllCores(a)
  PROVE  Count(a, k) = work_tiles(a)
<1> DEFINE w == work_tiles(a)
<1>1. w = 1 * w + 0 /\ 1 = w \div w
  <2>1. w \in Nat \ {0}
    OBVIOUS
  <2> HIDE DEF w
  <2>2. w = 1 * w + 0
    BY <2>1
  <2> QED BY <2>1, <2>2, DivModUnique
<1>2. per_unit(a) = w /\ units(a) = 1
  BY <1>1 DEF per_unit, units
<1>3. NumCores \in Nat \ {0} /\ k \in 0 .. NumCores - 1 /\ here(a, k) > 0
  BY CacheAssumption DEF AllCores, Cores
<1>4. here(a, k) = 1
  <2>1. CASE NumCores = 1
    <3>1. 1 \div NumCores = 1 /\ 1 % NumCores = 0
      BY <2>1
    <3> QED BY <1>2, <1>3, <3>1 DEF here
  <2>2. CASE NumCores > 1
    <3>1. 1 = 0 * NumCores + 1
      BY <1>3
    <3>2. 0 = 1 \div NumCores /\ 1 = 1 % NumCores
      BY <1>3, <2>2, <3>1, DivModUnique
    <3> QED BY <1>2, <1>3, <3>2 DEF here
  <2> QED BY <1>3, <2>1, <2>2
<1> QED BY <1>2, <1>4 DEF Count

LEMMA GlobalNormAgree ==
  ASSUME LaunchInv, launched # None, op \in Norms, program.kernels.global, NEW k \in Running
  PROVE  Fits(k) /\ SameCounts(k) /\ Scaled(k)
<1> DEFINE c == launched.call
<1>1. PICK a : a = launched.a
  OBVIOUS
<1>2. /\ c \in Calls /\ Lowers(c) /\ a = Attributes(c) /\ a.op = op /\ c.op = op
      /\ program.kernels = Kernels(a, launched.ins, launched.out)
      /\ k \in AllCores(a)
  BY <1>1, LaunchedFacts
<1>3. op \notin RowCopies \cup Eltwise \cup {"mul_l2_norm", "rk", "realize"} /\ ~RowOp
  BY <1>2, OpNames DEF RowOp
<1>4. /\ n_tiles(k) = work_tiles(a) /\ get_arg_val(program.reader[k], 4) = a.affine
      /\ get_arg_val(program.compute[k], 0) = work_tiles(a)
      /\ get_arg_val(program.compute[k], 1) = a.affine
      /\ get_arg_val(program.compute[k], 2) = a.eps /\ get_arg_val(program.compute[k], 3) = a.rscale
  BY <1>1, GlobalArgs
<1>5. work_tiles(a) \in Nat \ {0}
  BY <1>2, GridsPositive
<1>6. IsGlobal(a) /\ ~IsRowNorm(a)
  BY <1>1, <1>2, GlobalFlag DEF IsGlobal, IsRowNorm
<1>7. writer_tiles(k) = work_tiles(a)
  <2>1. writer_tiles(k) = Count(a, k)
    BY <1>1, <1>3, WriterLayout
  <2> QED BY <1>2, <1>5, <1>6, <2>1, OneGlobal
<1>8. Read(k) = work_tiles(a)
  BY <1>3, <1>4 DEF Read
<1>9. program.kernels.pages = <<work_tiles(a)>> /\ Blocks = 1 .. 1
  <2>1. Pages(a) = <<work_tiles(a)>>
    BY <1>2, <1>3, <1>6 DEF Pages
  <2>2. Blocks = 1 .. Walked(c) /\ Walked(c) = 1
    BY <1>2, <1>3, KindsFacts DEF Views, Walked
  <2> QED BY <1>2, <2>1, <2>2 DEF Kernels
<1>10. Fits(k)
  <2>1. ASSUME NEW x \in Blocks PROVE program.kernels.pages[x] % AtOnce(k, x) = 0
    <3>1. AtOnce(k, x) = work_tiles(a)
      BY <1>3, <1>8 DEF AtOnce
    <3>2. x = 1 /\ program.kernels.pages[1] = work_tiles(a)
      BY <1>9
    <3> QED BY <1>5, <3>1, <3>2, Multiples
  <2> QED BY <1>3, <2>1 DEF Fits
<1>11. SameCounts(k)
  BY <1>3, <1>4, <1>7, <1>8 DEF SameCounts, affine_kind
<1>12. Scaled(k)
  <2>1. a.rscale = rscale(c) /\ a.eps = c.eps /\ (a.global <=> Folds(c))
    <3>1. a = NormAttributes(c)
      BY <1>2, OpAttributes
    <3>2. /\ NormAttributes(c).rscale = rscale(c) /\ NormAttributes(c).eps = c.eps
          /\ NormAttributes(c).global = Folds(c)
      BY NormFields
    <3> QED BY <3>1, <3>2
  <2>2. Folds(c)
    BY <1>1, <2>1, GlobalFlag
  <2>3. rscale(c) = IF op = "l2_norm" THEN 1 ELSE -c.views[1].desc.Co
    BY <1>2, <2>2 DEF rscale, RowWidth
  <2> QED BY <1>4, <2>1, <2>3 DEF Scaled, call
<1> QED BY <1>10, <1>11, <1>12

LEMMA MulL2Agree ==
  ASSUME LaunchInv, launched # None, op = "mul_l2_norm", NEW k \in Running
  PROVE  Fits(k) /\ SameCounts(k) /\ Scaled(k)
<1> DEFINE c == launched.call
<1>1. PICK a : a = launched.a
  OBVIOUS
<1>2. /\ c \in Calls /\ Lowers(c) /\ a = Attributes(c) /\ a.op = op /\ c.op = op
      /\ program.kernels = Kernels(a, launched.ins, launched.out)
  BY <1>1, LaunchedFacts
<1>3. op \notin RowCopies \cup Eltwise \cup Norms
  BY <1>2, OpNames
<1>4. ~program.kernels.global
  BY <1>3, GlobalFlag
<1>5. /\ n_rb(k) = here(a, k) /\ ctiles(k) = a.n_otc
      /\ get_arg_val(program.compute[k], 0) = here(a, k)
      /\ get_arg_val(program.compute[k], 1) = a.n_otc
  BY <1>1, MulL2Args
<1>6. RowOp /\ writer_tiles(k) = here(a, k) * a.n_otc
  BY <1>1, <1>4, RowCounts
<1>7. Read(k) = here(a, k) * a.n_otc
  BY <1>5, <1>6 DEF Read
<1>8. a.n_otc \in Nat \ {0}
  BY <1>2, GridsPositive
<1>9. program.kernels.pages = [x \in DOMAIN a.ins |-> 2 * a.n_otc] /\ DOMAIN a.ins = Blocks
  <2>1. Pages(a) = [x \in DOMAIN a.ins |-> 2 * a.n_otc]
    BY <1>2, <1>3 DEF Pages, IsGlobal, IsRowNorm
  <2> QED BY <1>1, <1>2, <1>3, <2>1, KindsFacts DEF Kernels
<1>10. Fits(k)
  <2>1. ASSUME NEW x \in Blocks PROVE program.kernels.pages[x] % AtOnce(k, x) = 0
    <3>1. AtOnce(k, x) = a.n_otc
      BY <1>3, <1>5, <1>6 DEF AtOnce
    <3>2. program.kernels.pages[x] = 2 * a.n_otc
      BY <1>9
    <3> QED BY <1>8, <3>1, <3>2, Multiples
  <2> QED BY <1>3, <2>1 DEF Fits
<1>11. SameCounts(k)
  BY <1>3, <1>4, <1>5, <1>6, <1>7 DEF SameCounts
<1>12. Scaled(k)
  BY <1>3 DEF Scaled
<1> QED BY <1>10, <1>11, <1>12

LEMMA RkAgree ==
  ASSUME LaunchInv, launched # None, op = "rk", NEW k \in Running
  PROVE  Fits(k) /\ SameCounts(k) /\ Scaled(k)
<1> DEFINE c == launched.call
<1>1. PICK a : a = launched.a
  OBVIOUS
<1>2. /\ c \in Calls /\ Lowers(c) /\ a = Attributes(c) /\ a.op = op /\ c.op = op
      /\ program.kernels = Kernels(a, launched.ins, launched.out)
  BY <1>1, LaunchedFacts
<1>3. op \notin RowCopies \cup Eltwise \cup Norms
  BY <1>2, OpNames
<1>4. ~program.kernels.global
  BY <1>3, GlobalFlag
<1>5. /\ n_rb(k) = here(a, k) /\ ctiles(k) = a.n_otc
      /\ rk_grp(k) = w_grp(a) /\ get_arg_val(program.reader[k], 9) = w_resident(a, k)
      /\ get_arg_val(program.compute[k], 0) = here(a, k)
      /\ get_arg_val(program.compute[k], 1) = a.n_otc
      /\ \A i \in 3 .. 5 : get_arg_val(program.compute[k], i) = get_arg_val(program.reader[k], i + 4)
  BY <1>1, RkArgs
<1>6. RowOp /\ writer_tiles(k) = here(a, k) * a.n_otc
  BY <1>1, <1>4, RowCounts
<1>7. Read(k) = here(a, k) * a.n_otc
  BY <1>5, <1>6 DEF Read
<1>8. a.n_otc \in Nat \ {0} /\ a.rbs_per_group \in Nat \ {0}
  BY <1>2, GridsPositive
<1>9. /\ program.kernels.pages
           = [x \in DOMAIN a.ins |-> IF op = "rk" /\ x = 3 /\ a.w_bcast /\ a.rbs_per_group > 2
                                     THEN a.rbs_per_group * a.n_otc ELSE 2 * a.n_otc]
      /\ DOMAIN a.ins = Blocks
  <2>1. Pages(a) = [x \in DOMAIN a.ins |-> IF op = "rk" /\ x = 3 /\ a.w_bcast /\ a.rbs_per_group > 2
                                           THEN a.rbs_per_group * a.n_otc ELSE 2 * a.n_otc]
    BY <1>2, <1>3 DEF Pages, IsGlobal, IsRowNorm
  <2> QED BY <1>1, <1>2, <1>3, <2>1, KindsFacts DEF Kernels
<1>10. ASSUME NEW x \in Blocks PROVE program.kernels.pages[x] % AtOnce(k, x) = 0
  <2>1. /\ a.n_otc % a.n_otc = 0 /\ (2 * a.n_otc) % a.n_otc = 0
        /\ (a.rbs_per_group * a.n_otc) % a.n_otc = 0
    BY <1>8, Multiples
  <2>2. CASE x = 3 /\ w_resident(a, k) = 1
    <3>1. a.w_bcast /\ w_grp(a) = a.rbs_per_group
      BY <2>2 DEF w_resident, w_grp
    <3>2. AtOnce(k, x) = a.rbs_per_group * a.n_otc
      BY <1>3, <1>5, <2>2, <3>1 DEF AtOnce
    <3>3. CASE a.rbs_per_group > 2
      <4>1. program.kernels.pages[x] = a.rbs_per_group * a.n_otc
        BY <1>9, <2>2, <3>1, <3>3
      <4>2. PICK g : g = a.rbs_per_group * a.n_otc
        OBVIOUS
      <4>3. g \in Nat \ {0}
        BY <1>8, <4>2
      <4> QED BY <3>2, <4>1, <4>2, <4>3, Multiples
    <3>4. CASE a.rbs_per_group <= 2
      <4>1. program.kernels.pages[x] = 2 * a.n_otc
        BY <1>8, <1>9, <3>4
      <4>2. a.rbs_per_group = 1 \/ a.rbs_per_group = 2
        BY <1>8, <3>4
      <4>3. CASE a.rbs_per_group = 1
        BY <1>8, <2>1, <3>2, <4>1, <4>3
      <4>4. CASE a.rbs_per_group = 2
        <5>1. PICK g : g = 2 * a.n_otc
          OBVIOUS
        <5>2. g \in Nat \ {0}
          BY <1>8, <5>1
        <5> QED BY <3>2, <4>1, <4>4, <5>1, <5>2, Multiples
      <4> QED BY <4>2, <4>3, <4>4
    <3> QED BY <1>8, <3>3, <3>4
  <2>3. CASE ~(x = 3 /\ w_resident(a, k) = 1)
    <3>1. AtOnce(k, x) = a.n_otc
      BY <1>3, <1>5, <1>6, <2>3 DEF AtOnce
    <3>2. program.kernels.pages[x] = 2 * a.n_otc \/ program.kernels.pages[x] = a.rbs_per_group * a.n_otc
      BY <1>9
    <3> QED BY <2>1, <3>1, <3>2
  <2> QED BY <2>2, <2>3
<1>11. Fits(k)
  BY <1>3, <1>10 DEF Fits
<1>12. SameCounts(k)
  BY <1>3, <1>4, <1>5, <1>6, <1>7 DEF SameCounts
<1>13. Scaled(k)
  BY <1>3 DEF Scaled
<1> QED BY <1>11, <1>12, <1>13

LEMMA RealizeAgree ==
  ASSUME LaunchInv, launched # None, op = "realize", NEW k \in Running
  PROVE  Fits(k) /\ SameCounts(k) /\ Scaled(k)
<1> DEFINE c == launched.call
<1>1. PICK a : a = launched.a
  OBVIOUS
<1>2. /\ c \in Calls /\ a = Attributes(c) /\ a.op = op /\ c.op = op
      /\ program.kernels = Kernels(a, launched.ins, launched.out)
  BY <1>1, LaunchedFacts
<1>3. op \notin RowCopies \cup Eltwise \cup Norms
  BY <1>2, OpNames
<1>4. ~program.kernels.global /\ ~RowOp
  BY <1>3, GlobalFlag DEF RowOp
<1>5. Read(k) = Count(a, k)
  BY <1>1, <1>4, RealizeArgs DEF Read
<1>6. writer_tiles(k) = Count(a, k)
  BY <1>1, <1>3, WriterLayout
<1>7. program.kernels.pages = <<4>> /\ Blocks = 1 .. 1
  <2>1. Pages(a) = <<4>>
    BY <1>2, <1>3 DEF Pages, IsGlobal, IsRowNorm
  <2>2. Blocks = 1 .. Walked(c) /\ Walked(c) = 1
    BY <1>2, <1>3, KindsFacts, Arity DEF Views, Walked
  <2> QED BY <1>2, <2>1, <2>2 DEF Kernels
<1>8. Fits(k)
  <2>1. \A x \in Blocks : AtOnce(k, x) = 1
    BY <1>3, <1>4 DEF AtOnce
  <2>2. \A x \in Blocks : program.kernels.pages[x] = 4
    BY <1>7
  <2> QED BY <1>3, <2>1, <2>2 DEF Fits
<1>9. SameCounts(k)
  BY <1>3, <1>4, <1>5, <1>6 DEF SameCounts
<1>10. Scaled(k)
  BY <1>3 DEF Scaled
<1> QED BY <1>8, <1>9, <1>10

\* On every core the reader, the compute kernel and the writer of a launch
\* were packed the same amount of work and the same grouping, and what a
\* reader reserves at once divides the buffer the factory made for it, for any
\* shapes, any number of cores and whatever the cache held before.
THEOREM LaunchesAgree == Spec => []KernelsAgree
<1>1. ASSUME CacheInv PROVE KernelsAgree
  <2> SUFFICES ASSUME launched # None, NEW k \in Running
               PROVE  Fits(k) /\ (op \notin RowCopies => SameCounts(k) /\ Scaled(k))
    BY DEF KernelsAgree
  <2>1. LaunchInv
    BY <1>1 DEF CacheInv
  <2>2. CASE op \in RowCopies
    <3>1. program.kernels.pages[1] = IO_DEPTH /\ get_arg_val(program.reader[k], 4) = K
      BY <2>1, <2>2, RowCopyArgs
    <3>2. Fits(k)
      BY <2>2, <3>1, RingAssumption DEF Fits
    <3> QED BY <2>2, <3>2
  <2>3. CASE op \notin RowCopies
    <3>1. op \in Eltwise \cup Norms \cup {"realize", "mul_l2_norm", "rk"}
      BY <2>1, <2>3, LaunchedFacts, OpNames
    <3> QED BY <2>1, <3>1, EltwiseAgree, RowNormAgree, GlobalNormAgree, MulL2Agree, RkAgree, RealizeAgree
  <2> QED BY <2>2, <2>3
<1> QED BY <1>1, CacheInit, CacheStep, PTL DEF Spec

-----------------------------------------------------------------------------
(***************************************************************************)
(* The cores' shares of the work.                                          *)
(***************************************************************************)
Parts(a) ==
  units(a) \in Nat /\ per_unit(a) \in Nat \ {0} /\ work_tiles(a) = units(a) * per_unit(a)

LEMMA UnitShares ==
  ASSUME NEW a, Parts(a), NEW k \in Cores
  PROVE  /\ here(a, k) \in Nat /\ done(a, k) \in Nat /\ done(a, k) + here(a, k) <= units(a)
         /\ \A j \in Cores : k < j => done(a, k) + here(a, k) <= done(a, j)
         /\ \A u \in 0 .. units(a) - 1 :
              \E j \in Cores : done(a, j) <= u /\ u < done(a, j) + here(a, j)
<1> DEFINE U == units(a)
<1>1. U \in Nat /\ NumCores \in Nat \ {0} /\ Cores = 0 .. NumCores - 1
  BY CacheAssumption DEF Parts, Cores
<1>2. \A j : here(a, j) = EvenShare(U, NumCores, j) /\ done(a, j) = EvenBefore(U, NumCores, j)
  BY DEF here, done, EvenShare, EvenBefore
<1> HIDE DEF U
<1>3. /\ EvenShare(U, NumCores, k) \in Nat /\ EvenBefore(U, NumCores, k) \in Nat
      /\ EvenBefore(U, NumCores, k) + EvenShare(U, NumCores, k) <= U
      /\ \A j \in k + 1 .. NumCores - 1 :
           EvenBefore(U, NumCores, k) + EvenShare(U, NumCores, k) <= EvenBefore(U, NumCores, j)
  BY <1>1, EvenFacts
<1>4. ASSUME NEW j \in Cores, k < j PROVE done(a, k) + here(a, k) <= done(a, j)
  <2>1. j \in k + 1 .. NumCores - 1
    BY <1>1, <1>4
  <2> QED BY <1>2, <1>3, <2>1
<1>5. ASSUME NEW u \in 0 .. U - 1
      PROVE  \E j \in Cores : done(a, j) <= u /\ u < done(a, j) + here(a, j)
  <2>1. PICK j \in 0 .. NumCores - 1 :
          /\ EvenBefore(U, NumCores, j) <= u
          /\ u < EvenBefore(U, NumCores, j) + EvenShare(U, NumCores, j)
    BY <1>1, EvenCover
  <2> QED BY <1>1, <1>2, <2>1
<1> QED BY <1>2, <1>3, <1>4, <1>5 DEF U

\* A core's tiles follow each other, its shares do not overlap, and every tile
\* is some core's.
LEMMA CoreTiles ==
  ASSUME NEW a, Parts(a)
  PROVE  /\ \A k \in Cores : /\ First(a, k) \in Nat /\ Count(a, k) \in Nat
                             /\ First(a, k) + Count(a, k) <= work_tiles(a)
         /\ \A j, k \in Cores : \A x \in 0 .. Count(a, j) - 1, y \in 0 .. Count(a, k) - 1 :
              First(a, j) + x = First(a, k) + y => j = k /\ x = y
         /\ \A t \in 0 .. work_tiles(a) - 1 :
              \E k \in AllCores(a) : \E n \in 0 .. Count(a, k) - 1 : t = First(a, k) + n
<1> DEFINE p == per_unit(a)
           U == units(a)
           d(k) == done(a, k)
           h(k) == here(a, k)
<1>1. U \in Nat /\ p \in Nat \ {0} /\ work_tiles(a) = U * p /\ Cores \subseteq Int
  BY CacheAssumption DEF Parts, Cores
<1>2. \A k : First(a, k) = d(k) * p /\ Count(a, k) = h(k) * p
  BY DEF First, Count
<1>3. \A k \in Cores : /\ h(k) \in Nat /\ d(k) \in Nat /\ d(k) + h(k) <= U
                       /\ \A j \in Cores : k < j => d(k) + h(k) <= d(j)
  BY UnitShares
<1>4. ASSUME NEW t \in 0 .. U - 1
      PROVE  \E j \in Cores : d(j) <= t /\ t < d(j) + h(j)
  <2>1. 0 \in Cores
    BY CacheAssumption DEF Cores
  <2> QED BY <2>1, UnitShares
<1> HIDE DEF p, U, d, h
<1>5. \A k \in Cores : /\ d(k) * p \in Nat /\ h(k) * p \in Nat /\ U * p \in Nat
                       /\ (d(k) + h(k)) * p = d(k) * p + h(k) * p
  BY <1>1, <1>3, ProductNat
<1>6. ASSUME NEW x \in Int, NEW y \in Int, x <= y PROVE x * p <= y * p
  <2>1. (y - x) * p >= 0 /\ (y - x) * p = y * p - x * p /\ x * p \in Int /\ y * p \in Int
    BY <1>1, <1>6, ProductNat, y - x \in Nat
  <2> QED BY <2>1
<1>7. \A k \in Cores : d(k) * p + h(k) * p <= U * p
  <2> TAKE k \in Cores
  <2>1. d(k) + h(k) \in Int /\ d(k) + h(k) <= U
    BY <1>3
  <2>2. (d(k) + h(k)) * p <= U * p
    BY <1>1, <1>6, <2>1
  <2> QED BY <1>5, <2>2
<1>8. \A j, k \in Cores : j < k => d(j) * p + h(j) * p <= d(k) * p
  <2> SUFFICES ASSUME NEW j \in Cores, NEW k \in Cores, j < k
               PROVE  d(j) * p + h(j) * p <= d(k) * p
    OBVIOUS
  <2>1. d(j) + h(j) \in Int /\ d(k) \in Int /\ d(j) + h(j) <= d(k)
    BY <1>3
  <2>2. (d(j) + h(j)) * p <= d(k) * p
    BY <1>6, <2>1
  <2> QED BY <1>5, <2>2
<1>9. ASSUME NEW j \in Cores, NEW k \in Cores,
             NEW x \in 0 .. h(j) * p - 1, NEW y \in 0 .. h(k) * p - 1,
             d(j) * p + x = d(k) * p + y
      PROVE  j = k /\ x = y
  <2> DEFINE A == d(j) * p
             B == h(j) * p
             C == d(k) * p
             D == h(k) * p
  <2>1. /\ A \in Nat /\ B \in Nat /\ C \in Nat /\ D \in Nat /\ j \in Int /\ k \in Int
        /\ x \in Int /\ 0 <= x /\ x < B /\ y \in Int /\ 0 <= y /\ y < D /\ A + x = C + y
        /\ j < k => A + B <= C
        /\ k < j => C + D <= A
    BY <1>1, <1>5, <1>8, <1>9
  <2>2. j = k => A = C
    OBVIOUS
  <2> HIDE DEF A, B, C, D
  <2> QED BY <2>1, <2>2
<1>10. ASSUME NEW t \in 0 .. U * p - 1
       PROVE  \E k \in AllCores(a) : \E n \in 0 .. h(k) * p - 1 : t = d(k) * p + n
  <2>1. t \in Nat /\ t < U * p
    BY <1>1, <1>10
  <2> DEFINE q == t \div p
             r == t % p
  <2>2. q \in Nat /\ t = q * p + r /\ r \in 0 .. p - 1
    BY <1>1, <2>1, DivModNat
  <2>3. q < U
    BY <1>1, <2>1, QuotientBound
  <2> HIDE DEF q, r
  <2>4. PICK k \in Cores : d(k) <= q /\ q < d(k) + h(k)
    BY <1>1, <1>4, <2>2, <2>3
  <2>5. d(k) \in Nat /\ h(k) \in Nat
    BY <1>3
  <2>6. (q - d(k)) * p \in Int /\ (q - d(k)) * p >= 0 /\ q - d(k) \in Nat
    BY <1>1, <2>2, <2>4, <2>5, ProductNat
  <2>7. (q - d(k)) * p = q * p - d(k) * p /\ q * p \in Int /\ d(k) * p \in Int
    BY <1>1, <2>2, <2>5
  <2>8. (q - d(k) + 1) * p <= h(k) * p
    BY <1>6, <2>2, <2>4, <2>5
  <2>9. (q - d(k) + 1) * p = (q - d(k)) * p + p
    BY <1>1, <2>2, <2>5
  <2>10. k \in AllCores(a)
    BY <2>2, <2>4, <2>5 DEF AllCores, h
  <2> DEFINE n == (q - d(k)) * p + r
  <2>11. n \in 0 .. h(k) * p - 1 /\ t = d(k) * p + n
    BY <1>1, <1>5, <2>2, <2>6, <2>7, <2>8, <2>9
  <2> QED BY <2>10, <2>11
<1>11. \A k \in Cores : First(a, k) \in Nat /\ Count(a, k) \in Nat
                          /\ First(a, k) + Count(a, k) <= work_tiles(a)
  BY <1>1, <1>2, <1>5, <1>7
<1> QED BY <1>1, <1>2, <1>9, <1>10, <1>11

-----------------------------------------------------------------------------
(***************************************************************************)
(* Indexed copies move every page of the rows meant, once.                 *)
(***************************************************************************)
LEMMA PaddedFacts ==
  ASSUME NEW x \in Nat \ {0}
  PROVE  /\ TilesAcross(x) \in Nat \ {0} /\ padded(x) \in Nat \ {0} /\ x <= padded(x)
         /\ padded(x) % TILE = 0 /\ padded(x) \div TILE = TilesAcross(x)
         /\ x % TILE = 0 => padded(x) = x
<1> DEFINE q == TilesAcross(x)
<1>1. q \in Nat \ {0} /\ TILE \in Nat \ {0}
  BY AcrossPositive, TileAssumption
<1>2. /\ (x + TILE - 1) % TILE \in 0 .. TILE - 1
      /\ x + TILE - 1 = (q * TILE) + ((x + TILE - 1) % TILE)
  BY <1>1, DivModFloor DEF TilesAcross
<1>3. padded(x) = q * TILE
  BY DEF padded
<1>4. x <= q * TILE /\ q * TILE \in Nat \ {0}
  <2> HIDE DEF q
  <2>1. q * TILE \in Int
    BY <1>1
  <2> QED BY <1>1, <1>2, <2>1
<1>5. (q * TILE) % TILE = 0 /\ (q * TILE) \div TILE = q
  <2> HIDE DEF q
  <2> DEFINE m == q * TILE
  <2>1. m \in Int /\ m = q * TILE + 0
    BY <1>1
  <2> HIDE DEF m
  <2>2. q = m \div TILE /\ 0 = m % TILE
    BY <1>1, <2>1, DivModUnique
  <2> QED BY <2>2 DEF m
<1>6. ASSUME x % TILE = 0 PROVE q * TILE = x
  <2> DEFINE p == x \div TILE
  <2>1. p \in Int /\ x = p * TILE
    BY <1>1, <1>6, DivModFloor
  <2> HIDE DEF p
  <2>2. x + TILE - 1 = p * TILE + (TILE - 1)
    BY <1>1, <2>1
  <2>3. p = q
    BY <1>1, <2>1, <2>2, DivModUnique DEF TilesAcross
  <2> QED BY <2>1, <2>3
<1> QED BY <1>1, <1>3, <1>4, <1>5, <1>6

\* The pages of an indexed tensor are shared evenly among its rows.
LEMMA IndexedFacts ==
  ASSUME NEW c \in Calls, c.op \in RowCopies, Lowers(c)
  PROVE  LET v == Indexed(c)
             T == tiles_per_row(v)
         IN  /\ T \in Nat \ {0} /\ T = num_pages(v) \div v.rows /\ v.rows \in Nat \ {0}
             /\ v.rows * T = num_pages(v)
             /\ RowsMoved(c) \in Nat \ {0} /\ InTensor(v)
<1>1. PICK v : v = Indexed(c)
  OBVIOUS
<1>2. InTensor(v) /\ NonEmpty(v.desc)
  <2>1. CASE c.op = "get_rows"
    <3>1. 1 \in DOMAIN c.views
      BY Arity
    <3> QED BY <1>1, <2>1, <3>1, ViewsAssumption, OperandsAssumption DEF Indexed, Calls
  <2>2. CASE c.op = "set_rows"
    BY <1>1, <2>2, ViewsAssumption, OperandsAssumption DEF Indexed, Calls
  <2> QED BY <2>1, <2>2 DEF RowCopies
<1>3. tiles_per_row(v) # 0
  <2>1. c.op \in {"get_rows", "set_rows"}
    BY DEF RowCopies
  <2>2. c.op \notin Eltwise \cup Norms \cup {"realize", "mul_l2_norm", "rk"}
    BY OpNames
  <2>3. c.op = "get_rows" => GetRowsLowers(c)
    BY <2>2 DEF Lowers
  <2>4. c.op = "set_rows" => SetRowsLowers(c)
    BY <2>2 DEF Lowers
  <2> QED BY <1>1, <2>1, <2>3, <2>4 DEF GetRowsLowers, SetRowsLowers
<1>4. num_pages(v) \in Nat /\ v.rows \in Nat \ {0}
  <2>1. v.prows \in Nat /\ v.rows \in Nat \ {0} /\ v.cols \in Nat \ {0} /\ v.desc.Cs = padded(v.cols)
    BY <1>2 DEF InTensor
  <2>2. v.prows \div TILE \in Nat
    BY <2>1, TileAssumption, QuotientNat
  <2>3. nct(v.desc) \in Nat
    BY <2>1, PaddedFacts DEF nct
  <2> QED BY <2>1, <2>2, <2>3, ProductNat DEF num_pages
<1> DEFINE n == num_pages(v)
           r == v.rows
           q == n \div r
<1>5. q \in Nat /\ n = q * r + (n % r)
  BY <1>4, DivModNat
<1>6. n % r = 0 /\ tiles_per_row(v) = q
  BY <1>3 DEF tiles_per_row
<1> HIDE DEF n, r, q
<1>7. q \in Nat \ {0} /\ r * q = n
  BY <1>3, <1>4, <1>5, <1>6 DEF n, r
<1>8. RowsMoved(c) \in Nat \ {0}
  <2>1. 2 \in DOMAIN c.views
    BY Arity
  <2>2. InTensor(c.views[2])
    BY <2>1, ViewsAssumption DEF Calls
  <2> QED BY <2>2 DEF RowsMoved, volume, InTensor
<1> QED BY <1>1, <1>2, <1>4, <1>6, <1>7, <1>8 DEF n, r, q

LEMMA CopiesDeliver ==
  ASSUME LaunchInv, launched # None, op \in RowCopies
  PROVE  Copied = MeantCopies
<1> DEFINE c == launched.call
           a == launched.a
           T == tiles_per_row(Indexed(c))
           M == RowsMoved(c)
           W == work_tiles(a)
           ia == IF op = "get_rows" THEN launched.ins[1].addr ELSE launched.out.addr
           oa == IF op = "get_rows" THEN launched.out.addr ELSE launched.ins[1].addr
           side == [acc |-> ia, T |-> T, idx |-> launched.ins[2].addr,
                    idx_pages |-> num_pages(c.views[2]), rows |-> Indexed(c).rows]
<1>1. /\ c \in Calls /\ Lowers(c) /\ a = Attributes(c) /\ a.op = c.op /\ op = c.op
      /\ Running = AllCores(a)
  BY LaunchedFacts
<1>2. a = RowCopyAttributes(c)
  BY <1>1, OpNames DEF Attributes
<1>3. /\ a.T = T /\ a.work_tiles = M * T /\ a.idx_pages = num_pages(c.views[2])
      /\ a.n_idx_rows = Indexed(c).rows
  BY <1>2 DEF RowCopyAttributes
<1>4. T \in Nat \ {0} /\ T = num_pages(Indexed(c)) \div Indexed(c).rows /\ M \in Nat \ {0}
  BY <1>1, IndexedFacts
<1>5. W = M * T
  BY <1>1, <1>3 DEF work_tiles
<1>6. ASSUME NEW k \in Running
      PROVE  LET l == program.reader[k]
                 w == program.writer[k]
             IN  /\ IndexedSide(IF op = "get_rows" THEN l ELSE w) = side
                 /\ get_arg_val(IF op = "get_rows" THEN w ELSE l, 0) = oa
                 /\ Ordinals(l) = {First(a, k) + n : n \in 0 .. Count(a, k) - 1}
                 /\ Ordinals(w) = {First(a, k) + n : n \in 0 .. Count(a, k) - 1}
  <2>1. PICK A, ins, out : A = a /\ ins = launched.ins /\ out = launched.out
    OBVIOUS
  <2>2. /\ program.reader[k] = index_args(A, k, ins[1].addr, gather(A), ins[2].addr)
        /\ program.writer[k] = index_args(A, k, out.addr, ~gather(A), ins[2].addr)
    <3>1. program.reader[k] = ReaderList(A, ins, k) /\ program.writer[k] = WriterList(A, ins, out, k)
      BY <1>1, <2>1, LaunchedFacts
    <3> QED BY <1>1, <2>1, <3>1 DEF ReaderList, WriterList
  <2>3. gather(A) <=> op = "get_rows"
    BY <1>1, <2>1 DEF gather
  <2> DEFINE x(addr, b) == index_args(A, k, addr, b, ins[2].addr)
  <2>4. \A addr : IndexedSide(x(addr, TRUE)) = [acc |-> addr, T |-> A.T, idx |-> ins[2].addr,
                    idx_pages |-> A.idx_pages, rows |-> A.n_idx_rows]
    BY DEF IndexedSide, index_args, get_arg_val
  <2>5. \A addr : \A b \in BOOLEAN :
          /\ get_arg_val(x(addr, b), 0) = addr
          /\ get_arg_val(x(addr, b), 1) = Count(A, k) /\ get_arg_val(x(addr, b), 2) = First(A, k)
    BY DEF index_args, get_arg_val
  <2>6. \A addr : \A b \in BOOLEAN :
          Ordinals(x(addr, b)) = {First(A, k) + n : n \in 0 .. Count(A, k) - 1}
    BY <2>5 DEF Ordinals
  <2> HIDE DEF x
  <2>7. program.reader[k] = x(ins[1].addr, gather(A)) /\ program.writer[k] = x(out.addr, ~gather(A))
    BY <2>2 DEF x
  <2>8. gather(A) \in BOOLEAN
    BY DEF gather
  <2>9. CASE op = "get_rows"
    <3>1. program.reader[k] = x(ins[1].addr, TRUE) /\ program.writer[k] = x(out.addr, FALSE)
      BY <2>3, <2>7, <2>8, <2>9
    <3> QED BY <1>3, <2>1, <2>4, <2>5, <2>6, <2>9, <3>1
  <2>10. CASE op # "get_rows"
    <3>1. program.reader[k] = x(ins[1].addr, FALSE) /\ program.writer[k] = x(out.addr, TRUE)
      BY <2>3, <2>7, <2>8, <2>10
    <3> QED BY <1>3, <2>1, <2>4, <2>5, <2>6, <2>10, <3>1
  <2> QED BY <2>9, <2>10
<1> HIDE DEF side, ia, oa
<1> DEFINE Page(t) == [side |-> side, at |-> <<t \div T, t % T>>, other |-> oa, page |-> t]
           Of(k) == {First(a, k) + n : n \in 0 .. Count(a, k) - 1}
<1>7. Copied = UNION {{Page(t) : t \in Of(k)} : k \in Running}
  <2> DEFINE L(k) == program.reader[k]
             R(k) == program.writer[k]
             S(k) == IndexedSide(IF op = "get_rows" THEN L(k) ELSE R(k))
             O(k) == IF op = "get_rows" THEN R(k) ELSE L(k)
             G(k) == {[side |-> S(k), at |-> <<o \div S(k).T, o % S(k).T>>,
                       other |-> get_arg_val(O(k), 0), page |-> o] :
                        o \in Ordinals(L(k)) \cap Ordinals(R(k))}
  <2>1. Copied = UNION {G(k) : k \in Running}
    BY DEF Copied
  <2>2. ASSUME NEW k \in Running PROVE G(k) = {Page(t) : t \in Of(k)}
    <3>1. S(k) = side /\ get_arg_val(O(k), 0) = oa /\ Ordinals(L(k)) \cap Ordinals(R(k)) = Of(k)
      BY <1>6
    <3>2. side.T = T
      BY DEF side
    <3> HIDE DEF S, O, L, R, Of, T
    <3> QED BY <3>1, <3>2
  <2> HIDE DEF G, Page, Of
  <2> QED BY <2>1, <2>2
<1>8. MeantCopies = {Page(m * T + p) : m \in 0 .. M - 1, p \in 0 .. T - 1}
  <2> DEFINE G(m, p) == [side |-> side, at |-> <<m, p>>, other |-> oa, page |-> m * T + p]
  <2>1. MeantCopies = {G(m, p) : m \in 0 .. M - 1, p \in 0 .. T - 1}
    BY <1>4 DEF MeantCopies, call, side, ia, oa
  <2>2. ASSUME NEW m \in 0 .. M - 1, NEW p \in 0 .. T - 1
        PROVE  G(m, p) = Page(m * T + p)
    <3> HIDE DEF T, M
    <3>1. PICK t : t = m * T + p
      OBVIOUS
    <3>2. t \in Int /\ m \in Int /\ p \in Int /\ 0 <= p /\ p < T
      BY <1>4, <3>1
    <3>3. m = t \div T /\ p = t % T
      BY <1>4, <3>1, <3>2, DivModUnique
    <3> QED BY <3>1, <3>3
  <2> HIDE DEF G, Page, T, M
  <2> QED BY <2>1, <2>2
<1> HIDE DEF T, M, W, a, c, Page
<1>9. Parts(a)
  <2>1. per_unit(a) = 1 /\ units(a) = W \div 1
    <3>1. a.op \in RowCopies /\ a.op \notin Norms /\ a.op \notin Eltwise /\ a.op \notin {"mul_l2_norm", "rk"}
      BY <1>1, OpNames DEF Eltwise, c
    <3>2. per_unit(a) = 1
      BY <3>1 DEF per_unit, IsGlobal, IsRowOp, HasGroup
    <3> QED BY <3>2 DEF units, W
  <2>2. W \in Nat /\ W = W * 1 + 0
    BY <1>4, <1>5
  <2>3. W \div 1 = W
    BY <2>2, DivModUnique
  <2> QED BY <2>1, <2>2, <2>3 DEF Parts, W
<1>10. /\ \A k \in AllCores(a) : Of(k) \subseteq 0 .. W - 1
       /\ \A t \in 0 .. W - 1 : \E k \in AllCores(a) : t \in Of(k)
  <2>1. \A k \in Cores : /\ First(a, k) \in Nat /\ Count(a, k) \in Nat
                         /\ First(a, k) + Count(a, k) <= W
    BY <1>9, CoreTiles DEF W
  <2>2. \A t \in 0 .. W - 1 :
          \E k \in AllCores(a) : \E n \in 0 .. Count(a, k) - 1 : t = First(a, k) + n
    BY <1>9, CoreTiles DEF W
  <2>3. ASSUME NEW k \in AllCores(a) PROVE Of(k) \subseteq 0 .. W - 1
    <3>1. k \in Cores
      BY DEF AllCores
    <3>2. \A n \in 0 .. Count(a, k) - 1 : First(a, k) + n \in 0 .. W - 1
      BY <1>4, <1>5, <2>1, <3>1
    <3> QED BY <3>2
  <2> QED BY <2>2, <2>3
<1> HIDE DEF Of
<1>11. Copied = {Page(t) : t \in 0 .. W - 1}
  BY <1>1, <1>7, <1>10
<1>12. MeantCopies = {Page(t) : t \in 0 .. W - 1}
  <2>1. ASSUME NEW m \in 0 .. M - 1, NEW p \in 0 .. T - 1 PROVE m * T + p \in 0 .. W - 1
    <3>1. (M - 1 - m) * T >= 0 /\ m * T >= 0 /\ m * T \in Int
      BY <1>4, ProductNat, M - 1 - m \in Nat
    <3>2. (M - 1 - m) * T = M * T - T - m * T /\ M * T \in Int
      BY <1>4
    <3> QED BY <1>4, <1>5, <3>1, <3>2
  <2>2. ASSUME NEW t \in 0 .. W - 1
        PROVE  \E m \in 0 .. M - 1, p \in 0 .. T - 1 : t = m * T + p
    <3>1. t \in Nat /\ t < M * T /\ M \in Nat
      BY <1>4, <1>5
    <3>2. t \div T \in Nat /\ t = (t \div T) * T + (t % T) /\ t % T \in 0 .. T - 1
      BY <1>4, <3>1, DivModNat
    <3>3. t \div T < M
      BY <1>4, <3>1, QuotientBound
    <3>4. t \div T \in 0 .. M - 1
      BY <3>1, <3>2, <3>3
    <3> QED BY <3>2, <3>4
  <2> QED BY <1>8, <2>1, <2>2
<1> QED BY <1>11, <1>12

-----------------------------------------------------------------------------
\* The tensors a launch is given.
LEMMA LaunchedTensors ==
  ASSUME LaunchInv, launched # None
  PROVE  LET c == launched.call
         IN  /\ \A i \in DOMAIN launched.ins :
                  /\ launched.ins[i].addr \in Nat
                  /\ launched.ins[i].spec = spec(c.views[tensor_arg(c, i)])
             /\ launched.out.addr \in Nat
             /\ launched.out.spec = IF IsBound(c) THEN spec(c.out) ELSE compute_output_specs(launched.a)
<1>1. PICK c \in Calls, base \in Bases : \E dst \in {base, base + 1} : Launched(c, base, dst)
  BY DEF LaunchInv
<1>2. PICK dst \in {base, base + 1} : Launched(c, base, dst)
  BY <1>1
<1>3. base \in Nat /\ dst \in Nat
  BY CacheAssumption
<1>4. /\ launched.call = c /\ launched.ins = tensor_args(c, base) /\ launched.a = Attributes(c)
      /\ launched.out = resolve_output(c, launched.a, dst)
  BY <1>2 DEF Launched, Ins, OutOf
<1>6. ASSUME NEW i \in DOMAIN launched.ins
      PROVE  /\ launched.ins[i].addr \in Nat
             /\ launched.ins[i].spec = spec(c.views[tensor_arg(c, i)])
  <2>1. i \in 1 .. (IF c.op \in Norms THEN 3 ELSE Len(c.views))
    BY <1>4 DEF tensor_args
  <2>2. i \in Nat
    BY <1>1, <2>1, Arity
  <2>3. tensor_arg(c, i) \in Nat
    BY <2>2 DEF tensor_arg
  <2>4. launched.ins[i] = [addr |-> base + tensor_arg(c, i), spec |-> spec(c.views[tensor_arg(c, i)])]
    BY <1>4, <2>1 DEF tensor_args
  <2> QED BY <1>3, <2>3, <2>4
<1> QED BY <1>3, <1>4, <1>6 DEF resolve_output

\* Every page an indexed copy moves is a page of either tensor.
LEMMA CopiesInside ==
  ASSUME LaunchInv, launched # None, op \in RowCopies
  PROVE  StaysInside
<1> DEFINE c == launched.call
           v == Indexed(c)
           T == num_pages(v) \div v.rows
           M == RowsMoved(c)
<1>1. /\ c \in Calls /\ Lowers(c) /\ launched.a = Attributes(c) /\ launched.a.op = c.op /\ op = c.op
      /\ DOMAIN launched.ins = 1 .. 2
  <2>1. Len(launched.call.views) = 2 /\ op \notin Norms
    BY LaunchedFacts, Arity, OpNames
  <2> QED BY <2>1, LaunchedFacts
<1>2. /\ T \in Nat \ {0} /\ T = tiles_per_row(v) /\ v.rows * T = num_pages(v) /\ M \in Nat \ {0}
      /\ InTensor(v)
  BY <1>1, IndexedFacts
<1>3. \A t : t.spec = spec(v) => PagesOf(t) = num_pages(v)
  BY DEF PagesOf, num_pages, spec, nct
<1>4. \A s \in Copied : s.page < M * T /\ s.side.rows * s.side.T = num_pages(v)
  <2> SUFFICES ASSUME NEW s \in MeantCopies
               PROVE  s.page < M * T /\ s.side.rows * s.side.T = num_pages(v)
    BY CopiesDeliver
  <2>1. PICK m \in 0 .. M - 1, p \in 0 .. T - 1 :
          s.page = m * T + p /\ s.side.rows = v.rows /\ s.side.T = T
    BY DEF MeantCopies, call
  <2> HIDE DEF T, M, v
  <2>2. (M - 1 - m) * T >= 0 /\ m * T \in Int
    BY <1>2, ProductNat, M - 1 - m \in Nat
  <2>3. (M - 1 - m) * T = M * T - T - m * T /\ M * T \in Int
    BY <1>2
  <2> QED BY <1>2, <2>1, <2>2, <2>3
<1>5. CASE op = "get_rows"
  <2>1. v = c.views[1] /\ tensor_arg(c, 1) = 1 /\ c.out = NoOut
    BY <1>1, <1>5, ViewsAssumption DEF Indexed, tensor_arg, Calls
  <2>2. PagesOf(launched.ins[1]) = num_pages(v)
    BY <1>1, <1>3, <2>1, LaunchedTensors
  <2>3. launched.out.spec = [spec(blocks(M, v.cols)) EXCEPT !.mem = launched.a.mem]
    <3>1. launched.out.spec = compute_output_specs(launched.a)
      BY <2>1, LaunchedTensors DEF IsBound
    <3>2. launched.a.op = "get_rows" /\ launched.a.out_rows = M /\ launched.a.out_cols = v.cols
      BY <1>1, <1>5, OpNames DEF Attributes, RowCopyAttributes, RowCopies
    <3> QED BY <3>1, <3>2 DEF compute_output_specs
  <2>4. launched.out.spec.prows = M * TILE /\ launched.out.spec.Cs = padded(v.cols)
    BY <2>3 DEF spec, blocks, view, dense, linear
  <2> DEFINE w == TilesAcross(v.cols)
  <2>5. v.cols \in Nat \ {0} /\ w \in Nat \ {0} /\ padded(v.cols) \div TILE = w
    BY <1>2, PaddedFacts DEF InTensor
  <2>6. PagesOf(launched.out) = M * w
    <3>1. (M * TILE) \div TILE = M
      <4> HIDE DEF M
      <4>1. PICK x : x = M * TILE
        OBVIOUS
      <4>2. x \in Int /\ x = M * TILE + 0 /\ TILE \in Nat \ {0} /\ M \in Int
        BY <1>2, <4>1, TileAssumption
      <4>3. M = x \div TILE
        BY <4>2, DivModUnique
      <4> QED BY <4>1, <4>3
    <3> QED BY <2>4, <2>5, <3>1 DEF PagesOf
  <2>7. T <= w
    <3> DEFINE h == v.prows \div TILE
               r == v.rows
    <3>1. r \in Nat \ {0} /\ v.prows \in Nat /\ v.prows % TILE = 0 /\ v.prows <= r * TILE
      BY <1>2 DEF InTensor
    <3>2. h \in Nat /\ v.prows = h * TILE
      <4>1. h \in Nat /\ v.prows = h * TILE + (v.prows % TILE)
        BY <3>1, TileAssumption, DivModNat
      <4> HIDE DEF h
      <4> QED BY <3>1, <4>1, TileAssumption
    <3>3. num_pages(v) = h * w
      BY <1>2, <2>5 DEF num_pages, nct, InTensor
    <3>4. r * T = h * w
      BY <1>2, <3>3
    <3> HIDE DEF h, r, w, T
    <3>5. h <= r
      <4> SUFFICES ASSUME h > r PROVE FALSE
        BY <3>1, <3>2
      <4>1. (h - r - 1) * TILE >= 0 /\ (h - r - 1) * TILE = h * TILE - r * TILE - TILE
        BY <3>1, <3>2, TileAssumption, ProductNat, h - r - 1 \in Nat
      <4> QED BY <3>1, <3>2, <4>1, TileAssumption
    <3> SUFFICES ASSUME T > w PROVE FALSE
      BY <1>2, <2>5
    <3>6. (T - w - 1) * r >= 0 /\ (T - w - 1) * r = r * T - w * r - r
      BY <1>2, <2>5, <3>1, ProductNat, T - w - 1 \in Nat
    <3>7. (r - h) * w >= 0 /\ (r - h) * w = w * r - h * w
      BY <2>5, <3>1, <3>2, <3>5, ProductNat, r - h \in Nat
    <3>8. r * T \in Int /\ w * r \in Int /\ h * w \in Int
      BY <1>2, <2>5, <3>1, <3>2
    <3> QED BY <3>1, <3>4, <3>6, <3>7, <3>8
  <2>8. M * T <= M * w
    <3> HIDE DEF M, T, w
    <3>1. (w - T) * M >= 0 /\ (w - T) * M = M * w - M * T /\ M * w \in Int /\ M * T \in Int
      BY <1>2, <2>5, <2>7, ProductNat, w - T \in Nat
    <3> QED BY <3>1
  <2>9. \A s \in Copied : s.page \in Int
    <3>1. \A s \in MeantCopies : \E m \in 0 .. M - 1, p \in 0 .. T - 1 : s.page = m * T + p
      BY DEF MeantCopies, call
    <3> HIDE DEF M, T
    <3> QED BY <1>2, <3>1, CopiesDeliver
  <2>10. \A s \in Copied : s.page < PagesOf(launched.out) /\ s.side.rows * s.side.T <= PagesOf(launched.ins[1])
    <3>1. num_pages(v) \in Int
      <4> HIDE DEF T, v
      <4>1. v.rows \in Int
        BY <1>2 DEF InTensor
      <4> QED BY <1>2, <4>1
    <3>2. M * T \in Int /\ M * w \in Int
      <4> HIDE DEF M, T, w
      <4> QED BY <1>2, <2>5
    <3> HIDE DEF M, T, w, v
    <3> QED BY <1>4, <2>2, <2>6, <2>8, <2>9, <3>1, <3>2
  <2> QED BY <1>1, <1>5, <2>10 DEF StaysInside, RowCopies
<1>6. CASE op # "get_rows"
  <2>1. op = "set_rows" /\ c.op = "set_rows"
    BY <1>1, <1>6 DEF RowCopies
  <2>2. v = c.out /\ IsBound(c)
    BY <1>1, <2>1, ViewsAssumption DEF Indexed, IsBound, Calls
  <2>3. PagesOf(launched.out) = num_pages(v)
    BY <1>3, <2>2, LaunchedTensors
  <2>4. tensor_arg(c, 1) = 1
    BY DEF tensor_arg
  <2>5. PagesOf(launched.ins[1]) = num_pages(c.views[1])
    BY <1>1, <2>4, LaunchedTensors DEF PagesOf, num_pages, spec, nct
  <2>6. num_pages(c.views[1]) = M * T
    <3>1. c.op \notin Eltwise \cup Norms \cup {"realize", "mul_l2_norm", "rk", "get_rows"}
      BY <1>1, <2>1, OpNames
    <3>2. SetRowsLowers(c)
      BY <1>1, <3>1 DEF Lowers
    <3> QED BY <1>2, <3>2 DEF SetRowsLowers
  <2>7. num_pages(v) \in Int
    <3> HIDE DEF T, v
    <3>1. v.rows \in Int
      BY <1>2 DEF InTensor
    <3> QED BY <1>2, <3>1
  <2>8. \A s \in Copied : s.page < PagesOf(launched.ins[1]) /\ s.side.rows * s.side.T <= PagesOf(launched.out)
    <3> HIDE DEF T, v, M
    <3> QED BY <1>4, <2>3, <2>5, <2>6, <2>7
  <2> QED BY <1>1, <2>1, <2>8 DEF StaysInside, RowCopies
<1> QED BY <1>5, <1>6

-----------------------------------------------------------------------------
(***************************************************************************)
(* A view walked by a map d has, at a cell of its tile u, the element that *)
(* the map gives for the cell's row and column, and zero outside.          *)
(***************************************************************************)
IsMap(d) ==
  /\ NonEmpty(d) /\ d.base \in Nat /\ d.S_row \in Nat
  /\ d.Cs \in Nat \ {0} /\ d.Cs % TILE = 0
  /\ d.P \in Nat /\ (d.P # 0 => d.A \in Nat /\ d.B \in Nat)
TileRow(d, u, i) == (u \div n_otc(d)) * TILE + i
TileCol(d, u, j) == (u % n_otc(d)) * TILE + j
SourceRow(d, R) == IF d.P = 0 THEN R ELSE d.A * (R \div d.P) + d.B * (R % d.P)
MapElement(d, R, C) == d.base + SourceRow(d, R) * d.S_row + C
Inside(d, R, C) == R < d.Ro /\ C < d.Co
Walks(v, d, t0, acc) ==
  /\ v.kind = kind_of(d) /\ v.acc = acc /\ v.t0 = t0
  /\ kind_of(d) # "dense" =>
       /\ v.base = d.base /\ v.S_row = d.S_row /\ v.Cs = d.Cs /\ v.nct = nct(d)
       /\ v.Ro = d.Ro /\ v.Co = d.Co /\ v.n_otc = n_otc(d) /\ v.P = d.P
  /\ kind_of(d) = "grouped" => v.A = d.A /\ v.B = d.B
PageElement(acc, e, S) == InPage(acc, PageNumber(e, S, TILE), (e \div S) % TILE, (e % S) % TILE)

LEMMA CellNat ==
  ASSUME NEW d, IsMap(d), NEW u \in Nat, NEW i \in 0 .. TILE - 1, NEW j \in 0 .. TILE - 1
  PROVE  /\ n_otc(d) \in Nat \ {0} /\ TILE \in Nat \ {0}
         /\ TileRow(d, u, i) \in Nat /\ TileCol(d, u, j) \in Nat
         /\ TileRow(d, u, i) \div TILE = u \div n_otc(d) /\ TileRow(d, u, i) % TILE = i
         /\ TileCol(d, u, j) \div TILE = u % n_otc(d) /\ TileCol(d, u, j) % TILE = j
<1> DEFINE a == n_otc(d)
           q == u \div a
           r == u % a
<1>1. a \in Nat \ {0} /\ TILE \in Nat \ {0}
  BY GridPositive, TileAssumption DEF IsMap
<1> HIDE DEF a
<1>2. q \in Nat /\ r \in Nat
  BY <1>1, QuotientNat
<1> HIDE DEF q, r
<1>3. ASSUME NEW x \in Nat, NEW y \in 0 .. TILE - 1
      PROVE  x * TILE + y \in Nat /\ (x * TILE + y) \div TILE = x /\ (x * TILE + y) % TILE = y
  <2>1. PICK z : z = x * TILE + y
    OBVIOUS
  <2>2. z \in Nat /\ x \in Int /\ y \in Int /\ 0 <= y /\ y < TILE
    <3>1. x * TILE \in Nat
      BY <1>1, ProductNat
    <3> QED BY <1>1, <2>1, <3>1
  <2>3. x = z \div TILE /\ y = z % TILE
    BY <1>1, <2>1, <2>2, DivModUnique
  <2> QED BY <2>1, <2>2, <2>3
<1> QED BY <1>1, <1>2, <1>3 DEF TileRow, TileCol, a, q, r

\* A page of a dense map is a tile of its rows.
LEMMA DenseFetch ==
  ASSUME NEW d, IsMap(d), is_dense_identity(d), NEW acc,
         NEW u \in Nat, NEW i \in 0 .. TILE - 1, NEW j \in 0 .. TILE - 1
  PROVE  LET e == MapElement(d, TileRow(d, u, i), TileCol(d, u, j))
         IN  InPage(acc, u, i, j) = PageElement(acc, e, d.Cs)
<1> DEFINE R == TileRow(d, u, i)
           C == TileCol(d, u, j)
           S == d.Cs
           a == n_otc(d)
           e == MapElement(d, R, C)
<1>1. /\ a \in Nat \ {0} /\ R \in Nat /\ C \in Nat
      /\ R \div TILE = u \div a /\ R % TILE = i /\ C \div TILE = u % a /\ C % TILE = j
  BY CellNat
<1>2. S \in Nat \ {0} /\ S \div TILE = a /\ S = a * TILE
  <2>1. S \in Nat \ {0} /\ S % TILE = 0 /\ S = d.Co
    BY DEF IsMap, is_dense_identity
  <2>2. padded(S) = S /\ padded(S) \div TILE = TilesAcross(S)
    BY <2>1, PaddedFacts
  <2>3. a = TilesAcross(S) /\ padded(S) = TilesAcross(S) * TILE
    BY <2>1 DEF n_otc, padded
  <2> QED BY <2>1, <2>2, <2>3
<1>3. e = R * S + C
  BY <1>1, <1>2 DEF MapElement, SourceRow, is_dense_identity
<1>4. u % a \in 0 .. a - 1 /\ u = (u \div a) * a + (u % a)
  BY <1>1, DivModNat
<1>5. C < S
  <2> DEFINE m == u % a
  <2>1. C = m * TILE + j /\ m \in 0 .. a - 1
    BY <1>4 DEF TileCol
  <2> HIDE DEF m, C, S, a
  <2>2. (a - 1 - m) * TILE >= 0 /\ (a - 1 - m) * TILE = a * TILE - TILE - m * TILE
        /\ a * TILE \in Int /\ m * TILE \in Int
    BY <1>1, <2>1, ProductNat, TileAssumption, a - 1 - m \in Nat
  <2> QED BY <1>2, <2>1, <2>2, TileAssumption
<1> HIDE DEF R, C, S, a, e
<1>6. R = e \div S /\ C = e % S
  <2>1. e \in Int /\ R \in Int /\ C \in Int /\ 0 <= C
    BY <1>1, <1>2, <1>3, R * S \in Int
  <2> QED BY <1>2, <1>3, <1>5, <2>1, DivModUnique
<1>7. PageNumber(e, S, TILE) = u
  BY <1>1, <1>2, <1>4, <1>6 DEF PageNumber
<1>8. InPage(acc, u, i, j) = PageElement(acc, e, S)
  BY <1>1, <1>6, <1>7 DEF PageElement
<1> QED BY <1>8 DEF R, C, S, e

LEMMA SourceRowNat ==
  ASSUME NEW d, IsMap(d), NEW R \in Nat, NEW C \in Nat
  PROVE  SourceRow(d, R) \in Nat /\ MapElement(d, R, C) \in Nat
<1>1. SourceRow(d, R) \in Nat
  <2>1. CASE d.P = 0
    BY <2>1 DEF SourceRow
  <2>2. CASE d.P # 0
    <3>1. d.P \in Nat \ {0} /\ d.A \in Nat /\ d.B \in Nat
      BY <2>2 DEF IsMap
    <3>2. R \div d.P \in Nat /\ R % d.P \in Nat
      <4>1. PICK p \in Nat \ {0} : p = d.P
        BY <3>1
      <4>2. R \div p \in Nat /\ R % p \in 0 .. p - 1
        BY QuotientNat
      <4> QED BY <4>1, <4>2
    <3>3. d.A * (R \div d.P) \in Nat /\ d.B * (R % d.P) \in Nat
      BY <3>1, <3>2, ProductNat
    <3> QED BY <2>2, <3>3 DEF SourceRow
  <2> QED BY <2>1, <2>2
<1> DEFINE s == SourceRow(d, R)
<1>2. s \in Nat
  BY <1>1
<1> HIDE DEF s
<1>3. s * d.S_row \in Nat
  BY <1>2, ProductNat DEF IsMap
<1>4. (d.base + s * d.S_row) + C \in Nat
  BY <1>3 DEF IsMap
<1> QED BY <1>1, <1>4 DEF MapElement, s

LEMMA MapFetch ==
  ASSUME NEW d, IsMap(d), NEW v, NEW t0, NEW acc, Walks(v, d, t0, acc),
         NEW u \in Nat, NEW i \in 0 .. TILE - 1, NEW j \in 0 .. TILE - 1
  PROVE  LET R == TileRow(d, u, i)
             C == TileCol(d, u, j)
         IN  /\ Inside(d, R, C) => Fetch(v, u, i, j) = PageElement(acc, MapElement(d, R, C), d.Cs)
             /\ ~Inside(d, R, C) /\ u < out_tiles(d) => Fetch(v, u, i, j) = Zero
<1> DEFINE R == TileRow(d, u, i)
           C == TileCol(d, u, j)
           a == n_otc(d)
           e == MapElement(d, R, C)
           S == d.Cs
<1>1. /\ a \in Nat \ {0} /\ R \in Nat /\ C \in Nat
      /\ R \div TILE = u \div a /\ R % TILE = i /\ C \div TILE = u % a /\ C % TILE = j
  BY CellNat
<1>2. CASE kind_of(d) = "dense"
  <2>1. is_dense_identity(d)
    BY <1>2 DEF kind_of
  <2>2. Fetch(v, u, i, j) = InPage(acc, u, i, j)
    BY <1>2 DEF Fetch, Walks
  <2>3. Fetch(v, u, i, j) = PageElement(acc, e, S)
    BY <2>1, <2>2, DenseFetch
  <2>4. u < out_tiles(d) => Inside(d, R, C)
    <3> SUFFICES ASSUME u < out_tiles(d) PROVE Inside(d, R, C)
      OBVIOUS
    <3> DEFINE h == n_otr(d)
               q == u \div a
               m == u % a
    <3>1. h \in Nat \ {0} /\ u < h * a /\ TILE \in Nat \ {0}
      BY GridPositive, TileAssumption DEF IsMap, out_tiles
    <3>2. q \in Nat /\ m \in 0 .. a - 1
      BY <1>1, QuotientNat
    <3>3. q < h
      BY <1>1, <3>1, QuotientBound
    <3>4. /\ d.Ro \in Nat \ {0} /\ d.Co \in Nat \ {0} /\ d.Ro % TILE = 0 /\ d.Co % TILE = 0
      BY <2>1 DEF IsMap, NonEmpty, is_dense_identity
    <3>5. d.Ro = h * TILE /\ d.Co = a * TILE
      BY <3>4, PaddedFacts DEF padded, n_otr, n_otc
    <3>6. R = q * TILE + i /\ C = m * TILE + j
      BY DEF TileRow, TileCol
    <3> HIDE DEF h, q, m, a, R, C
    <3>7. (h - 1 - q) * TILE >= 0 /\ (h - 1 - q) * TILE = h * TILE - TILE - q * TILE
          /\ h * TILE \in Int /\ q * TILE \in Int
      BY <3>1, <3>2, <3>3, ProductNat, h - 1 - q \in Nat
    <3>8. (a - 1 - m) * TILE >= 0 /\ (a - 1 - m) * TILE = a * TILE - TILE - m * TILE
          /\ a * TILE \in Int /\ m * TILE \in Int
      BY <1>1, <3>1, <3>2, ProductNat, a - 1 - m \in Nat
    <3> QED BY <3>1, <3>5, <3>6, <3>7, <3>8 DEF Inside
  <2> QED BY <2>3, <2>4
<1>3. CASE kind_of(d) # "dense"
  <2>1. /\ v.kind # "dense" /\ v.base = d.base /\ v.S_row = d.S_row /\ v.Cs = S /\ v.nct = S \div TILE
        /\ v.Ro = d.Ro /\ v.Co = d.Co /\ v.n_otc = a /\ v.P = d.P /\ v.acc = acc
        /\ d.P # 0 => v.A = d.A /\ v.B = d.B
    BY <1>3 DEF Walks, kind_of, nct
  <2> DEFINE dr == IF v.P = 0 THEN R ELSE v.A * (R \div v.P) + v.B * (R % v.P)
  <2>2. dr = SourceRow(d, R)
    BY <2>1 DEF SourceRow
  <2>3. v.base + dr * v.S_row + C = e
    BY <2>1, <2>2 DEF MapElement
  <2>4. Fetch(v, u, i, j) =
          LET x == v.base + dr * v.S_row + C
              r == x \div v.Cs
              c == x % v.Cs
          IN  IF R < v.Ro /\ C < v.Co
              THEN InPage(v.acc, (r \div TILE) * v.nct + c \div TILE, r % TILE, c % TILE) ELSE Zero
    BY <2>1 DEF Fetch, TileRow, TileCol
  <2> HIDE DEF dr
  <2>5. Fetch(v, u, i, j) =
          IF Inside(d, R, C)
          THEN InPage(acc, ((e \div S) \div TILE) * (S \div TILE) + (e % S) \div TILE,
                      (e \div S) % TILE, (e % S) % TILE)
          ELSE Zero
    BY <2>1, <2>3, <2>4 DEF Inside
  <2> HIDE DEF R, C, e
  <2> QED BY <2>5 DEF PageElement, PageNumber, R, C, e
<1> QED BY <1>2, <1>3

-----------------------------------------------------------------------------
\* What the readers and the writer of a launch walk.
Acc(t) == <<t.spec.mem, t.addr>>

LEMMA BlockWalks ==
  ASSUME NEW d, NEW t0, NEW acc, NEW l, NEW s \in Int,
         \A i \in 1 .. Len(append_view_args(t0, d)) :
           get_arg_val(l, s + (i - 1)) = append_view_args(t0, d)[i]
  PROVE  Walks(TensorViewArgs(l, s, kind_of(d), acc), d, t0, acc)
<1> DEFINE g(i) == get_arg_val(l, s + i)
<1>1. PICK b, v, kind : /\ b = append_view_args(t0, d) /\ kind = kind_of(d)
                        /\ v = TensorViewArgs(l, s, kind_of(d), acc)
  OBVIOUS
<1>2. \A i \in 1 .. Len(b) : g(i - 1) = b[i]
  BY <1>1
<1>3. (kind = "grouped" <=> d.P # 0) /\ kind \in {"grouped", "dense", "affine"}
  BY <1>1 DEF kind_of
<1>4. kind = "dense" => v = [kind |-> kind, t0 |-> g(0), acc |-> acc]
  BY <1>1 DEF TensorViewArgs
<1>5. kind # "dense" =>
        v = [kind |-> kind, t0 |-> g(0), acc |-> acc, base |-> g(1), S_row |-> g(2),
             Cs |-> g(3), nct |-> g(4), Ro |-> g(5), Co |-> g(6), n_otc |-> g(7),
             P |-> IF kind = "grouped" THEN g(8) ELSE 0,
             A |-> IF kind = "grouped" THEN g(9) ELSE 0,
             B |-> IF kind = "grouped" THEN g(10) ELSE 0]
  BY <1>1 DEF TensorViewArgs
<1> HIDE DEF g
<1>6. CASE kind = "dense"
  <2>1. b = <<t0>>
    BY <1>1, <1>6 DEF append_view_args
  <2>2. Len(b) = 1 /\ b[1] = t0
    BY <2>1
  <2>3. g(0) = t0
    BY <1>2, <2>2, 1 \in 1 .. 1, 1 - 1 = 0
  <2>4. v.kind = kind /\ v.acc = acc /\ v.t0 = t0
    BY <1>4, <1>6, <2>3
  <2>5. Walks(v, d, t0, acc)
    BY <1>1, <1>6, <2>4 DEF Walks
  <2> QED BY <1>1, <2>5
<1>7. CASE kind # "dense"
  <2>1. /\ Len(b) \in Nat /\ Len(b) >= 8 /\ (kind = "grouped" => Len(b) = 11)
        /\ b[1] = t0 /\ b[2] = d.base /\ b[3] = d.S_row /\ b[4] = d.Cs /\ b[5] = nct(d)
        /\ b[6] = d.Ro /\ b[7] = d.Co /\ b[8] = n_otc(d)
        /\ kind = "grouped" => b[9] = d.P /\ b[10] = d.A /\ b[11] = d.B
    <3>1. CASE kind = "grouped"
      <4>1. b = <<t0>> \o <<d.base, d.S_row, d.Cs, nct(d), d.Ro, d.Co, n_otc(d)>>
                  \o <<d.P, d.A, d.B>>
        BY <1>1, <3>1 DEF append_view_args
      <4> QED BY <4>1, <3>1
    <3>2. CASE kind # "grouped"
      <4>1. b = <<t0>> \o <<d.base, d.S_row, d.Cs, nct(d), d.Ro, d.Co, n_otc(d)>> \o <<>>
        BY <1>1, <1>7, <3>2 DEF append_view_args
      <4> QED BY <4>1, <3>2
    <3> QED BY <3>1, <3>2
  <2>2. \A i \in 0 .. Len(b) - 1 : g(i) = b[i + 1]
    <3> TAKE i \in 0 .. Len(b) - 1
    <3>1. i + 1 \in 1 .. Len(b) /\ (i + 1) - 1 = i
      BY <2>1
    <3> QED BY <1>2, <3>1
  <2>3. /\ g(0) = b[1] /\ g(1) = b[2] /\ g(2) = b[3] /\ g(3) = b[4] /\ g(4) = b[5]
        /\ g(5) = b[6] /\ g(6) = b[7] /\ g(7) = b[8]
    <3>1. \A i \in 0 .. 7 : g(i) = b[i + 1]
      BY <2>1, <2>2
    <3>2. g(0) = b[0 + 1] /\ g(1) = b[1 + 1] /\ g(2) = b[2 + 1] /\ g(3) = b[3 + 1]
      BY <3>1
    <3>3. g(4) = b[4 + 1] /\ g(5) = b[5 + 1] /\ g(6) = b[6 + 1] /\ g(7) = b[7 + 1]
      BY <3>1
    <3> QED BY <3>2, <3>3
  <2>4. kind = "grouped" => g(8) = b[9] /\ g(9) = b[10] /\ g(10) = b[11]
    <3> SUFFICES ASSUME kind = "grouped" PROVE g(8) = b[9] /\ g(9) = b[10] /\ g(10) = b[11]
      OBVIOUS
    <3>3. Len(b) = 11
      BY <2>1
    <3>1. \A i \in 8 .. 10 : g(i) = b[i + 1]
      BY <2>2, <3>3
    <3>2. g(8) = b[8 + 1] /\ g(9) = b[9 + 1] /\ g(10) = b[10 + 1]
      BY <3>1
    <3> QED BY <3>2
  <2>5. /\ v.kind = kind /\ v.acc = acc /\ v.t0 = t0 /\ v.base = d.base /\ v.S_row = d.S_row
        /\ v.Cs = d.Cs /\ v.nct = nct(d) /\ v.Ro = d.Ro /\ v.Co = d.Co /\ v.n_otc = n_otc(d)
    BY <1>5, <1>7, <2>1, <2>3
  <2>6. v.P = d.P
    <3>1. CASE kind = "grouped"
      BY <1>5, <1>7, <2>1, <2>4, <3>1
    <3>2. CASE kind # "grouped"
      BY <1>3, <1>5, <1>7, <3>2
    <3> QED BY <3>1, <3>2
  <2>7. kind = "grouped" => v.A = d.A /\ v.B = d.B
    BY <1>5, <1>7, <2>1, <2>4
  <2>8. Walks(v, d, t0, acc)
    BY <1>1, <2>5, <2>6, <2>7 DEF Walks
  <2> QED BY <1>1, <2>8
<1> QED BY <1>6, <1>7

LEMMA Accessors ==
  ASSUME LaunchInv, launched # None, op \notin RowCopies, NEW k \in Running,
         NEW x \in DOMAIN launched.ins
  PROVE  Accessor(program.reader[k], x) = Acc(launched.ins[x])
<1>1. LaidOut(k)
  BY ReaderEnds
<1>2. get_arg_val(program.reader[k], x - 1) = launched.ins[x].addr
  BY <1>1 DEF LaidOut
<1>3. program.kernels.accessors[x] = launched.ins[x].spec.mem
  <2>1. PICK a, i, o : a = launched.a /\ i = launched.ins /\ o = launched.out
    OBVIOUS
  <2>2. program.kernels = Kernels(a, i, o)
    BY <2>1, LaunchedFacts
  <2>3. Kernels(a, i, o).accessors = [y \in DOMAIN i |-> i[y].spec.mem]
    BY DEF Kernels
  <2> QED BY <2>1, <2>2, <2>3
<1> QED BY <1>2, <1>3 DEF Accessor, Acc

LEMMA ReaderWalks ==
  ASSUME LaunchInv, launched # None, op \notin RowCopies, NEW k \in Running, NEW x \in Blocks
  PROVE  /\ x \in DOMAIN launched.ins /\ x \in DOMAIN launched.a.ins
         /\ Walks(View(k, x), launched.a.ins[x], Start(launched.a, k, x), Acc(launched.ins[x]))
<1>1. /\ Views \in 1 .. 5 /\ Blocks = 1 .. Views /\ DOMAIN launched.a.ins = 1 .. Views
      /\ Len(program.kernels.kinds) = Views
      /\ \A y \in 1 .. Views : program.kernels.kinds[y] = kind_of(launched.a.ins[y])
  BY KindsFacts
<1>2. x \in DOMAIN launched.ins
  <2>1. /\ launched.call \in Calls
        /\ DOMAIN launched.ins = 1 .. (IF launched.call.op \in Norms THEN 3 ELSE Len(launched.call.views))
    BY LaunchedFacts
  <2> QED BY <1>1, <2>1 DEF Views, Walked
<1> DEFINE t0 == Start(launched.a, k, x)
           d == launched.a.ins[x]
           l == program.reader[k]
           s == next[x - 1]
<1>3. LaidOut(k)
  BY ReaderEnds
<1>4. \A i \in 1 .. Len(append_view_args(t0, d)) :
        get_arg_val(l, s + (i - 1)) = append_view_args(t0, d)[i]
  BY <1>1, <1>3 DEF LaidOut, Block
<1>5. s \in Int
  <2>1. view_base \in Int
    BY DEF view_base
  <2>2. next \in [0 .. Views -> Int]
    BY <1>1, <2>1, NextFacts
  <2>3. x - 1 \in 0 .. Views
    BY <1>1
  <2> QED BY <2>2, <2>3
<1>6. View(k, x) = TensorViewArgs(l, s, kind_of(d), Acc(launched.ins[x]))
  BY <1>1, <1>2, Accessors DEF View
<1> HIDE DEF t0, d, l, s
<1>7. Walks(TensorViewArgs(l, s, kind_of(d), Acc(launched.ins[x])), d, t0, Acc(launched.ins[x]))
  BY <1>4, <1>5, BlockWalks
<1> QED BY <1>1, <1>2, <1>6, <1>7 DEF t0, d

LEMMA WriterWalks ==
  ASSUME LaunchInv, launched # None, op \notin RowCopies, NEW k \in Running
  PROVE  /\ Walks(OutView(k), launched.a.o, First(launched.a, k), Acc(launched.out))
         /\ writer_tiles(k) = Count(launched.a, k)
<1> DEFINE t0 == First(launched.a, k)
           d == launched.a.o
           l == program.writer[k]
           acc == Acc(launched.out)
<1>1. /\ get_arg_val(l, 0) = launched.out.addr /\ writer_tiles(k) = Count(launched.a, k)
      /\ \A i \in 1 .. Len(append_view_args(t0, d)) :
           get_arg_val(l, 2 + (i - 1)) = append_view_args(t0, d)[i]
  BY WriterLayout
<1>2. program.kernels.out_kind = kind_of(d)
  BY KindsFacts
<1>3. program.kernels.out_accessor = launched.out.spec.mem
  <2>1. PICK a, i, o : a = launched.a /\ i = launched.ins /\ o = launched.out
    OBVIOUS
  <2>2. program.kernels = Kernels(a, i, o)
    BY <2>1, LaunchedFacts
  <2>3. Kernels(a, i, o).out_accessor = o.spec.mem
    BY DEF Kernels
  <2> QED BY <2>1, <2>2, <2>3
<1>4. OutView(k) = TensorViewArgs(l, 2, kind_of(d), acc)
  BY <1>1, <1>2, <1>3 DEF OutView, Acc
<1> HIDE DEF t0, d, l, acc
<1>5. Walks(TensorViewArgs(l, 2, kind_of(d), acc), d, t0, acc)
  BY <1>1, BlockWalks, 2 \in Int
<1> QED BY <1>1, <1>4, <1>5 DEF t0, d, acc

-----------------------------------------------------------------------------
(***************************************************************************)
(* The output side: each element of the result is one live cell of a tile. *)
(***************************************************************************)
LEMMA TensorIsMap ==
  ASSUME NEW v, InTensor(v), NonEmpty(v.desc)
  PROVE  /\ IsMap(v.desc) /\ v.desc \in Linear
         /\ v.desc.Cs = padded(v.cols) /\ v.cols \in Nat \ {0}
         /\ v.desc.Ro > 1 => v.desc.Co <= v.desc.S_row
BY PaddedFacts DEF InTensor, IsMap, Linear

LEMMA EltwiseOutLike ==
  ASSUME NEW c \in Calls, c.op \in Eltwise
  PROVE  \E x \in DOMAIN c.views : EltwiseOut(c) = OutLike(c, c.views[x].desc)
<1> DEFINE ds == Descs(c)
<1>1. /\ DOMAIN ds \in {1 .. 2, 1 .. 3} /\ DOMAIN ds = DOMAIN c.views
      /\ \A x \in DOMAIN ds : out_tiles(ds[x]) \in Nat \ {0} /\ ds[x] = c.views[x].desc
  BY Arity, OpNames, OperandsAssumption, GridPositive DEF Descs, Calls
<1> HIDE DEF ds
<1>2. \E i \in DOMAIN ds : \A j \in DOMAIN ds :
        \/ out_tiles(ds[i]) > out_tiles(ds[j])
        \/ out_tiles(ds[i]) = out_tiles(ds[j]) /\ i <= j
  <2> DEFINE n(x) == out_tiles(ds[x])
  <2>1. \A x \in DOMAIN ds : n(x) \in Nat
    BY <1>1
  <2> HIDE DEF n
  <2>2. CASE DOMAIN ds = 1 .. 2
    <3>1. n(1) \in Nat /\ n(2) \in Nat
      BY <2>1, <2>2
    <3>2. \E i \in 1 .. 2 : \A j \in 1 .. 2 : n(i) > n(j) \/ (n(i) = n(j) /\ i <= j)
      <4>1. CASE n(1) >= n(2)
        BY <3>1, <4>1
      <4>2. CASE n(2) > n(1)
        BY <3>1, <4>2
      <4> QED BY <3>1, <4>1, <4>2
    <3> QED BY <2>2, <3>2 DEF n
  <2>3. CASE DOMAIN ds = 1 .. 3
    <3>1. n(1) \in Nat /\ n(2) \in Nat /\ n(3) \in Nat
      BY <2>1, <2>3
    <3>2. \E i \in 1 .. 3 : \A j \in 1 .. 3 : n(i) > n(j) \/ (n(i) = n(j) /\ i <= j)
      <4>1. CASE n(1) >= n(2) /\ n(1) >= n(3)
        BY <3>1, <4>1
      <4>2. CASE n(2) > n(1) /\ n(2) >= n(3)
        BY <3>1, <4>2
      <4>3. CASE n(3) > n(1) /\ n(3) > n(2)
        BY <3>1, <4>3
      <4> QED BY <3>1, <4>1, <4>2, <4>3
    <3> QED BY <2>3, <3>2 DEF n
  <2> QED BY <1>1, <2>2, <2>3
<1>3. Largest(ds) \in DOMAIN ds
  BY <1>2 DEF Largest
<1>4. 1 \in DOMAIN ds
  BY <1>1
<1>5. PICK x \in DOMAIN ds : EltwiseOut(c) = OutLike(c, ds[x])
  BY <1>3, <1>4 DEF EltwiseOut, ds
<1> QED BY <1>1, <1>5

\* The output given, or a dense one of an operand's shape.
LEMMA ResultLike ==
  ASSUME NEW c \in Calls, c.op \notin RowCopies
  PROVE  \E x \in DOMAIN c.views : Out(c) = OutLike(c, c.views[x].desc)
<1>1. \A x \in DOMAIN c.views : Descs(c)[x] = c.views[x].desc
  BY DEF Descs
<1>2. CASE c.op \in Eltwise
  <2>1. Out(c) = EltwiseOut(c)
    BY <1>2 DEF Out, Eltwise, Binary, Elementwise3
  <2> QED BY <1>2, <2>1, EltwiseOutLike
<1>3. CASE c.op = "mul_l2_norm"
  <2>1. Out(c) = OutLike(c, Descs(c)[FullOperand(c)])
    BY <1>3 DEF Out, Eltwise, Binary, Elementwise3
  <2>2. FullOperand(c) \in DOMAIN c.views
    <3>1. FullOperand(c) = 1 \/ FullOperand(c) = 2
      BY DEF FullOperand
    <3> QED BY <1>3, <3>1, Arity
  <2> QED BY <1>1, <2>1, <2>2
<1>4. CASE c.op = "rk"
  <2>1. Out(c) = OutLike(c, Descs(c)[5])
    BY <1>4 DEF Out, Eltwise, Binary, Elementwise3
  <2>2. 5 \in DOMAIN c.views
    BY <1>4, Arity
  <2> QED BY <1>1, <2>1, <2>2
<1>5. CASE c.op \in Norms \cup {"realize"}
  <2>1. Out(c) = OutLike(c, Descs(c)[1])
    BY <1>5 DEF Out, Eltwise, Binary, Elementwise3, Norms
  <2>2. 1 \in DOMAIN c.views
    BY Arity
  <2> QED BY <1>1, <2>1, <2>2
<1> QED BY <1>2, <1>3, <1>4, <1>5, OpNames

\* The output given is the result; a result that is not given is dense.
LEMMA ResultShape ==
  ASSUME NEW c \in Calls, c.op \notin RowCopies
  PROVE  LET o == Out(c)
         IN  /\ IsMap(o.desc) /\ o.desc \in Linear /\ o.desc.Cs = padded(o.cols)
             /\ o.desc.Ro > 1 => o.desc.Co <= o.desc.S_row
             /\ IF c.out = NoOut THEN o.bound = FALSE ELSE o = c.out
<1>1. PICK x \in DOMAIN c.views : Out(c) = OutLike(c, c.views[x].desc)
  BY ResultLike
<1>2. PICK e : e = c.views[x].desc /\ NonEmpty(e)
  BY OperandsAssumption DEF Calls
<1>3. CASE c.out = NoOut
  <2>1. Out(c) = of_shape(e.Ro, e.Co)
    BY <1>1, <1>2, <1>3 DEF OutLike
  <2>2. PICK R, C : R = e.Ro /\ C = e.Co /\ R \in Nat \ {0} /\ C \in Nat \ {0}
    BY <1>2 DEF NonEmpty
  <2>3. PICK s : s = IF R > 1 THEN padded(C) ELSE 0
    OBVIOUS
  <2>4. PICK d : d = dense(R, C)
    OBVIOUS
  <2>5. /\ d.base = 0 /\ d.S_row = s /\ d.Cs = padded(C) /\ d.Ro = R /\ d.Co = C /\ d.P = 0
        /\ d = [base |-> 0, S_row |-> s, Cs |-> padded(C), Ro |-> R, Co |-> C,
                P |-> 0, A |-> 0, B |-> 0]
    BY <2>3, <2>4 DEF dense, linear
  <2>6. padded(C) \in Nat \ {0} /\ padded(C) % TILE = 0 /\ C <= padded(C)
    BY <2>2, PaddedFacts
  <2>7. IsMap(d) /\ (d.Ro > 1 => d.Co <= d.S_row)
    BY <2>2, <2>3, <2>5, <2>6 DEF IsMap, NonEmpty
  <2>9. d \in Linear
    BY <2>2, <2>3, <2>5, <2>6 DEF Linear
  <2>8. Out(c).desc = d /\ Out(c).cols = C /\ Out(c).bound = FALSE
    BY <2>1, <2>2, <2>4 DEF of_shape, tensor, view
  <2> QED BY <1>3, <2>5, <2>7, <2>8, <2>9
<1>4. CASE c.out # NoOut
  <2>1. Out(c) = c.out
    BY <1>1, <1>4 DEF OutLike
  <2>2. InTensor(c.out) /\ NonEmpty(c.out.desc)
    BY <1>4, ViewsAssumption, OperandsAssumption DEF Calls
  <2> QED BY <1>4, <2>1, <2>2, TensorIsMap
<1> QED BY <1>3, <1>4

LEMMA CommonFields ==
  ASSUME NEW c \in Calls, c.op \notin RowCopies
  PROVE  LET a == Attributes(c)
         IN  a.out_cols = Out(c).cols /\ a.mem = output_memory_config(c, Out(c)) /\ a.op = c.op
<1>1. c.op \in Eltwise \cup Norms \cup {"mul_l2_norm", "rk", "realize"}
  BY OpNames
<1>2. CASE c.op \in Eltwise
  BY <1>2, OpAttributes, EltwiseFields
<1>3. CASE c.op \in Norms
  BY <1>3, OpAttributes, NormFields
<1>4. CASE c.op = "mul_l2_norm"
  <2>1. PICK a : a = MulL2Attributes(c)
    OBVIOUS
  <2>2. a.out_cols = Out(c).cols /\ a.mem = output_memory_config(c, Out(c)) /\ a.op = c.op
    BY <2>1, MulL2Fields
  <2>3. Attributes(c) = a
    BY <1>4, <2>1, OpAttributes
  <2> QED BY <2>2, <2>3
<1>5. CASE c.op = "rk"
  BY <1>5, OpAttributes, RkFields
<1>6. CASE c.op = "realize"
  BY <1>6, OpAttributes, ViewFields
<1> QED BY <1>1, <1>2, <1>3, <1>4, <1>5, <1>6

\* The tensor a launch writes is as wide as the result, in the memory meant.
LEMMA LaunchedResult ==
  ASSUME LaunchInv, launched # None, op \notin RowCopies
  PROVE  /\ launched.out.spec.Cs = result.desc.Cs /\ ResultAt.spec.Cs = result.desc.Cs
         /\ Acc(ResultAt) = Acc(launched.out) /\ Acc(launched.out) \in STRING \X Nat
<1> DEFINE c == launched.call
           a == launched.a
           o == Out(c)
           m == IF IsBound(c) THEN c.out.mem ELSE c.mem
<1>1. c \in Calls /\ a = Attributes(c) /\ c.op = op /\ a.op = op
  BY LaunchedFacts
<1>2. /\ a.out_cols = o.cols /\ a.mem = output_memory_config(c, o)
      /\ o.desc.Cs = padded(o.cols)
      /\ IF c.out = NoOut THEN o.bound = FALSE ELSE o = c.out
  BY <1>1, CommonFields, ResultShape
<1>3. result = o
  BY DEF result, call
<1>4. m \in STRING
  BY <1>1, ViewsAssumption DEF Calls, InTensor, IsBound
<1>5. PICK R, C, p, Cs : launched.out.spec = [rows |-> R, cols |-> C, prows |-> p, Cs |-> Cs, mem |-> m]
                         /\ Cs = o.desc.Cs
  <2>1. CASE IsBound(c)
    <3>1. launched.out.spec = spec(c.out) /\ o = c.out
      BY <1>2, <2>1, LaunchedTensors DEF IsBound
    <3>2. spec(o) = [rows |-> o.rows, cols |-> o.cols, prows |-> o.prows, Cs |-> o.desc.Cs, mem |-> o.mem]
      BY DEF spec
    <3>3. m = o.mem
      BY <2>1, <3>1
    <3> HIDE DEF o, m
    <3> QED BY <3>1, <3>2, <3>3
  <2>2. CASE ~IsBound(c)
    <3>1. launched.out.spec = compute_output_specs(a)
      BY <2>2, LaunchedTensors
    <3>2. a.mem = m
      BY <1>2, <2>2 DEF IsBound, output_memory_config
    <3>3. PICK w : w = a.out_cols
      OBVIOUS
    <3> DEFINE s(n) == [rows |-> n, cols |-> w, prows |-> padded(n), Cs |-> padded(w), mem |-> a.mem]
    <3>4. \A n : [spec(tensor(n, w)) EXCEPT !.mem = a.mem] = s(n)
      BY DEF spec, tensor, view, dense, linear
    <3>5. a.op # "get_rows"
      BY <1>1 DEF RowCopies
    <3>6. CASE a.op \in Eltwise /\ a.canon_nt > 0
      <4>1. compute_output_specs(a)
              = [s(canonical_rows(a)) EXCEPT !.rows = a.canon_G * a.canon_nt]
        BY <3>3, <3>4, <3>5, <3>6 DEF compute_output_specs
      <4> HIDE DEF o, m, a, c
      <4> QED BY <1>2, <3>1, <3>2, <3>3, <4>1
    <3>7. CASE ~(a.op \in Eltwise /\ a.canon_nt > 0)
      <4>1. compute_output_specs(a) = s(a.out_rows)
        BY <3>3, <3>4, <3>5, <3>7 DEF compute_output_specs
      <4> HIDE DEF o, m, a, c
      <4> QED BY <1>2, <3>1, <3>2, <3>3, <4>1
    <3> QED BY <3>6, <3>7
  <2> QED BY <2>1, <2>2
<1>6. PICK addr \in Nat : addr = launched.out.addr
  BY LaunchedTensors
<1>7. launched.out = [addr |-> addr, spec |-> launched.out.spec]
  <2>1. PICK c0 \in Calls, base \in Bases : \E dst \in {base, base + 1} : Launched(c0, base, dst)
    BY DEF LaunchInv
  <2>2. PICK dst \in {base, base + 1} : Launched(c0, base, dst)
    BY <2>1
  <2>3. launched.out = resolve_output(c0, Attributes(c0), dst)
    BY <2>2 DEF Launched, OutOf
  <2> QED BY <1>6, <2>3 DEF resolve_output
<1>8. ResultAt = [launched.out EXCEPT !.spec.mem = m]
  BY DEF ResultAt, call
<1> HIDE DEF m, o
<1>9. PICK t : t = launched.out
  OBVIOUS
<1>10. t = [addr |-> addr, spec |-> [rows |-> R, cols |-> C, prows |-> p, Cs |-> Cs, mem |-> m]]
  BY <1>5, <1>7, <1>9
<1>11. [t EXCEPT !.spec.mem = m] = t
  BY <1>10
<1>12. t.spec.Cs = o.desc.Cs /\ Acc(t) = <<m, addr>>
  BY <1>5, <1>10 DEF Acc
<1>13. ResultAt = t /\ launched.out = t
  BY <1>8, <1>9, <1>11
<1>14. Acc(t) \in STRING \X Nat
  BY <1>4, <1>12
<1> QED BY <1>3, <1>12, <1>13, <1>14

-----------------------------------------------------------------------------
\* Which map the writer walks, and which cell of the result it reaches.
LEMMA CanonicalRow ==
  ASSUME LaunchInv, launched # None, op \in Eltwise
  PROVE  LET D == Scattered(call, result)
         IN  /\ IsMap(D) /\ D.Ro = result.desc.Ro /\ D.Co = result.desc.Co /\ D.Cs = result.desc.Cs
             /\ D.base = result.desc.base /\ D.S_row = result.desc.S_row
             /\ \A R \in Nat : SourceRow(D, R) = MeantRow(R)
<1> DEFINE D == Scattered(call, result)
<1>1. /\ call \in Calls /\ call.op = op /\ op \notin RowCopies /\ result = Out(call)
      /\ 1 \in DOMAIN call.views
  BY LaunchedFacts, OpNames, Arity DEF call, result
<1>2. PICK d : d = result.desc /\ IsMap(d) /\ d \in Linear
  BY <1>1, ResultShape
<1>3. PICK T : T = Tokens(call) /\ T \in Nat \ {0}
  BY <1>1, ViewsAssumption DEF Calls, InTensor, Tokens
<1>4. call.canonical \in BOOLEAN /\ padded(T) \in Nat \ {0} /\ (T % TILE = 0 => padded(T) = T)
  BY <1>1, <1>3, ViewsAssumption, PaddedFacts DEF Calls
<1>5. \A R \in Nat : R \div T \in Nat /\ R % T \in Nat /\ T * (R \div T) + (R % T) = R
  <2> TAKE R \in Nat
  <2>1. R \div T \in Nat /\ R = (R \div T) * T + (R % T) /\ R % T \in 0 .. T - 1
    BY <1>3, DivModNat
  <2>2. R \div T \in Nat /\ R % T \in Nat /\ R = (R \div T) * T + (R % T) /\ T \in Nat
    BY <1>3, <2>1
  <2>3. PICK q \in Nat, s \in Nat : q = R \div T /\ s = R % T
    BY <2>2
  <2> QED BY <2>2, <2>3
<1>6. CASE call.canonical /\ T % TILE # 0
  <2>1. D = [d EXCEPT !.P = T, !.A = padded(T), !.B = 1]
    BY <1>2, <1>3, <1>6 DEF Scattered
  <2>2. /\ D.base = d.base /\ D.S_row = d.S_row /\ D.Cs = d.Cs /\ D.Ro = d.Ro /\ D.Co = d.Co
        /\ D.P = T /\ D.A = padded(T) /\ D.B = 1
    BY <1>2, <2>1 DEF Linear
  <2> HIDE DEF D
  <2>3. IsMap(D)
    BY <1>2, <1>3, <1>4, <2>2 DEF IsMap, NonEmpty
  <2>4. \A R \in Nat : SourceRow(D, R) = padded(T) * (R \div T) + 1 * (R % T)
    BY <1>3, <2>2 DEF SourceRow
  <2>5. \A R \in Nat : MeantRow(R) = padded(T) * (R \div T) + (R % T)
    BY <1>3, <1>6 DEF MeantRow
  <2>6. \A R \in Nat : 1 * (R % T) = R % T
    BY <1>5
  <2> QED BY <1>2, <2>2, <2>3, <2>4, <2>5, <2>6 DEF D
<1>7. CASE ~(call.canonical /\ T % TILE # 0)
  <2>1. D = d
    BY <1>2, <1>3, <1>7 DEF Scattered
  <2>2. d.P = 0
    BY <1>2 DEF Linear
  <2>3. \A R \in Nat : MeantRow(R) = R
    BY <1>3, <1>4, <1>5, <1>7 DEF MeantRow
  <2> QED BY <1>2, <2>1, <2>2, <2>3 DEF SourceRow
<1> QED BY <1>6, <1>7

\* A row of whole squares of tiles, folded into rows of a tile.
LEMMA FoldedMap ==
  ASSUME NEW d \in Linear, IsMap(d), d.Co % (TILE * TILE) = 0
  PROVE  LET D == Folded(d)
         IN  /\ IsMap(D) /\ D.P = 0 /\ D.base = d.base /\ D.Cs = d.Cs /\ D.S_row = TILE
             /\ D.Co = TILE /\ D.Ro * TILE = d.Co /\ D.Ro % TILE = 0 /\ D.Ro \in Nat \ {0}
             /\ D \in Linear
<1>1. PICK C \in Nat \ {0}, b \in Nat, S \in Nat \ {0} :
        C = d.Co /\ b = d.base /\ S = d.Cs /\ S % TILE = 0
  BY DEF IsMap, NonEmpty
<1>2. TILE \in Nat \ {0} /\ TILE * TILE \in Nat \ {0}
  BY TileAssumption
<1>3. PICK q \in Nat \ {0} : C = q * (TILE * TILE)
  <2>1. PICK T \in Nat \ {0} : T = TILE * TILE
    BY <1>2
  <2>2. C % T = 0
    BY <1>1, <2>1
  <2> QED BY <1>1, <2>1, <2>2, WholeQuotient
<1>4. PICK r : r = q * TILE /\ r \in Nat \ {0}
  BY <1>2
<1>5. C = r * TILE + 0 /\ r = q * TILE + 0
  BY <1>2, <1>3, <1>4
<1>6. r = C \div TILE /\ r % TILE = 0
  <2>1. r = C \div TILE
    BY <1>1, <1>2, <1>4, <1>5, DivModUnique
  <2>2. 0 = r % TILE
    BY <1>2, <1>3, <1>4, <1>5, DivModUnique
  <2> QED BY <2>1, <2>2
<1>7. Folded(d) = [base |-> b, S_row |-> TILE, Cs |-> S, Ro |-> r, Co |-> TILE,
                   P |-> 0, A |-> 0, B |-> 0]
  BY <1>1, <1>6 DEF Folded, linear
<1>8. r * TILE = C
  BY <1>2, <1>4, <1>5
<1> QED BY <1>1, <1>2, <1>4, <1>6, <1>7, <1>8 DEF IsMap, NonEmpty, Linear

LEMMA WriterMap ==
  ASSUME LaunchInv, launched # None, op \notin RowCopies
  PROVE  LET D == launched.a.o
             d == result.desc
         IN  /\ IsMap(D) /\ IsMap(d) /\ d \in Linear /\ D.Cs = d.Cs /\ D.base = d.base
             /\ launched.a.n_otr = n_otr(D) /\ launched.a.n_otc = n_otc(D)
             /\ work_tiles(launched.a) = out_tiles(D)
             /\ program.kernels.global <=> op \in Norms /\ Folds(call)
             /\ IF program.kernels.global
                THEN D = Folded(d) /\ d.Ro = 1 /\ d.Co % (TILE * TILE) = 0 /\ MeantRow(0) = 0
                ELSE /\ D.Ro = d.Ro /\ D.Co = d.Co /\ D.S_row = d.S_row
                     /\ \A R \in Nat : SourceRow(D, R) = MeantRow(R)
<1> DEFINE D == launched.a.o
           d == result.desc
           a == launched.a
<1>1. /\ call \in Calls /\ Lowers(call) /\ a = Attributes(call) /\ call.op = op /\ a.op = op
      /\ result = Out(call)
      /\ program.kernels.global <=> op \in Norms /\ a.global
      /\ op \in Eltwise \cup Norms \cup {"mul_l2_norm", "rk", "realize"}
  BY LaunchedFacts, GlobalFlag, OpNames DEF call, result
<1>2. IsMap(d) /\ d \in Linear
  BY <1>1, ResultShape
<1>3. CASE op \in Eltwise
  <2>1. ~program.kernels.global
    BY <1>1, <1>3, OpNames
  <2>2. D = Scattered(call, result) /\ a.n_otr = n_otr(d) /\ a.n_otc = n_otc(d)
    <3>1. Out(call) = EltwiseOut(call)
      BY <1>1, <1>3 DEF Out, Eltwise, Binary, Elementwise3
    <3>2. a = EltwiseAttributes(call)
      BY <1>1, <1>3, OpAttributes
    <3> QED BY <1>1, <1>3, <3>1, <3>2, EltwiseFields
  <2>3. /\ IsMap(D) /\ D.Ro = d.Ro /\ D.Co = d.Co /\ D.Cs = d.Cs /\ D.base = d.base
        /\ D.S_row = d.S_row /\ \A R \in Nat : SourceRow(D, R) = MeantRow(R)
    BY <1>3, <2>2, CanonicalRow
  <2>4. a.n_otr = n_otr(D) /\ a.n_otc = n_otc(D)
    BY <2>2, <2>3 DEF n_otr, n_otc
  <2>5. work_tiles(a) = out_tiles(D)
    BY <1>1, <2>4 DEF work_tiles, out_tiles
  <2> QED BY <1>1, <1>2, <1>3, <2>1, <2>3, <2>4, <2>5, OpNames
<1>4. CASE op \notin Eltwise
  <2>1. D = (IF op \in Norms THEN NormMap(call, d) ELSE d)
        /\ a.n_otr = n_otr(D) /\ a.n_otc = n_otc(D) /\ (op \in Norms => a.global = Folds(call))
    <3>1. CASE op \in Norms
      <4>1. a = NormAttributes(call)
        BY <1>1, <3>1, OpAttributes
      <4> QED BY <1>1, <3>1, <4>1, NormFields
    <3>2. CASE op = "mul_l2_norm"
      <4>1. a = MulL2Attributes(call) /\ op \notin Norms
        BY <1>1, <3>2, OpAttributes, OpNames
      <4>2. D = d /\ a.n_otr = n_otr(D) /\ a.n_otc = n_otc(D)
        <5>1. PICK b : b = MulL2Attributes(call)
          OBVIOUS
        <5>2. b.o = Out(call).desc /\ b.n_otr = n_otr(Out(call).desc) /\ b.n_otc = n_otc(Out(call).desc)
          BY <5>1, MulL2Fields
        <5> QED BY <1>1, <4>1, <5>1, <5>2
      <4> QED BY <4>1, <4>2
    <3>3. CASE op = "rk"
      <4>1. a = RkAttributes(call) /\ op \notin Norms
        BY <1>1, <3>3, OpAttributes, OpNames
      <4> QED BY <1>1, <4>1, RkFields
    <3>4. CASE op = "realize"
      <4>1. a = ViewAttributes(call, Descs(call), Out(call).desc) /\ op \notin Norms
        BY <1>1, <3>4, OpAttributes, OpNames
      <4> QED BY <1>1, <4>1, ViewFields
    <3> QED BY <1>1, <1>4, <3>1, <3>2, <3>3, <3>4
  <2>2. work_tiles(a) = out_tiles(D)
    BY <1>1, <2>1 DEF work_tiles, out_tiles
  <2>3. \A R : MeantRow(R) = R
    <3>1. call.canonical \in BOOLEAN /\ ~call.canonical
      BY <1>1, <1>4, ViewsAssumption DEF Calls
    <3> QED BY <3>1 DEF MeantRow
  <2>4. CASE program.kernels.global
    <3>1. op \in Norms /\ Folds(call) /\ D = Folded(d)
      BY <1>1, <2>1, <2>4 DEF NormMap
    <3>2. SameGrid(d, call.views[1].desc)
      <4>1. 1 \in DOMAIN call.views
        BY <1>1, Arity
      <4>2. NormLowers(call, Descs(call), Out(call).desc)
        BY <1>1, <3>1, OpNames DEF Lowers, RowCopies
      <4> QED BY <1>1, <4>1, <4>2 DEF NormLowers, Descs
    <3>3. d.Ro = 1 /\ d.Co % (TILE * TILE) = 0
      BY <3>1, <3>2 DEF SameGrid, Folds, RowWidth
    <3>4. IsMap(D) /\ D.Cs = d.Cs /\ D.base = d.base
      BY <1>2, <3>1, <3>3, FoldedMap
    <3> QED BY <1>1, <1>2, <2>1, <2>2, <2>3, <2>4, <3>1, <3>3, <3>4
  <2>5. CASE ~program.kernels.global
    <3>1. D = d /\ ~(op \in Norms /\ Folds(call))
      BY <1>1, <2>1, <2>5 DEF NormMap
    <3>2. \A R \in Nat : SourceRow(D, R) = MeantRow(R)
      BY <1>2, <2>3, <3>1 DEF SourceRow, Linear
    <3> HIDE DEF D, d, a
    <3> QED BY <1>2, <2>1, <2>2, <2>5, <3>1, <3>2 DEF d, D, a
  <2> QED BY <2>4, <2>5
<1> QED BY <1>3, <1>4

-----------------------------------------------------------------------------
\* A launch's tiles are a whole number of units.
LEMMA GroupDivides ==
  ASSUME NEW c \in Calls, c.op \in Eltwise, Lowers(c), NEW x \in DOMAIN c.views,
         Attributes(c).bcast[x]
  PROVE  /\ Attributes(c).tpg \in Nat \ {0} /\ ~Shifted(c, EltwiseOut(c))
         /\ out_tiles(EltwiseOut(c).desc) % Attributes(c).tpg = 0
<1> DEFINE o == EltwiseOut(c)
           G == Groups(c, o)
<1>1. Attributes(c).bcast = Feed(c).bcast /\ Attributes(c).tpg = Feed(c).tpg
  BY OpAttributes, EltwiseFields
<1>2. Feed(c).bcast[x]
  BY <1>1
<1>3. ~Shifted(c, o)
  <2> SUFFICES ASSUME Shifted(c, o) PROVE FALSE
    OBVIOUS
  <2>1. Feed(c).bcast = [y \in DOMAIN c.views |-> FALSE]
    BY DEF Feed
  <2> QED BY <1>2, <2>1
<1>4. /\ Feed(c).bcast = [y \in DOMAIN c.views |-> Resident(c.views[y].desc, o.desc, o.rows)]
      /\ Feed(c).tpg = IF G = {} THEN out_tiles(o.desc) ELSE CHOOSE n \in G : TRUE
  BY <1>3 DEF Feed
<1>5. Resident(c.views[x].desc, o.desc, o.rows)
  BY <1>2, <1>4
<1>6. out_tiles(c.views[x].desc) \in G
  BY <1>5 DEF Groups, Descs
<1>7. Feed(c).tpg \in G
  BY <1>4, <1>6
<1>8. PICK y \in DOMAIN c.views : /\ Feed(c).tpg = out_tiles(c.views[y].desc)
                                  /\ Resident(c.views[y].desc, o.desc, o.rows)
  BY <1>7 DEF Groups, Descs
<1>9. Classified(c.views[y].desc, o.desc, o.rows)
  <2>1. Accepted(c)
    BY OpNames DEF Lowers, RowCopies
  <2> QED BY <1>3, <2>1 DEF Accepted
<1>10. out_tiles(o.desc) % out_tiles(c.views[y].desc) = 0
  BY <1>8, <1>9 DEF Classified, Resident
<1>11. Attributes(c).tpg \in Nat \ {0}
  BY GroupPositive
<1> QED BY <1>1, <1>3, <1>8, <1>10, <1>11

LEMMA LaunchParts ==
  ASSUME LaunchInv, launched # None, op \notin RowCopies
  PROVE  Parts(launched.a)
<1>1. PICK a : a = launched.a
  OBVIOUS
<1>2. /\ call \in Calls /\ Lowers(call) /\ a = Attributes(call) /\ call.op = op /\ a.op = op
      /\ result = Out(call)
      /\ op \in Eltwise \cup Norms \cup {"mul_l2_norm", "rk", "realize"}
  BY <1>1, LaunchedFacts, OpNames DEF call, result
<1>3. PICK h \in Nat \ {0}, w \in Nat \ {0} :
        /\ a.n_otr = h /\ a.n_otc = w /\ work_tiles(a) = h * w
  <2>1. PICK D : /\ IsMap(D) /\ a.n_otr = n_otr(D) /\ a.n_otc = n_otc(D)
                 /\ work_tiles(a) = out_tiles(D)
    BY <1>1, WriterMap
  <2>2. n_otr(D) \in Nat \ {0} /\ n_otc(D) \in Nat \ {0}
    BY <2>1, GridPositive DEF IsMap
  <2> QED BY <2>1, <2>2 DEF out_tiles
<1>4. PICK W \in Nat \ {0} : W = h * w
  OBVIOUS
<1>5. per_unit(a) \in Nat \ {0} /\ W % per_unit(a) = 0
  <2>1. CASE IsGlobal(a)
    <3>1. W % W = 0
      BY Multiples, 0 \in Nat
    <3> QED BY <1>3, <1>4, <2>1, <3>1 DEF per_unit
  <2>2. CASE ~IsGlobal(a) /\ IsRowOp(a)
    <3>1. (h * w) % w = 0
      BY Multiples
    <3> QED BY <1>3, <1>4, <2>2, <3>1 DEF per_unit
  <2>3. CASE ~IsGlobal(a) /\ ~IsRowOp(a) /\ HasGroup(a)
    <3>1. PICK x \in DOMAIN a.bcast : a.bcast[x] /\ op \in Eltwise
      BY <1>2, <2>3 DEF HasGroup
    <3>2. x \in DOMAIN call.views
      <4>1. DOMAIN a.bcast = 1 .. Walked(call) /\ DOMAIN call.views = 1 .. Len(call.views)
        BY <1>2, <3>1, InsFacts, Arity
      <4>2. Walked(call) = Len(call.views)
        BY <1>2, <3>1, OpNames DEF Walked
      <4> QED BY <3>1, <4>1, <4>2
    <3>3. a.tpg \in Nat \ {0} /\ out_tiles(EltwiseOut(call).desc) % a.tpg = 0
      BY <1>2, <3>1, <3>2, GroupDivides
    <3>4. out_tiles(EltwiseOut(call).desc) = W
      <4>1. a.n_otr = n_otr(EltwiseOut(call).desc) /\ a.n_otc = n_otc(EltwiseOut(call).desc)
        BY <1>2, <3>1, OpAttributes, EltwiseFields
      <4> QED BY <1>3, <1>4, <4>1 DEF out_tiles
    <3> QED BY <2>3, <3>3, <3>4 DEF per_unit
  <2>4. CASE ~IsGlobal(a) /\ ~IsRowOp(a) /\ ~HasGroup(a)
    <3>1. W = W * 1 + 0
      OBVIOUS
    <3>2. W % 1 = 0
      BY <3>1, DivModUnique
    <3> QED BY <2>4, <3>2 DEF per_unit
  <2> QED BY <2>1, <2>2, <2>3, <2>4
<1>6. W \div per_unit(a) \in Nat \ {0} /\ W = (W \div per_unit(a)) * per_unit(a)
  <2>1. PICK p \in Nat \ {0} : p = per_unit(a)
    BY <1>5
  <2> QED BY <1>5, <2>1, WholeQuotient
<1> QED BY <1>1, <1>3, <1>4, <1>5, <1>6 DEF Parts, units

-----------------------------------------------------------------------------
\* The cell of the result that a cell of the writer's grid is.
ResRow(R) == IF program.kernels.global THEN 0 ELSE R
ResCol(R, C) == IF program.kernels.global THEN R * TILE + C ELSE C
ResElement(r, c) == result.desc.base + MeantRow(r) * result.desc.S_row + c
Target(r, c) == PageElement(Acc(launched.out), ResElement(r, c), result.desc.Cs)

LEMMA MeantRowFacts ==
  ASSUME LaunchInv, launched # None, op \notin RowCopies
  PROVE  \A r \in Nat : /\ MeantRow(r) \in Nat
                        /\ \A s \in Nat : MeantRow(r) = MeantRow(s) => r = s
<1>1. /\ call \in Calls /\ 1 \in DOMAIN call.views
  BY LaunchedFacts, Arity DEF call
<1>2. PICK T : T = Tokens(call) /\ T \in Nat \ {0}
  BY <1>1, ViewsAssumption DEF Calls, InTensor, Tokens
<1>3. PICK P : P = padded(T) /\ P \in Nat \ {0} /\ T <= P
  BY <1>2, PaddedFacts
<1>4. CASE ~call.canonical
  BY <1>4 DEF MeantRow
<1>5. CASE call.canonical
  <2>1. \A r \in Nat : /\ r \div T \in Nat /\ r % T \in 0 .. T - 1
                       /\ r = (r \div T) * T + (r % T)
    BY <1>2, DivModNat
  <2>2. \A r : MeantRow(r) = P * (r \div T) + (r % T)
    BY <1>2, <1>3, <1>5 DEF MeantRow
  <2>3. ASSUME NEW r \in Nat
        PROVE  /\ MeantRow(r) \in Nat
               /\ r \div T = MeantRow(r) \div P /\ r % T = MeantRow(r) % P
    <3>5. r \div T \in Nat /\ r % T \in 0 .. T - 1
      BY <2>1
    <3>6. PICK q \in Nat : q = r \div T
      BY <3>5
    <3>7. PICK t \in Nat : t = r % T /\ t < T
      BY <1>2, <3>5
    <3>8. PICK m : m = MeantRow(r)
      OBVIOUS
    <3>1. /\ q = r \div T /\ t = r % T /\ t < T
          /\ m = MeantRow(r) /\ m = P * q + t
      BY <2>2, <3>6, <3>7, <3>8
    <3>2. m \in Nat /\ m = q * P + t /\ t < P
      BY <1>2, <1>3, <3>1
    <3>3. q = m \div P /\ t = m % P
      BY <1>3, <3>2, DivModUnique
    <3> QED BY <3>1, <3>2, <3>3
  <2>4. ASSUME NEW r \in Nat, NEW s \in Nat, MeantRow(r) = MeantRow(s) PROVE r = s
    <3>1. r \div T = s \div T /\ r % T = s % T
      BY <2>3, <2>4
    <3> QED BY <2>1, <3>1
  <2> QED BY <2>3, <2>4
<1> QED BY <1>4, <1>5

\* Cells of the writer's grid are cells of the result, one for one.
LEMMA ResultCell ==
  ASSUME LaunchInv, launched # None, op \notin RowCopies, NEW R \in Nat, NEW C \in Nat,
         Inside(launched.a.o, R, C)
  PROVE  /\ ResRow(R) \in 0 .. result.desc.Ro - 1 /\ ResCol(R, C) \in 0 .. result.desc.Co - 1
         /\ MapElement(launched.a.o, R, C) = ResElement(ResRow(R), ResCol(R, C))
         /\ \A Q \in Nat, B \in Nat :
              Inside(launched.a.o, Q, B) /\ ResRow(R) = ResRow(Q) /\ ResCol(R, C) = ResCol(Q, B)
                => R = Q /\ C = B
<1>1. PICK D, d : D = launched.a.o /\ d = result.desc
  OBVIOUS
<1>2. IsMap(D) /\ IsMap(d) /\ d \in Linear /\ D.Cs = d.Cs /\ D.base = d.base
  BY <1>1, WriterMap
<1>3. R < D.Ro /\ C < D.Co /\ d.Ro \in Nat /\ d.Co \in Nat
  BY <1>1, <1>2 DEF Inside, IsMap, NonEmpty
<1>4. CASE program.kernels.global
  <2>1. D = Folded(d) /\ d.Ro = 1 /\ d.Co % (TILE * TILE) = 0 /\ MeantRow(0) = 0
    BY <1>1, <1>4, WriterMap
  <2>2. /\ D.P = 0 /\ D.S_row = TILE /\ D.Co = TILE /\ D.Ro * TILE = d.Co /\ D.Ro \in Nat
    BY <1>2, <2>1, FoldedMap
  <2>3. TILE \in Nat \ {0}
    BY TileAssumption
  <2>4. R * TILE + C \in 0 .. d.Co - 1
    <3>1. PICK h \in Nat : h = D.Ro /\ R < h /\ h * TILE = d.Co /\ C < TILE
      BY <1>3, <2>2
    <3>2. (h - 1 - R) * TILE >= 0 /\ (h - 1 - R) * TILE = h * TILE - TILE - R * TILE
          /\ h * TILE \in Int /\ R * TILE \in Nat
      BY <2>3, <3>1, ProductNat, h - 1 - R \in Nat
    <3> QED BY <1>3, <2>3, <3>1, <3>2
  <2>5. MapElement(D, R, C) = d.base + R * TILE + C
    BY <1>2, <2>2 DEF MapElement, SourceRow
  <2>6. d.base \in Nat /\ d.S_row \in Nat /\ R * TILE \in Nat
    BY <1>2, <2>3, ProductNat DEF IsMap
  <2>7. d.base + 0 * d.S_row + (R * TILE + C) = d.base + R * TILE + C
    BY <2>6
  <2>8. ASSUME NEW Q \in Nat, NEW B \in Nat, Inside(D, Q, B), R * TILE + C = Q * TILE + B
        PROVE  R = Q /\ C = B
    <3>1. PICK e \in Nat : e = R * TILE + C
      BY <2>6
    <3>5. R \in Int /\ C \in Int /\ 0 <= C /\ C < TILE /\ e \in Int /\ e = R * TILE + C
      BY <1>3, <2>2, <3>1
    <3>2. R = e \div TILE /\ C = e % TILE
      BY <2>3, <3>5, DivModUnique
    <3>3. B < TILE /\ e = Q * TILE + B
      BY <2>2, <2>8, <3>1 DEF Inside
    <3>4. Q = e \div TILE /\ B = e % TILE
      BY <2>3, <3>3, DivModUnique
    <3> QED BY <3>2, <3>4
  <2> QED BY <1>1, <1>3, <1>4, <2>1, <2>4, <2>5, <2>7, <2>8 DEF ResRow, ResCol, ResElement
<1>5. CASE ~program.kernels.global
  <2>1. D.Ro = d.Ro /\ D.Co = d.Co /\ D.S_row = d.S_row /\ SourceRow(D, R) = MeantRow(R)
    BY <1>1, <1>5, WriterMap
  <2>2. MapElement(D, R, C) = d.base + MeantRow(R) * d.S_row + C
    BY <1>2, <2>1 DEF MapElement
  <2> QED BY <1>1, <1>3, <1>5, <2>1, <2>2 DEF ResRow, ResCol, ResElement
<1> QED BY <1>4, <1>5

LEMMA ResultCovered ==
  ASSUME LaunchInv, launched # None, op \notin RowCopies,
         NEW r \in 0 .. result.desc.Ro - 1, NEW c \in 0 .. result.desc.Co - 1
  PROVE  \E R \in Nat, C \in Nat :
           Inside(launched.a.o, R, C) /\ r = ResRow(R) /\ c = ResCol(R, C)
<1>1. PICK D, d : D = launched.a.o /\ d = result.desc
  OBVIOUS
<1>2. IsMap(d) /\ d \in Linear /\ d.Ro \in Nat /\ d.Co \in Nat
  BY <1>1, WriterMap DEF IsMap, NonEmpty
<1>3. CASE program.kernels.global
  <2>1. D = Folded(d) /\ d.Ro = 1 /\ d.Co % (TILE * TILE) = 0
    BY <1>1, <1>3, WriterMap
  <2>2. D.Co = TILE /\ D.Ro * TILE = d.Co /\ D.Ro \in Nat
    BY <1>2, <2>1, FoldedMap
  <2>3. TILE \in Nat \ {0} /\ c \in Nat /\ c < d.Co
    BY <1>1, <1>2, TileAssumption
  <2>4. c \div TILE \in Nat /\ c = (c \div TILE) * TILE + (c % TILE) /\ c % TILE \in 0 .. TILE - 1
    BY <2>3, DivModNat
  <2>5. c \div TILE < D.Ro
    BY <2>2, <2>3, QuotientBound
  <2>6. r = 0
    BY <1>1, <2>1
  <2>7. PICK R \in Nat, C \in Nat : R < D.Ro /\ C < TILE /\ c = R * TILE + C
    BY <2>3, <2>4, <2>5
  <2> QED BY <1>1, <1>3, <2>2, <2>6, <2>7 DEF Inside, ResRow, ResCol
<1>4. CASE ~program.kernels.global
  <2>1. D.Ro = d.Ro /\ D.Co = d.Co
    BY <1>1, <1>4, WriterMap
  <2>2. r \in Nat /\ c \in Nat /\ Inside(D, r, c)
    BY <1>1, <1>2, <2>1 DEF Inside
  <2> QED BY <1>1, <1>4, <2>2 DEF ResRow, ResCol
<1> QED BY <1>3, <1>4

\* No two elements of a result lie at the same place of a page.
LEMMA TargetsApart ==
  ASSUME LaunchInv, launched # None, op \notin RowCopies,
         NEW r \in 0 .. result.desc.Ro - 1, NEW c \in 0 .. result.desc.Co - 1,
         NEW s \in 0 .. result.desc.Ro - 1, NEW b \in 0 .. result.desc.Co - 1,
         Target(r, c) = Target(s, b)
  PROVE  r = s /\ c = b
<1>1. PICK d : d = result.desc
  OBVIOUS
<1>2. /\ IsMap(d) /\ d \in Linear /\ d.Ro \in Nat \ {0} /\ d.Co \in Nat /\ d.S_row \in Nat
      /\ d.base \in Nat /\ d.Cs \in Nat \ {0} /\ d.Cs % TILE = 0 /\ TILE \in Nat \ {0}
      /\ d.Ro > 1 => d.Co <= d.S_row
  BY <1>1, LaunchedFacts, ResultShape, TileAssumption DEF IsMap, NonEmpty, result, call
<1>3. PICK m \in Nat, n \in Nat : m = MeantRow(r) /\ n = MeantRow(s) /\ (m = n => r = s)
  BY <1>1, <1>2, MeantRowFacts
<1>4. PICK e, f : e = ResElement(r, c) /\ f = ResElement(s, b)
  OBVIOUS
<1>5. e = d.base + m * d.S_row + c /\ f = d.base + n * d.S_row + b
  BY <1>1, <1>3, <1>4 DEF ResElement
<1>6. e \in Nat /\ f \in Nat
  <2>1. m * d.S_row \in Nat /\ n * d.S_row \in Nat /\ c \in Nat /\ b \in Nat
    BY <1>1, <1>2, <1>3, ProductNat
  <2> QED BY <1>2, <1>5, <2>1
<1>7. PICK S \in Nat \ {0} : S = d.Cs /\ S % TILE = 0
  BY <1>2
<1>8. /\ PageNumber(e, S, TILE) = PageNumber(f, S, TILE)
      /\ (e \div S) % TILE = (f \div S) % TILE /\ (e % S) % TILE = (f % S) % TILE
  <2>1. PageElement(Acc(launched.out), e, S) = PageElement(Acc(launched.out), f, S)
    BY <1>1, <1>4, <1>7 DEF Target
  <2> QED BY <2>1 DEF PageElement, InPage
<1>9. e = f
  BY <1>2, <1>6, <1>7, <1>8, PlaceUnique
<1>10. CASE d.Ro = 1
  <2>1. r = 0 /\ s = 0
    BY <1>1, <1>10
  <2>2. m = n
    BY <1>3, <2>1
  <2> QED BY <1>1, <1>2, <1>3, <1>5, <1>9, <2>1, <2>2, n * d.S_row \in Int
<1>11. CASE d.Ro # 1
  <2>1. PICK w \in Nat \ {0} : w = d.S_row /\ c < w /\ b < w
    BY <1>1, <1>2, <1>11
  <2>2. PICK g \in Int : g = e - d.base
    BY <1>2, <1>6
  <2>3. g = m * w + c /\ g = n * w + b
    BY <1>2, <1>5, <1>9, <2>1, <2>2, m * w \in Int, n * w \in Int
  <2>6. m \in Int /\ n \in Int /\ c \in Int /\ b \in Int /\ 0 <= c /\ 0 <= b
    OBVIOUS
  <2>4. m = g \div w /\ c = g % w
    <3>1. g = m * w + c /\ 0 <= c /\ c < w
      BY <2>1, <2>3, <2>6
    <3> QED BY <2>6, <3>1, DivModUnique
  <2>5. n = g \div w /\ b = g % w
    <3>1. g = n * w + b /\ 0 <= b /\ b < w
      BY <2>1, <2>3, <2>6
    <3> QED BY <2>6, <3>1, DivModUnique
  <2> QED BY <1>3, <2>4, <2>5
<1> QED BY <1>10, <1>11

-----------------------------------------------------------------------------
(***************************************************************************)
(* Each element of the result is stored by exactly one cell.               *)
(***************************************************************************)
CellRow(k, n, i) == TileRow(launched.a.o, First(launched.a, k) + n, i)
CellCol(k, n, j) == TileCol(launched.a.o, First(launched.a, k) + n, j)
StoreRow(s) == ResRow(CellRow(s[1], s[2], s[3]))
StoreCol(s) == ResCol(CellRow(s[1], s[2], s[3]), CellCol(s[1], s[2], s[4]))
Cells == 0 .. TILE - 1

LEMMA CoreTile ==
  ASSUME LaunchInv, launched # None, op \notin RowCopies, NEW k \in Running
  PROVE  /\ k \in Cores /\ First(launched.a, k) \in Nat /\ Count(launched.a, k) \in Nat
         /\ writer_tiles(k) = Count(launched.a, k)
         /\ \A n \in 0 .. Count(launched.a, k) - 1 :
              /\ First(launched.a, k) + n \in Nat
              /\ First(launched.a, k) + n < out_tiles(launched.a.o)
<1> DEFINE a == launched.a
<1>1. k \in Cores
  BY LaunchedFacts DEF AllCores
<1>2. Parts(a) /\ work_tiles(a) = out_tiles(a.o)
  BY LaunchParts, WriterMap
<1>3. First(a, k) \in Nat /\ Count(a, k) \in Nat /\ First(a, k) + Count(a, k) <= work_tiles(a)
  BY <1>1, <1>2, CoreTiles
<1>4. work_tiles(a) \in Nat
  <2>1. IsMap(a.o)
    BY WriterMap
  <2> QED BY <1>2, <2>1, GridPositive DEF IsMap
<1>5. writer_tiles(k) = Count(a, k)
  BY WriterWalks
<1> QED BY <1>1, <1>2, <1>3, <1>4, <1>5

LEMMA StoreParts ==
  ASSUME LaunchInv, launched # None, op \notin RowCopies
  PROVE  /\ \A s \in Stores :
              /\ s[1] \in Running /\ s[2] \in 0 .. Count(launched.a, s[1]) - 1
              /\ s[3] \in Cells /\ s[4] \in Cells /\ s = <<s[1], s[2], s[3], s[4]>>
         /\ \A k \in Running : \A n \in 0 .. Count(launched.a, k) - 1 : \A i, j \in Cells :
              <<k, n, i, j>> \in Stores
<1>1. \A k \in Running : writer_tiles(k) = Count(launched.a, k)
  BY CoreTile
<1>2. ASSUME NEW s \in Stores
      PROVE  /\ s[1] \in Running /\ s[2] \in 0 .. Count(launched.a, s[1]) - 1
             /\ s[3] \in Cells /\ s[4] \in Cells /\ s = <<s[1], s[2], s[3], s[4]>>
  <2>1. PICK k \in Running : s \in {<<k, n, i, j>> : n \in 0 .. writer_tiles(k) - 1,
                                                     i \in 0 .. TILE - 1, j \in 0 .. TILE - 1}
    BY DEF Stores
  <2>2. PICK n \in 0 .. writer_tiles(k) - 1, i \in 0 .. TILE - 1, j \in 0 .. TILE - 1 :
          s = <<k, n, i, j>>
    BY <2>1
  <2> QED BY <1>1, <2>2 DEF Cells
<1>3. ASSUME NEW k \in Running, NEW n \in 0 .. Count(launched.a, k) - 1,
             NEW i \in Cells, NEW j \in Cells
      PROVE  <<k, n, i, j>> \in Stores
  <2>1. n \in 0 .. writer_tiles(k) - 1
    BY <1>1
  <2> QED BY <2>1 DEF Stores, Cells
<1> QED BY <1>2, <1>3

\* A place in a page is not Zero.
LEMMA PlaceNotZero ==
  ASSUME NEW acc \in STRING \X Nat, NEW S \in Nat \ {0}, S % TILE = 0, NEW e \in Nat
  PROVE  PageElement(acc, e, S) # Zero
<1>1. TILE \in Nat \ {0}
  BY TileAssumption
<1>2. PageNumber(e, S, TILE) \in Nat
  BY <1>1, ElementSplit
<1>3. (e \div S) % TILE \in Nat /\ (e % S) % TILE \in Nat
  <2>1. e \div S \in Nat /\ e % S \in Nat
    <3>1. e \div S \in Nat /\ e % S \in 0 .. S - 1
      BY QuotientNat
    <3> QED BY <3>1
  <2>2. PICK p \in Nat, q \in Nat : p = e \div S /\ q = e % S
    BY <2>1
  <2>3. p % TILE \in 0 .. TILE - 1 /\ q % TILE \in 0 .. TILE - 1
    BY <1>1, <2>2, QuotientNat
  <2> QED BY <1>1, <2>2, <2>3
<1> QED BY <1>2, <1>3, ZeroAssumption DEF PageElement, InPage

LEMMA StoreTarget ==
  ASSUME LaunchInv, launched # None, op \notin RowCopies, NEW s \in Stores
  PROVE  LET R == CellRow(s[1], s[2], s[3])
             C == CellCol(s[1], s[2], s[4])
         IN  /\ R \in Nat /\ C \in Nat
             /\ s \in LiveStores <=> Inside(launched.a.o, R, C)
             /\ s \in LiveStores =>
                  Fetch(OutView(s[1]), OutView(s[1]).t0 + s[2], s[3], s[4])
                    = Target(StoreRow(s), StoreCol(s))
<1>1. PICK k, n, i, j : k = s[1] /\ n = s[2] /\ i = s[3] /\ j = s[4]
  OBVIOUS
<1>2. k \in Running /\ n \in 0 .. Count(launched.a, k) - 1 /\ i \in 0 .. TILE - 1 /\ j \in 0 .. TILE - 1
  BY <1>1, StoreParts DEF Cells
<1>3. PICK D, d : D = launched.a.o /\ d = result.desc
  OBVIOUS
<1>4. IsMap(D) /\ D.Cs = d.Cs
  BY <1>3, WriterMap
<1>5. PICK u \in Nat : u = First(launched.a, k) + n /\ u < out_tiles(D)
  BY <1>2, <1>3, CoreTile
<1>6. Walks(OutView(k), D, First(launched.a, k), Acc(launched.out))
  BY <1>2, <1>3, WriterWalks
<1>7. OutView(k).t0 + n = u
  BY <1>5, <1>6 DEF Walks
<1>8. PICK R, C : R = TileRow(D, u, i) /\ C = TileCol(D, u, j)
  OBVIOUS
<1>9. R = CellRow(k, n, i) /\ C = CellCol(k, n, j)
  BY <1>3, <1>5, <1>8 DEF CellRow, CellCol
<1>10. R \in Nat /\ C \in Nat
  BY <1>2, <1>4, <1>5, <1>8, CellNat
<1>11. PICK f : f = Fetch(OutView(k), u, i, j)
  OBVIOUS
<1>12. /\ Inside(D, R, C) => f = PageElement(Acc(launched.out), MapElement(D, R, C), D.Cs)
       /\ ~Inside(D, R, C) => f = Zero
  BY <1>2, <1>4, <1>5, <1>6, <1>8, <1>11, MapFetch
<1>13. Inside(D, R, C) => f # Zero /\ f = Target(ResRow(R), ResCol(R, C))
  <2> SUFFICES ASSUME Inside(D, R, C) PROVE f # Zero /\ f = Target(ResRow(R), ResCol(R, C))
    OBVIOUS
  <2>1. PICK e : e = MapElement(D, R, C)
    OBVIOUS
  <2>2. e \in Nat
    BY <1>4, <1>10, <2>1, SourceRowNat
  <2>3. e = ResElement(ResRow(R), ResCol(R, C))
    BY <1>3, <1>10, <2>1, ResultCell
  <2>4. f = PageElement(Acc(launched.out), e, D.Cs)
    BY <1>12, <2>1
  <2>5. Acc(launched.out) \in STRING \X Nat
    BY LaunchedResult
  <2>6. f # Zero
    BY <1>4, <2>2, <2>4, <2>5, PlaceNotZero DEF IsMap
  <2>7. f = Target(ResRow(R), ResCol(R, C))
    BY <1>3, <1>4, <2>3, <2>4 DEF Target
  <2> QED BY <2>6, <2>7
<1>14. s \in LiveStores <=> f # Zero
  BY <1>1, <1>7, <1>11 DEF LiveStores
<1>15. f = Fetch(OutView(s[1]), OutView(s[1]).t0 + s[2], s[3], s[4])
  BY <1>1, <1>7, <1>11
<1>16. StoreRow(s) = ResRow(R) /\ StoreCol(s) = ResCol(R, C)
  BY <1>1, <1>9 DEF StoreRow, StoreCol
<1> QED BY <1>1, <1>3, <1>9, <1>10, <1>12, <1>13, <1>14, <1>15, <1>16

LEMMA StoreInResult ==
  ASSUME LaunchInv, launched # None, op \notin RowCopies, NEW s \in LiveStores
  PROVE  StoreRow(s) \in 0 .. result.desc.Ro - 1 /\ StoreCol(s) \in 0 .. result.desc.Co - 1
<1>1. s \in Stores
  BY DEF LiveStores
<1>2. PICK R \in Nat : R = CellRow(s[1], s[2], s[3])
  BY <1>1, StoreTarget
<1>3. PICK C \in Nat : C = CellCol(s[1], s[2], s[4])
  BY <1>1, StoreTarget
<1>4. Inside(launched.a.o, R, C)
  BY <1>1, <1>2, <1>3, StoreTarget
<1> QED BY <1>2, <1>3, <1>4, ResultCell DEF StoreRow, StoreCol

LEMMA StoresApart ==
  ASSUME LaunchInv, launched # None, op \notin RowCopies, NEW s \in LiveStores, NEW t \in LiveStores,
         StoreRow(s) = StoreRow(t), StoreCol(s) = StoreCol(t)
  PROVE  s = t
<1>1. s \in Stores /\ t \in Stores
  BY DEF LiveStores
<1>2. PICK D : D = launched.a.o
  OBVIOUS
<1>3. PICK k, n, i, j : k = s[1] /\ n = s[2] /\ i = s[3] /\ j = s[4]
  OBVIOUS
<1>4. PICK l, m, x, y : l = t[1] /\ m = t[2] /\ x = t[3] /\ y = t[4]
  OBVIOUS
<1>5. /\ k \in Running /\ n \in 0 .. Count(launched.a, k) - 1 /\ i \in 0 .. TILE - 1 /\ j \in 0 .. TILE - 1
      /\ l \in Running /\ m \in 0 .. Count(launched.a, l) - 1 /\ x \in 0 .. TILE - 1 /\ y \in 0 .. TILE - 1
      /\ s = <<k, n, i, j>> /\ t = <<l, m, x, y>>
  BY <1>1, <1>3, <1>4, StoreParts DEF Cells
<1>6. /\ CellRow(k, n, i) \in Nat /\ CellCol(k, n, j) \in Nat
      /\ Inside(D, CellRow(k, n, i), CellCol(k, n, j))
  BY <1>1, <1>2, <1>3, StoreTarget
<1>7. /\ CellRow(l, m, x) \in Nat /\ CellCol(l, m, y) \in Nat
      /\ Inside(D, CellRow(l, m, x), CellCol(l, m, y))
  BY <1>1, <1>2, <1>4, StoreTarget
<1>8. CellRow(k, n, i) = CellRow(l, m, x) /\ CellCol(k, n, j) = CellCol(l, m, y)
  <2>1. /\ ResRow(CellRow(k, n, i)) = ResRow(CellRow(l, m, x))
        /\ ResCol(CellRow(k, n, i), CellCol(k, n, j)) = ResCol(CellRow(l, m, x), CellCol(l, m, y))
    BY <1>3, <1>4 DEF StoreRow, StoreCol
  <2> QED BY <1>2, <1>6, <1>7, <2>1, ResultCell
<1>9. IsMap(D)
  BY <1>2, WriterMap
<1>10. PICK u \in Nat : u = First(launched.a, k) + n
  BY <1>5, CoreTile
<1>11. PICK v \in Nat : v = First(launched.a, l) + m
  BY <1>5, CoreTile
<1>12. TileRow(D, u, i) = TileRow(D, v, x) /\ TileCol(D, u, j) = TileCol(D, v, y)
  BY <1>2, <1>8, <1>10, <1>11 DEF CellRow, CellCol
<1>13. PICK w \in Nat \ {0} : w = n_otc(D)
  BY <1>5, <1>9, <1>10, CellNat
<1>14. /\ TileRow(D, u, i) \div TILE = u \div w /\ TileRow(D, u, i) % TILE = i
       /\ TileCol(D, u, j) \div TILE = u % w /\ TileCol(D, u, j) % TILE = j
  <2>1. /\ TileRow(D, u, i) \div TILE = u \div n_otc(D) /\ TileRow(D, u, i) % TILE = i
        /\ TileCol(D, u, j) \div TILE = u % n_otc(D) /\ TileCol(D, u, j) % TILE = j
    BY <1>5, <1>9, <1>10, CellNat
  <2> QED BY <1>13, <2>1
<1>15. /\ TileRow(D, v, x) \div TILE = v \div w /\ TileRow(D, v, x) % TILE = x
       /\ TileCol(D, v, y) \div TILE = v % w /\ TileCol(D, v, y) % TILE = y
  <2>1. /\ TileRow(D, v, x) \div TILE = v \div n_otc(D) /\ TileRow(D, v, x) % TILE = x
        /\ TileCol(D, v, y) \div TILE = v % n_otc(D) /\ TileCol(D, v, y) % TILE = y
    BY <1>5, <1>9, <1>11, CellNat
  <2> QED BY <1>13, <2>1
<1>16. i = x /\ j = y /\ u \div w = v \div w /\ u % w = v % w
  BY <1>12, <1>14, <1>15
<1>17. u = (u \div w) * w + (u % w) /\ v = (v \div w) * w + (v % w)
  BY DivModNat
<1>18. u = v
  BY <1>16, <1>17
<1>19. k \in Cores /\ l \in Cores
  BY <1>5, CoreTile
<1>20. k = l /\ n = m
  BY <1>5, <1>10, <1>11, <1>18, <1>19, LaunchParts, CoreTiles
<1> QED BY <1>5, <1>16, <1>20

LEMMA StoresCover ==
  ASSUME LaunchInv, launched # None, op \notin RowCopies,
         NEW r \in 0 .. result.desc.Ro - 1, NEW c \in 0 .. result.desc.Co - 1
  PROVE  \E s \in LiveStores : r = StoreRow(s) /\ c = StoreCol(s)
<1>1. PICK D : D = launched.a.o
  OBVIOUS
<1>2. PICK R \in Nat, C \in Nat : Inside(D, R, C) /\ r = ResRow(R) /\ c = ResCol(R, C)
  BY <1>1, ResultCovered
<1>3. IsMap(D) /\ TILE \in Nat \ {0} /\ work_tiles(launched.a) = out_tiles(D)
  BY <1>1, WriterMap, TileAssumption
<1>4. PICK h \in Nat \ {0}, w \in Nat \ {0} :
        /\ h = n_otr(D) /\ w = n_otc(D) /\ out_tiles(D) = h * w
        /\ D.Ro <= h * TILE /\ D.Co <= w * TILE
  <2>1. n_otr(D) \in Nat \ {0} /\ n_otc(D) \in Nat \ {0}
    BY <1>3, GridPositive DEF IsMap
  <2>2. D.Ro <= padded(D.Ro) /\ D.Co <= padded(D.Co)
    BY <1>3, PaddedFacts DEF IsMap, NonEmpty
  <2> QED BY <2>1, <2>2 DEF out_tiles, n_otr, n_otc, padded
<1>5. PICK q \in Nat, i \in 0 .. TILE - 1 : R = q * TILE + i
  BY <1>3, DivModNat
<1>6. PICK p \in Nat, j \in 0 .. TILE - 1 : C = p * TILE + j
  BY <1>3, DivModNat
<1>7. q < h /\ p < w
  <2>1. R < h * TILE /\ C < w * TILE
    BY <1>2, <1>3, <1>4 DEF Inside, IsMap, NonEmpty
  <2>2. R \div TILE = q /\ C \div TILE = p
    BY <1>3, <1>5, <1>6, DivModUnique
  <2>3. R \div TILE < h /\ C \div TILE < w
    BY <1>3, <2>1, QuotientBound
  <2> QED BY <2>2, <2>3
<1>8. PICK u \in Nat : u = q * w + p /\ u < h * w
  <2>1. q * w \in Nat /\ (h - 1 - q) * w >= 0 /\ (h - 1 - q) * w = h * w - w - q * w /\ h * w \in Nat
    BY <1>7, ProductNat, h - 1 - q \in Nat
  <2> QED BY <1>7, <2>1
<1>9. u \div w = q /\ u % w = p
  BY <1>7, <1>8, DivModUnique
<1>10. R = TileRow(D, u, i) /\ C = TileCol(D, u, j)
  BY <1>4, <1>5, <1>6, <1>9 DEF TileRow, TileCol
<1>11. PICK k \in AllCores(launched.a) : \E n \in 0 .. Count(launched.a, k) - 1 :
         u = First(launched.a, k) + n
  <2>1. u \in 0 .. work_tiles(launched.a) - 1
    BY <1>3, <1>4, <1>8
  <2> QED BY <2>1, LaunchParts, CoreTiles
<1>12. PICK n \in 0 .. Count(launched.a, k) - 1 : u = First(launched.a, k) + n
  BY <1>11
<1>13. k \in Running
  BY LaunchedFacts
<1>14. PICK s : s = <<k, n, i, j>>
  OBVIOUS
<1>15. s \in Stores
  BY <1>12, <1>13, <1>14, StoreParts DEF Cells
<1>16. CellRow(s[1], s[2], s[3]) = R /\ CellCol(s[1], s[2], s[4]) = C
  BY <1>1, <1>10, <1>12, <1>14 DEF CellRow, CellCol
<1>17. s \in LiveStores
  BY <1>1, <1>2, <1>15, <1>16, StoreTarget
<1> QED BY <1>2, <1>16, <1>17 DEF StoreRow, StoreCol

-----------------------------------------------------------------------------
\* What is meant for one element of the result, and a launch that is fed so.
Over(r, c) ==
  IF RowOp \/ program.kernels.global
  THEN {MeantOf(r, b) : b \in 0 .. result.desc.Co - 1} ELSE {MeantOf(r, c)}
MeantCell(r, c) == [to |-> Target(r, c), of |-> MeantOf(r, c), over |-> Over(r, c)]
MadeOver(s) ==
  {m \in {MadeAt(s[1], c[1], c[2], c[3]) : c \in Reduced(s[1], s[2], s[3], s[4])} : m[1] # Zero}
FedRight ==
  \A s \in LiveStores : /\ MadeAt(s[1], s[2], s[3], s[4]) = MeantOf(StoreRow(s), StoreCol(s))
                        /\ MadeOver(s) = Over(StoreRow(s), StoreCol(s))

LEMMA PlacedElement ==
  ASSUME NEW t, NEW e
  PROVE  PlacedIn(t, e) = PageElement(Acc(t), e, t.spec.Cs)
BY DEF PlacedIn, PageElement, PageNumber, Acc

LEMMA MeantCells ==
  ASSUME LaunchInv, launched # None, op \notin RowCopies
  PROVE  MeantStores = {MeantCell(r, c) : r \in 0 .. result.desc.Ro - 1, c \in 0 .. result.desc.Co - 1}
<1> DEFINE d == result.desc
           to(r, c) == PlacedIn(ResultAt, d.base + MeantRow(r) * d.S_row + c)
           over(r, c) == IF RowOp \/ program.kernels.global
                         THEN {MeantOf(r, b) : b \in 0 .. d.Co - 1} ELSE {MeantOf(r, c)}
           Cell(r, c) == [to |-> to(r, c), of |-> MeantOf(r, c), over |-> over(r, c)]
<1>1. MeantStores = {Cell(r, c) : r \in 0 .. d.Ro - 1, c \in 0 .. d.Co - 1}
  BY DEF MeantStores
<1>2. ASSUME NEW r, NEW c PROVE to(r, c) = Target(r, c)
  <2>1. PICK e : e = d.base + MeantRow(r) * d.S_row + c
    OBVIOUS
  <2>2. PlacedIn(ResultAt, e) = PageElement(Acc(ResultAt), e, ResultAt.spec.Cs)
    BY PlacedElement
  <2>3. Acc(ResultAt) = Acc(launched.out) /\ ResultAt.spec.Cs = d.Cs
    BY LaunchedResult
  <2>4. Target(r, c) = PageElement(Acc(launched.out), e, d.Cs)
    BY <2>1 DEF Target, ResElement
  <2> QED BY <2>1, <2>2, <2>3, <2>4
<1>3. ASSUME NEW r, NEW c PROVE over(r, c) = Over(r, c)
  BY DEF Over
<1> HIDE DEF to, over
<1>4. \A r, c : Cell(r, c) = MeantCell(r, c)
  BY <1>2, <1>3 DEF MeantCell
<1> HIDE DEF Cell
<1> QED BY <1>1, <1>4

\* A launch that is fed right stores what is meant, each element once.
LEMMA StoresDeliver ==
  ASSUME LaunchInv, launched # None, op \notin RowCopies, FedRight
  PROVE  Stored = MeantStores /\ Cardinality(LiveStores) = Cardinality(MeantStores)
<1> DEFINE Rows == 0 .. result.desc.Ro - 1
           Cols == 0 .. result.desc.Co - 1
           to(s) == Fetch(OutView(s[1]), OutView(s[1]).t0 + s[2], s[3], s[4])
           Entry(s) == [to |-> to(s), of |-> MadeAt(s[1], s[2], s[3], s[4]), over |-> MadeOver(s)]
<1>1. Stored = {Entry(s) : s \in LiveStores}
  BY DEF Stored, MadeOver
<1>2. MeantStores = {MeantCell(r, c) : r \in Rows, c \in Cols}
  BY MeantCells
<1>3. ASSUME NEW s \in LiveStores
      PROVE  /\ StoreRow(s) \in Rows /\ StoreCol(s) \in Cols
             /\ Entry(s) = MeantCell(StoreRow(s), StoreCol(s))
  <2>1. StoreRow(s) \in Rows /\ StoreCol(s) \in Cols
    BY StoreInResult
  <2>2. to(s) = Target(StoreRow(s), StoreCol(s))
    <3>1. s \in Stores
      BY DEF LiveStores
    <3> QED BY <3>1, StoreTarget
  <2>3. /\ MadeAt(s[1], s[2], s[3], s[4]) = MeantOf(StoreRow(s), StoreCol(s))
        /\ MadeOver(s) = Over(StoreRow(s), StoreCol(s))
    BY DEF FedRight
  <2> HIDE DEF to
  <2> QED BY <2>1, <2>2, <2>3 DEF MeantCell
<1>4. \A r \in Rows, c \in Cols : \E s \in LiveStores : r = StoreRow(s) /\ c = StoreCol(s)
  BY StoresCover
<1>5. \A s, t \in LiveStores : StoreRow(s) = StoreRow(t) /\ StoreCol(s) = StoreCol(t) => s = t
  BY StoresApart
<1>6. \A r, s \in Rows : \A c, b \in Cols : MeantCell(r, c) = MeantCell(s, b) => r = s /\ c = b
  <2> SUFFICES ASSUME NEW r \in Rows, NEW s \in Rows, NEW c \in Cols, NEW b \in Cols,
                      MeantCell(r, c) = MeantCell(s, b)
               PROVE  r = s /\ c = b
    OBVIOUS
  <2>1. Target(r, c) = Target(s, b)
    BY DEF MeantCell
  <2> QED BY <2>1, TargetsApart
<1>7. IsFiniteSet(Rows) /\ IsFiniteSet(Cols)
  <2>1. IsMap(result.desc)
    BY WriterMap
  <2>2. result.desc.Ro - 1 \in Int /\ result.desc.Co - 1 \in Int /\ 0 \in Int
    BY <2>1 DEF IsMap, NonEmpty
  <2> QED BY <2>2, FS_Interval
<1> HIDE DEF Rows, Cols, Entry
<1>8. Stored = MeantStores
  <2>1. ASSUME NEW m \in Stored PROVE m \in MeantStores
    BY <1>1, <1>2, <1>3
  <2>2. ASSUME NEW m \in MeantStores PROVE m \in Stored
    <3>1. PICK r \in Rows, c \in Cols : m = MeantCell(r, c)
      BY <1>2
    <3>2. PICK s \in LiveStores : r = StoreRow(s) /\ c = StoreCol(s)
      BY <1>4
    <3> QED BY <1>1, <1>3, <3>1, <3>2
  <2> QED BY <2>1, <2>2
<1>9. IsFiniteSet(Rows \X Cols)
  BY <1>7, FS_Product
<1> DEFINE P == Rows \X Cols
           f == [s \in LiveStores |-> <<StoreRow(s), StoreCol(s)>>]
           g == [p \in P |-> MeantCell(p[1], p[2])]
<1>10. f \in Bijection(LiveStores, P)
  <2>1. f \in [LiveStores -> P]
    BY <1>3
  <2>2. \A s, t \in LiveStores : f[s] = f[t] => s = t
    BY <1>5
  <2>3. \A p \in P : \E s \in LiveStores : f[s] = p
    BY <1>4
  <2> HIDE DEF f, P
  <2> QED BY <2>1, <2>2, <2>3, Fun_IsBij
<1>11. g \in Bijection(P, MeantStores)
  <2>1. g \in [P -> MeantStores]
    BY <1>2
  <2>2. \A p, q \in P : g[p] = g[q] => p = q
    <3> SUFFICES ASSUME NEW p \in P, NEW q \in P, g[p] = g[q] PROVE p = q
      OBVIOUS
    <3>1. PICK r \in Rows, c \in Cols : p = <<r, c>>
      OBVIOUS
    <3>2. PICK s \in Rows, b \in Cols : q = <<s, b>>
      OBVIOUS
    <3>3. MeantCell(r, c) = MeantCell(s, b)
      BY <3>1, <3>2
    <3> QED BY <1>6, <3>1, <3>2, <3>3
  <2>3. \A m \in MeantStores : \E p \in P : g[p] = m
    <3> SUFFICES ASSUME NEW m \in MeantStores PROVE \E p \in P : g[p] = m
      OBVIOUS
    <3>1. PICK r \in Rows, c \in Cols : m = MeantCell(r, c)
      BY <1>2
    <3>2. <<r, c>> \in P /\ g[<<r, c>>] = m
      BY <3>1
    <3> QED BY <3>2
  <2> HIDE DEF g, P
  <2> QED BY <2>1, <2>2, <2>3, Fun_IsBij
<1> HIDE DEF f, g, P
<1>12. Cardinality(LiveStores) = Cardinality(P)
  <2>1. f \in Injection(LiveStores, P) /\ f \in Surjection(LiveStores, P)
    BY <1>10 DEF Bijection
  <2> QED BY <1>9, <2>1, FS_Injection DEF P
<1>13. Cardinality(MeantStores) = Cardinality(P)
  BY <1>9, <1>11, FS_Bijection DEF ExistsBijection, P
<1> QED BY <1>8, <1>12, <1>13

-----------------------------------------------------------------------------
(***************************************************************************)
(* The operand side: a cell inside the result is made of the elements that *)
(* are meant, one outside it, in an op that reduces, of nothing.           *)
(***************************************************************************)
CellsRight ==
  \A k \in Running : \A n \in 0 .. Count(launched.a, k) - 1 : \A i, j \in Cells :
    LET R == CellRow(k, n, i)
        C == CellCol(k, n, j)
    IN  /\ Inside(launched.a.o, R, C) => MadeAt(k, n, i, j) = MeantOf(ResRow(R), ResCol(R, C))
        /\ ~Inside(launched.a.o, R, C) /\ (RowOp \/ program.kernels.global)
             => MadeAt(k, n, i, j)[1] = Zero

\* The tensor that holds an operand.
LEMMA OperandHeld ==
  ASSUME LaunchInv, launched # None, op \notin RowCopies, NEW x \in DOMAIN call.views
  PROVE  /\ x \in DOMAIN launched.ins /\ launched.ins[x].addr \in Nat
         /\ launched.ins[x].spec = spec(call.views[x])
         /\ InTensor(call.views[x]) /\ NonEmpty(call.views[x].desc)
<1> DEFINE v == call.views[x]
<1>1. /\ call \in Calls /\ Lowers(call) /\ call.op = op /\ launched.call = call
      /\ DOMAIN launched.ins = 1 .. (IF call.op \in Norms THEN 3 ELSE Len(call.views))
  BY LaunchedFacts DEF call
<1>2. DOMAIN call.views = 1 .. Len(call.views) /\ (op \in Norms => Len(call.views) \in 1 .. 3)
  BY <1>1, Arity
<1>3. x \in DOMAIN launched.ins
  <2>1. CASE op \in Norms
    <3>1. DOMAIN launched.ins = 1 .. 3
      BY <1>1, <2>1
    <3>2. PICK L \in 1 .. 3 : L = Len(call.views) /\ DOMAIN call.views = 1 .. L
      BY <1>2, <2>1
    <3>3. x \in 1 .. L
      BY <3>2
    <3>4. x \in 1 .. 3
      BY <3>3
    <3> QED BY <3>1, <3>4
  <2>2. CASE op \notin Norms
    BY <1>1, <1>2, <2>2
  <2> QED BY <2>1, <2>2
<1>4. tensor_arg(call, x) = x
  <2>1. CASE op # "rms_norm"
    BY <1>1, <2>1 DEF tensor_arg
  <2>2. CASE op = "rms_norm"
    <3>1. NormLowers(call, Descs(call), Out(call).desc)
      BY <1>1, <2>2, OpNames DEF Lowers, Norms, Eltwise, Binary, Elementwise3, RowCopies
    <3>2. Len(call.views) - 1 \in {0, 1}
      BY <1>1, <2>2, <3>1 DEF NormLowers, MayTake, Affine
    <3>3. x < 3
      <4>1. PICK L \in 1 .. 3 : L = Len(call.views) /\ DOMAIN call.views = 1 .. L
        BY <1>2, <2>2 DEF Norms
      <4>2. x \in 1 .. L /\ L - 1 \in {0, 1}
        BY <3>2, <4>1
      <4> QED BY <4>2
    <3> QED BY <3>3 DEF tensor_arg
  <2> QED BY <2>1, <2>2
<1>5. launched.ins[x].addr \in Nat /\ launched.ins[x].spec = spec(v)
  BY <1>1, <1>3, <1>4, LaunchedTensors
<1>6. InTensor(v) /\ NonEmpty(v.desc)
  BY <1>1, ViewsAssumption, OperandsAssumption DEF Calls
<1> QED BY <1>3, <1>5, <1>6

LEMMA OperandTensor ==
  ASSUME LaunchInv, launched # None, op \notin RowCopies, NEW x \in DOMAIN call.views
  PROVE  /\ x \in DOMAIN launched.ins /\ Acc(launched.ins[x]) \in STRING \X Nat
         /\ launched.ins[x].spec.Cs = call.views[x].desc.Cs
         /\ IsMap(call.views[x].desc) /\ call.views[x].desc \in Linear
         /\ call.views[x].desc.Ro \in Nat \ {0} /\ call.views[x].rows \in Nat \ {0}
<1> DEFINE v == call.views[x]
<1>1. /\ x \in DOMAIN launched.ins /\ launched.ins[x].addr \in Nat
      /\ launched.ins[x].spec = spec(v) /\ InTensor(v) /\ NonEmpty(v.desc)
  BY OperandHeld
<1>2. v.mem \in STRING /\ v.rows \in Nat \ {0}
  BY <1>1 DEF InTensor
<1>3. IsMap(v.desc) /\ v.desc \in Linear
  BY <1>1, TensorIsMap
<1>4. launched.ins[x].spec.mem = v.mem /\ launched.ins[x].spec.Cs = v.desc.Cs
  BY <1>1 DEF spec
<1> QED BY <1>1, <1>2, <1>3, <1>4 DEF Acc, NonEmpty

\* Where an output element's operand lies.
MeantElement(x, r, c) ==
  LET m == Meant(call, result, x) IN m.base + ((r \div m.span) % m.Ro) * m.S_row + c
LEMMA MeantOperand ==
  ASSUME LaunchInv, launched # None, op \notin RowCopies, NEW r, NEW c
  PROVE  /\ DOMAIN MeantOf(r, c) = DOMAIN call.views
         /\ MeantOf(r, c) = [x \in DOMAIN call.views |-> MeantOf(r, c)[x]]
         /\ \A x \in DOMAIN call.views :
              MeantOf(r, c)[x]
                = PageElement(Acc(launched.ins[x]), MeantElement(x, r, c), call.views[x].desc.Cs)
<1> DEFINE f(x) == PlacedIn(launched.ins[x], MeantElement(x, r, c))
<1>1. MeantOf(r, c) = [x \in DOMAIN call.views |-> f(x)]
  BY DEF MeantOf, MeantElement
<1>2. ASSUME NEW x \in DOMAIN call.views
      PROVE  f(x) = PageElement(Acc(launched.ins[x]), MeantElement(x, r, c), call.views[x].desc.Cs)
  <2>1. PICK e : e = MeantElement(x, r, c)
    OBVIOUS
  <2>2. PlacedIn(launched.ins[x], e) = PageElement(Acc(launched.ins[x]), e, launched.ins[x].spec.Cs)
    BY PlacedElement
  <2> QED BY <2>1, <2>2, OperandTensor
<1> HIDE DEF f
<1> QED BY <1>1, <1>2

\* The first operand's rows are never stretched.
LEMMA FirstMeant ==
  ASSUME LaunchInv, launched # None, op \notin RowCopies,
         NEW x \in DOMAIN call.views, x # 3 \/ op # "lerp"
  PROVE  LET d == call.views[x].desc
         IN  /\ \A r \in Nat, c \in Nat : MeantElement(x, r, c) = d.base + (r % d.Ro) * d.S_row + c
             /\ \A r \in Nat, c \in Nat : MeantElement(x, r, c) \in Nat
<1> DEFINE d == call.views[x].desc
<1>1. IsMap(d) /\ d.Ro \in Nat \ {0}
  BY OperandTensor
<1>2. call.op = op
  BY LaunchedFacts DEF call
<1>3. Meant(call, result, x)
        = [base |-> d.base, Co |-> d.Co, S_row |-> d.S_row * 1, Ro |-> d.Ro, span |-> 1]
  BY <1>2 DEF Meant
<1>4. d.S_row * 1 = d.S_row /\ d.S_row \in Nat /\ d.base \in Nat
  BY <1>1 DEF IsMap
<1> HIDE DEF d
<1>5. \A r, c : MeantElement(x, r, c) = d.base + ((r \div 1) % d.Ro) * d.S_row + c
  BY <1>3, <1>4 DEF MeantElement
<1>6. ASSUME NEW r \in Nat, NEW c \in Nat
      PROVE  MeantElement(x, r, c) = d.base + (r % d.Ro) * d.S_row + c /\ MeantElement(x, r, c) \in Nat
  <2>1. r \div 1 = r
    BY DivModUnique, r = r * 1 + 0
  <2>2. PICK q \in Nat : q = r % d.Ro
    <3>1. r % d.Ro \in 0 .. d.Ro - 1
      BY <1>1, QuotientNat
    <3> QED BY <1>1, <3>1
  <2>3. q * d.S_row \in Nat
    BY <1>4, ProductNat
  <2>4. d.base + q * d.S_row + c \in Nat
    BY <1>4, <2>3
  <2> QED BY <1>5, <2>1, <2>2, <2>4
<1> QED BY <1>6 DEF d

LEMMA MeantNotZero ==
  ASSUME LaunchInv, launched # None, op \notin RowCopies, NEW r \in Nat, NEW c \in Nat
  PROVE  MeantOf(r, c)[1] # Zero
<1>1. 1 \in DOMAIN call.views
  BY LaunchedFacts, Arity DEF call
<1>2. PICK e \in Nat : e = MeantElement(1, r, c)
  BY <1>1, FirstMeant
<1>3. PICK S \in Nat \ {0} : S = call.views[1].desc.Cs /\ S % TILE = 0
  BY <1>1, OperandTensor DEF IsMap
<1>4. MeantOf(r, c)[1] = PageElement(Acc(launched.ins[1]), e, S)
  BY <1>1, <1>2, <1>3, MeantOperand
<1>5. Acc(launched.ins[1]) \in STRING \X Nat
  BY <1>1, OperandTensor
<1> QED BY <1>3, <1>4, <1>5, PlaceNotZero

-----------------------------------------------------------------------------
\* A row of tiles of an op that works by rows of tiles.
RowPlace(k, n, w, p, s, q) ==
  /\ w \in Nat \ {0} /\ w = n_otc(launched.a.o) /\ q \in Nat /\ p \in Nat /\ s \in 0 .. w - 1
  /\ n = p * w + s /\ First(launched.a, k) + n = q * w + s
  /\ \A m \in 0 .. w - 1 : \A i, j \in Cells :
       /\ p * w + m \in 0 .. Count(launched.a, k) - 1
       /\ CellRow(k, p * w + m, i) = q * TILE + i
       /\ CellCol(k, p * w + m, j) = m * TILE + j
LEMMA RowTile ==
  ASSUME LaunchInv, launched # None, op \notin RowCopies, RowOp, NEW k \in Running,
         NEW n \in 0 .. Count(launched.a, k) - 1
  PROVE  RowPlace(k, n, ctiles(k), n \div ctiles(k), n % ctiles(k),
                  done(launched.a, k) + (n \div ctiles(k)))
<1> DEFINE a == launched.a
           D == launched.a.o
<1>1. op \in Norms \cup {"mul_l2_norm", "rk"} /\ ~program.kernels.global
  BY DEF RowOp
<1>2. ctiles(k) = a.n_otc
  BY <1>1, NormArgs, MulL2Args, RkArgs
<1>3. IsMap(D) /\ a.n_otc = n_otc(D)
  BY <1>1, WriterMap
<1>4. PICK w \in Nat \ {0} : w = ctiles(k) /\ w = n_otc(D) /\ w = a.n_otc
  BY <1>2, <1>3, GridPositive DEF IsMap
<1>5. per_unit(a) = w
  <2>1. a.op = op
    BY LaunchedFacts
  <2>2. ~IsGlobal(a)
    BY <1>1, <2>1, GlobalFlag DEF IsGlobal
  <2>3. IsRowOp(a)
    BY <1>1, <2>1 DEF IsRowOp
  <2> QED BY <1>4, <2>2, <2>3 DEF per_unit
<1>6. PICK h \in Nat, d \in Nat : h = here(a, k) /\ d = done(a, k)
  BY LaunchParts, UnitShares, CoreTile
<1>7. Count(a, k) = h * w /\ First(a, k) = d * w /\ h * w \in Nat /\ d * w \in Nat
  BY <1>5, <1>6, ProductNat DEF Count, First
<1>8. PICK p \in Nat, s \in 0 .. w - 1 : p = n \div w /\ s = n % w /\ n = p * w + s
  <2>1. n \in Nat
    BY <1>7
  <2>2. n \div w \in Nat /\ n = (n \div w) * w + (n % w) /\ n % w \in 0 .. w - 1
    BY <2>1, DivModNat
  <2> QED BY <2>2
<1>9. p < h
  <2>1. n \in Nat /\ n < h * w
    BY <1>7
  <2>2. n \div w < h
    BY <2>1, QuotientBound
  <2> QED BY <1>8, <2>2
<1>10. d + p \in Nat /\ p * w \in Nat /\ (d + p) * w = d * w + p * w
  BY ProductNat
<1>11. First(a, k) + n = (d + p) * w + s
  BY <1>7, <1>8, <1>10
<1>12. ASSUME NEW m \in 0 .. w - 1, NEW i \in Cells, NEW j \in Cells
       PROVE  /\ p * w + m \in 0 .. Count(a, k) - 1
              /\ CellRow(k, p * w + m, i) = (d + p) * TILE + i
              /\ CellCol(k, p * w + m, j) = m * TILE + j
  <2>1. p * w + m \in 0 .. Count(a, k) - 1
    <3>1. (h - 1 - p) * w >= 0 /\ (h - 1 - p) * w = h * w - w - p * w
      BY <1>9, ProductNat, h - 1 - p \in Nat
    <3> QED BY <1>7, <1>10, <3>1
  <2>2. PICK u \in Nat : u = First(a, k) + (p * w + m) /\ u = (d + p) * w + m
    <3>1. First(a, k) + (p * w + m) = (d + p) * w + m
      BY <1>7, <1>10
    <3>2. (d + p) * w + m \in Nat
      BY <1>10, ProductNat
    <3> QED BY <3>1, <3>2
  <2>3. d + p \in Int /\ m \in Int /\ 0 <= m /\ m < w /\ u \in Int
    BY <1>10
  <2>4. u \div w = d + p /\ u % w = m
    BY <2>2, <2>3, DivModUnique
  <2>5. CellRow(k, p * w + m, i) = (u \div w) * TILE + i
        /\ CellCol(k, p * w + m, j) = (u % w) * TILE + j
    BY <1>4, <2>2 DEF CellRow, CellCol, TileRow, TileCol
  <2> QED BY <2>1, <2>4, <2>5
<1>13. RowPlace(k, n, w, p, s, d + p)
  BY <1>4, <1>8, <1>10, <1>11, <1>12 DEF RowPlace
<1> QED BY <1>4, <1>6, <1>8, <1>13

-----------------------------------------------------------------------------
\* Cells reduced together are those of a row of the result, and padding.
LEMMA RowReduced ==
  ASSUME LaunchInv, launched # None, op \notin RowCopies, CellsRight, RowOp, NEW s \in LiveStores
  PROVE  MadeOver(s) = Over(StoreRow(s), StoreCol(s))
<1>1. PICK k, n, i, j : k = s[1] /\ n = s[2] /\ i = s[3] /\ j = s[4]
  OBVIOUS
<1>2. /\ s \in Stores /\ k \in Running /\ n \in 0 .. Count(launched.a, k) - 1
      /\ i \in Cells /\ j \in Cells
  BY <1>1, StoreParts DEF LiveStores
<1>3. ~program.kernels.global
  BY DEF RowOp
<1>4. PICK D, d : D = launched.a.o /\ d = result.desc
  OBVIOUS
<1>5. IsMap(D) /\ D.Ro = d.Ro /\ D.Co = d.Co /\ TILE \in Nat \ {0}
  BY <1>3, <1>4, WriterMap, TileAssumption
<1>6. PICK w, p, t, q : w = ctiles(k) /\ p = n \div w /\ t = n % w /\ q = done(launched.a, k) + p
  OBVIOUS
<1>7. RowPlace(k, n, w, p, t, q)
  BY <1>2, <1>6, RowTile
<1>8. /\ w \in Nat \ {0} /\ w = n_otc(D) /\ q \in Nat /\ p \in Nat /\ t \in 0 .. w - 1 /\ n = p * w + t
      /\ \A m \in 0 .. w - 1 : \A x, y \in Cells :
           /\ p * w + m \in 0 .. Count(launched.a, k) - 1
           /\ CellRow(k, p * w + m, x) = q * TILE + x
           /\ CellCol(k, p * w + m, y) = m * TILE + y
  BY <1>4, <1>7 DEF RowPlace
<1>9. PICK R : R = q * TILE + i
  OBVIOUS
<1>10. R = CellRow(k, n, i) /\ R \in Nat /\ R < D.Ro
  <2>1. CellRow(k, n, i) = q * TILE + i
    BY <1>2, <1>8
  <2>2. R = CellRow(s[1], s[2], s[3])
    BY <1>1, <1>9, <2>1
  <2> QED BY <1>1, <1>2, <1>4, <2>2, StoreTarget DEF Inside
<1>11. StoreRow(s) = R
  BY <1>1, <1>3, <1>10 DEF StoreRow, ResRow
<1>12. Over(StoreRow(s), StoreCol(s)) = {MeantOf(R, b) : b \in 0 .. d.Co - 1}
  BY <1>4, <1>11 DEF Over
<1> DEFINE Tiles == {p * w + m : m \in 0 .. w - 1}
           M(x) == MadeAt(k, x[1], x[2], x[3])
<1>13. Reduced(k, n, i, j) = Tiles \X {i} \X Cells
  BY <1>3, <1>6 DEF Reduced, Cells
<1>14. MadeOver(s) = {x \in {M(y) : y \in Tiles \X {i} \X Cells} : x[1] # Zero}
  BY <1>1, <1>13 DEF MadeOver
<1>15. ASSUME NEW m \in 0 .. w - 1, NEW y \in Cells
       PROVE  LET c == m * TILE + y
              IN  /\ c \in Nat
                  /\ c < D.Co => MadeAt(k, p * w + m, i, y) = MeantOf(R, c)
                  /\ ~(c < D.Co) => MadeAt(k, p * w + m, i, y)[1] = Zero
  <2>1. PICK c : c = m * TILE + y
    OBVIOUS
  <2>2. PICK z : z = p * w + m
    OBVIOUS
  <2>3. z \in 0 .. Count(launched.a, k) - 1 /\ CellRow(k, z, i) = R /\ CellCol(k, z, y) = c
    BY <1>2, <1>8, <1>9, <2>1, <2>2
  <2>4. c \in Nat
    <3>1. m * TILE \in Nat
      BY <1>5, <1>8, ProductNat
    <3> QED BY <1>5, <2>1, <3>1 DEF Cells
  <2>5. Inside(D, R, c) <=> c < D.Co
    BY <1>10 DEF Inside
  <2>6. /\ Inside(D, R, c) => MadeAt(k, z, i, y) = MeantOf(ResRow(R), ResCol(R, c))
        /\ ~Inside(D, R, c) => MadeAt(k, z, i, y)[1] = Zero
    BY <1>2, <1>4, <2>3 DEF CellsRight
  <2>7. ResRow(R) = R /\ ResCol(R, c) = c
    BY <1>3 DEF ResRow, ResCol
  <2> QED BY <2>1, <2>2, <2>4, <2>5, <2>6, <2>7
<1>16. ASSUME NEW o \in MadeOver(s) PROVE \E b \in 0 .. d.Co - 1 : o = MeantOf(R, b)
  <2>1. PICK y \in Tiles \X {i} \X Cells : o = M(y) /\ o[1] # Zero
    BY <1>14
  <2>2. PICK m \in 0 .. w - 1 : y[1] = p * w + m
    BY <2>1
  <2>3. y[2] = i /\ y[3] \in Cells
    BY <2>1
  <2>4. PICK c : c = m * TILE + y[3]
    OBVIOUS
  <2>5. o = MadeAt(k, p * w + m, i, y[3])
    BY <2>1, <2>2, <2>3
  <2>6. c \in Nat /\ c < D.Co /\ o = MeantOf(R, c)
    BY <1>15, <2>1, <2>2, <2>3, <2>4, <2>5
  <2>7. c \in 0 .. d.Co - 1
    BY <1>5, <2>6 DEF IsMap, NonEmpty
  <2> QED BY <2>6, <2>7
<1>17. ASSUME NEW b \in 0 .. d.Co - 1 PROVE MeantOf(R, b) \in MadeOver(s)
  <2>1. b \in Nat /\ b < D.Co
    BY <1>5 DEF IsMap, NonEmpty
  <2>2. PICK m \in Nat, y \in 0 .. TILE - 1 : b = m * TILE + y /\ m = b \div TILE
    BY <1>5, <2>1, DivModNat
  <2>3. m < w
    <3>1. D.Co <= w * TILE
      <4>1. D.Co <= padded(D.Co)
        BY <1>5, PaddedFacts DEF IsMap, NonEmpty
      <4> QED BY <1>8, <4>1 DEF n_otc, padded
    <3>2. b < w * TILE
      BY <1>5, <1>8, <2>1, <3>1 DEF IsMap, NonEmpty
    <3> QED BY <1>5, <1>8, <2>1, <2>2, <3>2, QuotientBound
  <2>4. m \in 0 .. w - 1 /\ y \in Cells
    BY <1>8, <2>2, <2>3 DEF Cells
  <2>5. MadeAt(k, p * w + m, i, y) = MeantOf(R, b)
    BY <1>15, <2>1, <2>2, <2>4
  <2>6. MeantOf(R, b)[1] # Zero
    BY <1>10, <2>1, MeantNotZero
  <2>7. PICK z : z = <<p * w + m, i, y>>
    OBVIOUS
  <2>8. z \in Tiles \X {i} \X Cells /\ M(z) = MeantOf(R, b)
    BY <2>4, <2>5, <2>7
  <2> HIDE DEF M, Tiles
  <2> QED BY <1>14, <2>6, <2>8
<1> QED BY <1>12, <1>16, <1>17

\* All the tiles of a folded row are one core's.
LEMMA FoldReduced ==
  ASSUME LaunchInv, launched # None, op \notin RowCopies, CellsRight, program.kernels.global,
         NEW s \in LiveStores
  PROVE  MadeOver(s) = Over(StoreRow(s), StoreCol(s))
<1>1. PICK k, n, i, j : k = s[1] /\ n = s[2] /\ i = s[3] /\ j = s[4]
  OBVIOUS
<1>2. /\ s \in Stores /\ k \in Running /\ n \in 0 .. Count(launched.a, k) - 1
      /\ i \in Cells /\ j \in Cells
  BY <1>1, StoreParts DEF LiveStores
<1>3. PICK D, d : D = launched.a.o /\ d = result.desc
  OBVIOUS
<1>4. /\ op \in Norms /\ Folds(call) /\ D = Folded(d) /\ d.Ro = 1 /\ IsMap(D) /\ IsMap(d)
      /\ d.Co % (TILE * TILE) = 0 /\ work_tiles(launched.a) = out_tiles(D)
  BY <1>3, WriterMap
<1>5. PICK W \in Nat \ {0} : W = work_tiles(launched.a)
  BY <1>4, GridPositive DEF IsMap
<1>6. ASSUME NEW l \in Running PROVE Count(launched.a, l) = W
  <2>1. IsGlobal(launched.a) /\ l \in AllCores(launched.a)
    BY GlobalFlag, LaunchedFacts DEF IsGlobal
  <2> QED BY <1>5, <2>1, OneGlobal
<1>7. Read(k) = W
  <2>1. n_tiles(k) = W
    BY <1>2, <1>4, <1>5, GlobalArgs
  <2> QED BY <2>1 DEF Read, RowOp
<1>8. ASSUME NEW l \in Running PROVE l = k
  <2>1. First(launched.a, l) \in Nat /\ First(launched.a, l) + W <= W
    BY <1>5, <1>6, LaunchParts, CoreTiles, CoreTile
  <2>2. First(launched.a, k) \in Nat /\ First(launched.a, k) + W <= W
    BY <1>2, <1>5, <1>6, LaunchParts, CoreTiles, CoreTile
  <2>3. First(launched.a, l) + 0 = First(launched.a, k) + 0
    BY <1>5, <2>1, <2>2
  <2>4. 0 \in 0 .. Count(launched.a, l) - 1 /\ 0 \in 0 .. Count(launched.a, k) - 1
    BY <1>2, <1>5, <1>6
  <2>5. l \in Cores /\ k \in Cores
    BY <1>2, CoreTile
  <2> QED BY <2>3, <2>4, <2>5, LaunchParts, CoreTiles
<1> DEFINE Tiles == 0 .. W - 1
           M(x) == MadeAt(k, x[1], x[2], x[3])
<1>9. MadeOver(s) = {x \in {M(y) : y \in Tiles \X Cells \X Cells} : x[1] # Zero}
  BY <1>1, <1>7 DEF MadeOver, Reduced, Cells
<1>10. StoreRow(s) = 0 /\ \A t \in LiveStores : StoreRow(t) = 0
  BY DEF StoreRow, ResRow
<1>11. Over(StoreRow(s), StoreCol(s)) = {MeantOf(0, b) : b \in 0 .. d.Co - 1}
  BY <1>3, <1>10 DEF Over
<1>12. ASSUME NEW z \in Tiles, NEW x \in Cells, NEW y \in Cells
       PROVE  LET t == <<k, z, x, y>>
              IN  /\ t \in Stores
                  /\ t \in LiveStores => MadeAt(k, z, x, y) = MeantOf(0, StoreCol(t))
                  /\ t \notin LiveStores => MadeAt(k, z, x, y)[1] = Zero
  <2>1. PICK t : t = <<k, z, x, y>>
    OBVIOUS
  <2>2. z \in 0 .. Count(launched.a, k) - 1
    BY <1>2, <1>6
  <2>3. t \in Stores
    BY <1>2, <2>1, <2>2, StoreParts
  <2>4. PICK R, C : R = CellRow(k, z, x) /\ C = CellCol(k, z, y)
    OBVIOUS
  <2>5. t \in LiveStores <=> Inside(D, R, C)
    <3>1. R = CellRow(t[1], t[2], t[3]) /\ C = CellCol(t[1], t[2], t[4])
      BY <2>1, <2>4
    <3> QED BY <1>3, <2>3, <3>1, StoreTarget
  <2>6. /\ Inside(D, R, C) => MadeAt(k, z, x, y) = MeantOf(ResRow(R), ResCol(R, C))
        /\ ~Inside(D, R, C) => MadeAt(k, z, x, y)[1] = Zero
    BY <1>2, <1>3, <2>2, <2>4 DEF CellsRight
  <2>7. ResRow(R) = 0 /\ ResCol(R, C) = StoreCol(t)
    BY <2>1, <2>4 DEF ResRow, StoreCol
  <2> QED BY <2>1, <2>3, <2>5, <2>6, <2>7
<1>13. ASSUME NEW o \in MadeOver(s) PROVE \E b \in 0 .. d.Co - 1 : o = MeantOf(0, b)
  <2>1. PICK y \in Tiles \X Cells \X Cells : o = M(y) /\ o[1] # Zero
    BY <1>9
  <2>2. y[1] \in Tiles /\ y[2] \in Cells /\ y[3] \in Cells
    BY <2>1
  <2>3. PICK t : t = <<k, y[1], y[2], y[3]>>
    OBVIOUS
  <2>4. t \in LiveStores /\ o = MeantOf(0, StoreCol(t))
    BY <1>12, <2>1, <2>2, <2>3
  <2> QED BY <1>3, <2>4, StoreInResult
<1>14. ASSUME NEW b \in 0 .. d.Co - 1 PROVE MeantOf(0, b) \in MadeOver(s)
  <2>1. PICK t \in LiveStores : b = StoreCol(t)
    <3>1. 0 \in 0 .. d.Ro - 1
      BY <1>4
    <3> QED BY <1>3, <3>1, StoresCover
  <2>2. /\ t[1] \in Running /\ t[2] \in 0 .. Count(launched.a, t[1]) - 1
        /\ t[3] \in Cells /\ t[4] \in Cells /\ t = <<t[1], t[2], t[3], t[4]>>
    <3>1. t \in Stores
      BY DEF LiveStores
    <3> QED BY <3>1, StoreParts
  <2>3. t[1] = k /\ t[2] \in Tiles
    BY <1>6, <1>8, <2>2
  <2>4. PICK z : z = <<t[2], t[3], t[4]>>
    OBVIOUS
  <2>5. M(z) = MeantOf(0, b)
    <3>1. t = <<k, t[2], t[3], t[4]>>
      BY <2>2, <2>3
    <3>2. MadeAt(k, t[2], t[3], t[4]) = MeantOf(0, StoreCol(t))
      BY <1>12, <2>2, <2>3, <3>1
    <3> QED BY <2>1, <2>4, <3>2
  <2>6. MeantOf(0, b)[1] # Zero
    <3>1. b \in Nat /\ 0 \in Nat
      BY <1>4 DEF IsMap, NonEmpty
    <3> QED BY <3>1, MeantNotZero
  <2>7. z \in Tiles \X Cells \X Cells
    BY <2>2, <2>3, <2>4
  <2> HIDE DEF M, Tiles
  <2> QED BY <1>9, <2>5, <2>6, <2>7
<1> QED BY <1>11, <1>13, <1>14

LEMMA ReducedRight ==
  ASSUME LaunchInv, launched # None, op \notin RowCopies, CellsRight
  PROVE  FedRight
<1> SUFFICES ASSUME NEW s \in LiveStores
             PROVE  /\ MadeAt(s[1], s[2], s[3], s[4]) = MeantOf(StoreRow(s), StoreCol(s))
                    /\ MadeOver(s) = Over(StoreRow(s), StoreCol(s))
  BY DEF FedRight
<1>1. PICK k, n, i, j : k = s[1] /\ n = s[2] /\ i = s[3] /\ j = s[4]
  OBVIOUS
<1>2. /\ s \in Stores /\ k \in Running /\ n \in 0 .. Count(launched.a, k) - 1
      /\ i \in Cells /\ j \in Cells
  BY <1>1, StoreParts DEF LiveStores
<1>3. PICK R, C : R = CellRow(k, n, i) /\ C = CellCol(k, n, j)
  OBVIOUS
<1>4. Inside(launched.a.o, R, C)
  BY <1>1, <1>2, <1>3, StoreTarget
<1>5. MadeAt(k, n, i, j) = MeantOf(ResRow(R), ResCol(R, C))
  BY <1>2, <1>3, <1>4 DEF CellsRight
<1>6. MadeAt(k, n, i, j) = MeantOf(StoreRow(s), StoreCol(s))
  BY <1>1, <1>3, <1>5 DEF StoreRow, StoreCol
<1>7. MadeOver(s) = Over(StoreRow(s), StoreCol(s))
  <2>1. CASE RowOp
    BY <2>1, RowReduced
  <2>2. CASE program.kernels.global
    BY <2>2, FoldReduced
  <2>3. CASE ~RowOp /\ ~program.kernels.global
    <3>1. PICK m : m = MadeAt(k, n, i, j)
      OBVIOUS
    <3>2. Reduced(k, n, i, j) = {<<n, i, j>>}
      BY <2>3 DEF Reduced
    <3>3. MadeOver(s) = {x \in {m} : x[1] # Zero}
      BY <1>1, <3>1, <3>2 DEF MadeOver
    <3>4. StoreRow(s) \in Nat /\ StoreCol(s) \in Nat
      <4>1. IsMap(result.desc)
        BY WriterMap
      <4>2. StoreRow(s) \in 0 .. result.desc.Ro - 1 /\ StoreCol(s) \in 0 .. result.desc.Co - 1
        BY StoreInResult
      <4> QED BY <4>1, <4>2 DEF IsMap, NonEmpty
    <3>5. m[1] # Zero
      BY <1>6, <3>1, <3>4, MeantNotZero
    <3>6. MadeOver(s) = {m}
      BY <3>3, <3>5
    <3> QED BY <1>6, <2>3, <3>1, <3>6 DEF Over
  <2> QED BY <2>1, <2>2, <2>3
<1> QED BY <1>1, <1>6, <1>7

-----------------------------------------------------------------------------
\* The element an operand's map d gives at a cell of the tile that is fed.
LEMMA OperandFetch ==
  ASSUME LaunchInv, launched # None, op \notin RowCopies, NEW k \in Running, NEW n,
         NEW i \in Cells, NEW j \in Cells, NEW x \in Blocks, x \in DOMAIN call.views,
         NEW d, d = launched.a.ins[x], IsMap(d), d.Cs = call.views[x].desc.Cs,
         NEW u \in Nat, u = FedTile(k, x, n), NEW r, NEW c
  PROVE  LET R == TileRow(d, u, i)
             C == TileCol(d, u, j)
             f == Fetch(View(k, x), FedTile(k, x, n), i, j)
         IN  /\ Inside(d, R, C) /\ MapElement(d, R, C) = MeantElement(x, r, c) => f = MeantOf(r, c)[x]
             /\ ~Inside(d, R, C) /\ u < out_tiles(d) => f = Zero
<1>1. PICK R, C, f : /\ R = TileRow(d, u, i) /\ C = TileCol(d, u, j)
                     /\ f = Fetch(View(k, x), FedTile(k, x, n), i, j)
  OBVIOUS
<1>2. PICK v, t0, acc : v = View(k, x) /\ t0 = Start(launched.a, k, x) /\ acc = Acc(launched.ins[x])
  OBVIOUS
<1>3. Walks(v, d, t0, acc)
  BY <1>2, ReaderWalks
<1>4. f = Fetch(v, u, i, j)
  BY <1>1, <1>2
<1>5. /\ Inside(d, R, C) => f = PageElement(acc, MapElement(d, R, C), d.Cs)
      /\ ~Inside(d, R, C) /\ u < out_tiles(d) => f = Zero
  BY <1>1, <1>3, <1>4, MapFetch DEF Cells
<1>6. MeantOf(r, c)[x] = PageElement(acc, MeantElement(x, r, c), d.Cs)
  BY <1>2, MeantOperand
<1> QED BY <1>1, <1>5, <1>6

\* A cell of the result's grid, and where the tile that holds it is fed from.
LEMMA TileStart ==
  ASSUME LaunchInv, launched # None, op \notin RowCopies, NEW k \in Running, NEW x \in Blocks, NEW n
  PROVE  View(k, x).t0 = Start(launched.a, k, x)
BY ReaderWalks DEF Walks

LEMMA CellFacts ==
  ASSUME LaunchInv, launched # None, op \notin RowCopies, NEW k \in Running,
         NEW n \in 0 .. Count(launched.a, k) - 1, NEW i \in Cells, NEW j \in Cells
  PROVE  /\ CellRow(k, n, i) \in Nat /\ CellCol(k, n, j) \in Nat
         /\ Inside(launched.a.o, CellRow(k, n, i), CellCol(k, n, j)) =>
              /\ ResRow(CellRow(k, n, i)) \in Nat /\ ResCol(CellRow(k, n, i), CellCol(k, n, j)) \in Nat
<1>1. PICK D, u, R, C : /\ D = launched.a.o /\ u = First(launched.a, k) + n
                        /\ R = CellRow(k, n, i) /\ C = CellCol(k, n, j)
  OBVIOUS
<1>2. IsMap(D) /\ u \in Nat /\ IsMap(result.desc)
  BY <1>1, WriterMap, CoreTile
<1>3. R = TileRow(D, u, i) /\ C = TileCol(D, u, j)
  BY <1>1 DEF CellRow, CellCol
<1>4. R \in Nat /\ C \in Nat
  BY <1>2, <1>3, CellNat DEF Cells
<1>5. Inside(D, R, C) => ResRow(R) \in Nat /\ ResCol(R, C) \in Nat
  <2> SUFFICES ASSUME Inside(D, R, C) PROVE ResRow(R) \in Nat /\ ResCol(R, C) \in Nat
    OBVIOUS
  <2>1. ResRow(R) \in 0 .. result.desc.Ro - 1 /\ ResCol(R, C) \in 0 .. result.desc.Co - 1
    BY <1>1, <1>4, ResultCell
  <2> QED BY <1>2, <2>1 DEF IsMap, NonEmpty
<1> QED BY <1>1, <1>4, <1>5

\* An operand streamed on the grid of the result.
Streamed(x, d) ==
  /\ d = launched.a.ins[x] /\ IsMap(d) /\ d.Cs = call.views[x].desc.Cs
  /\ d.Ro = launched.a.o.Ro /\ d.Co = launched.a.o.Co
  /\ \A R \in Nat, C \in Nat :
       Inside(launched.a.o, R, C) => MapElement(d, R, C) = MeantElement(x, ResRow(R), ResCol(R, C))
LEMMA StreamedRight ==
  ASSUME LaunchInv, launched # None, op \notin RowCopies, NEW k \in Running,
         NEW n \in 0 .. Count(launched.a, k) - 1, NEW i \in Cells, NEW j \in Cells,
         NEW x \in Blocks, x \in DOMAIN call.views, NEW d, Streamed(x, d),
         FedTile(k, x, n) = First(launched.a, k) + n
  PROVE  LET R == CellRow(k, n, i)
             C == CellCol(k, n, j)
             f == Fetch(View(k, x), FedTile(k, x, n), i, j)
         IN  /\ Inside(launched.a.o, R, C) => f = MeantOf(ResRow(R), ResCol(R, C))[x]
             /\ ~Inside(launched.a.o, R, C) => f = Zero
<1>1. PICK D, u, R, C, f : /\ D = launched.a.o /\ u = First(launched.a, k) + n
                           /\ R = CellRow(k, n, i) /\ C = CellCol(k, n, j)
                           /\ f = Fetch(View(k, x), FedTile(k, x, n), i, j)
  OBVIOUS
<1>2. u \in Nat /\ u < out_tiles(D) /\ R \in Nat /\ C \in Nat /\ u = FedTile(k, x, n)
  BY <1>1, CoreTile, CellFacts
<1>3. /\ d = launched.a.ins[x] /\ IsMap(d) /\ d.Cs = call.views[x].desc.Cs
      /\ d.Ro = D.Ro /\ d.Co = D.Co
      /\ Inside(D, R, C) => MapElement(d, R, C) = MeantElement(x, ResRow(R), ResCol(R, C))
  BY <1>1, <1>2 DEF Streamed
<1>4. R = TileRow(d, u, i) /\ C = TileCol(d, u, j) /\ out_tiles(d) = out_tiles(D)
      /\ (Inside(d, R, C) <=> Inside(D, R, C))
  BY <1>1, <1>3 DEF CellRow, CellCol, TileRow, TileCol, out_tiles, n_otr, n_otc, Inside
<1>5. PICK r, c : r = ResRow(R) /\ c = ResCol(R, C)
  OBVIOUS
<1>6. /\ Inside(d, R, C) /\ MapElement(d, R, C) = MeantElement(x, r, c) => f = MeantOf(r, c)[x]
      /\ ~Inside(d, R, C) /\ u < out_tiles(d) => f = Zero
  BY <1>1, <1>2, <1>3, <1>4, OperandFetch
<1> QED BY <1>1, <1>2, <1>3, <1>4, <1>5, <1>6

\* In every op but the norms a cell is made of one element of each operand.
OperandsRight ==
  \A k \in Running : \A n \in 0 .. Count(launched.a, k) - 1 : \A i, j \in Cells :
    \A x \in DOMAIN call.views :
      LET R == CellRow(k, n, i)
          C == CellCol(k, n, j)
          f == Fetch(View(k, x), FedTile(k, x, n), i, j)
      IN  /\ Inside(launched.a.o, R, C) => f = MeantOf(ResRow(R), ResCol(R, C))[x]
          /\ ~Inside(launched.a.o, R, C) /\ x = 1 /\ RowOp => f = Zero
LEMMA OperandsMake ==
  ASSUME LaunchInv, launched # None, op \notin RowCopies, op \notin Norms, OperandsRight
  PROVE  CellsRight
<1>1. Blocks = DOMAIN call.views /\ 1 \in Blocks /\ ~program.kernels.global
  <2>1. /\ call \in Calls /\ call.op = op /\ launched.call = call
    BY LaunchedFacts DEF call
  <2>2. Blocks = 1 .. Len(call.views)
    BY <2>1, KindsFacts DEF Views, Walked
  <2>3. Len(call.views) \in 1 .. 5 /\ DOMAIN call.views = 1 .. Len(call.views)
    BY <2>1, Arity
  <2>4. 1 \in DOMAIN call.views
    BY LaunchedFacts, Arity DEF call
  <2>5. Blocks = DOMAIN call.views
    BY <2>2, <2>3
  <2>6. ~program.kernels.global
    BY <2>1, GlobalFlag
  <2> QED BY <2>4, <2>5, <2>6
<1> SUFFICES ASSUME NEW k \in Running, NEW n \in 0 .. Count(launched.a, k) - 1,
                    NEW i \in Cells, NEW j \in Cells
             PROVE  LET R == CellRow(k, n, i)
                        C == CellCol(k, n, j)
                    IN  /\ Inside(launched.a.o, R, C) =>
                             MadeAt(k, n, i, j) = MeantOf(ResRow(R), ResCol(R, C))
                        /\ ~Inside(launched.a.o, R, C) /\ (RowOp \/ program.kernels.global)
                             => MadeAt(k, n, i, j)[1] = Zero
  BY DEF CellsRight
<1>2. PICK R, C : R = CellRow(k, n, i) /\ C = CellCol(k, n, j)
  OBVIOUS
<1> DEFINE f(x) == Fetch(View(k, x), FedTile(k, x, n), i, j)
           m == MeantOf(ResRow(R), ResCol(R, C))
<1>3. /\ \A x \in DOMAIN call.views : Inside(launched.a.o, R, C) => f(x) = m[x]
      /\ ~Inside(launched.a.o, R, C) /\ RowOp => f(1) = Zero
  BY <1>1, <1>2 DEF OperandsRight
<1>4. MadeAt(k, n, i, j) = [x \in Blocks |-> f(x)]
  <2>1. Weights(k) = {}
    BY DEF Weights
  <2>2. Blocks \cup {w + 1 : w \in Weights(k)} = Blocks
    BY <2>1
  <2> QED BY <2>2 DEF MadeAt
<1>5. m = [x \in DOMAIN call.views |-> m[x]]
  BY MeantOperand
<1> HIDE DEF f, m
<1>6. Inside(launched.a.o, R, C) => MadeAt(k, n, i, j) = m
  BY <1>1, <1>3, <1>4, <1>5
<1>7. ~Inside(launched.a.o, R, C) /\ RowOp => MadeAt(k, n, i, j)[1] = Zero
  BY <1>1, <1>3, <1>4
<1> QED BY <1>1, <1>2, <1>6, <1>7 DEF m

-----------------------------------------------------------------------------
\* A map with the rows of the result is read row by row.
LEMMA RowByRow ==
  ASSUME LaunchInv, launched # None, op \notin RowCopies, ~program.kernels.global,
         NEW x \in DOMAIN call.views, x # 3 \/ op # "lerp",
         launched.a.ins[x] = call.views[x].desc,
         call.views[x].desc.Ro >= launched.a.o.Ro, NEW R \in Nat, NEW C \in Nat,
         Inside(launched.a.o, R, C)
  PROVE  MapElement(call.views[x].desc, R, C) = MeantElement(x, ResRow(R), ResCol(R, C))
<1>1. PICK d : d = call.views[x].desc
  OBVIOUS
<1>2. d \in Linear /\ d.Ro \in Nat \ {0}
  BY <1>1, OperandTensor
<1>3. R < d.Ro
  <2>1. IsMap(launched.a.o)
    BY WriterMap
  <2> QED BY <1>1, <1>2, <2>1 DEF Inside, IsMap, NonEmpty
<1>4. R % d.Ro = R
  BY <1>2, <1>3, SmallRemainder
<1>5. ResRow(R) = R /\ ResCol(R, C) = C
  BY DEF ResRow, ResCol
<1>6. MeantElement(x, R, C) = d.base + (R % d.Ro) * d.S_row + C
  BY <1>1, FirstMeant
<1>7. MapElement(d, R, C) = d.base + R * d.S_row + C
  BY <1>2 DEF MapElement, SourceRow, Linear
<1> QED BY <1>1, <1>4, <1>5, <1>6, <1>7

\* realize: the operand has the grid of the result.
LEMMA RealizeRight ==
  ASSUME LaunchInv, launched # None, op = "realize"
  PROVE  OperandsRight
<1>1. /\ call \in Calls /\ Lowers(call) /\ call.op = op /\ launched.a = Attributes(call)
      /\ launched.a.op = op /\ result = Out(call) /\ launched.call = call
  BY LaunchedFacts DEF call, result
<1>2. op \notin RowCopies /\ op \notin Norms /\ op \notin Eltwise /\ ~program.kernels.global
  BY <1>1, OpNames, GlobalFlag
<1>3. DOMAIN call.views = {1} /\ Blocks = {1}
  <2>1. Len(call.views) = 1 /\ DOMAIN call.views = 1 .. Len(call.views)
    BY <1>1, Arity
  <2>2. Blocks = 1 .. Len(call.views)
    BY <1>1, <1>2, KindsFacts DEF Views, Walked
  <2> QED BY <2>1, <2>2
<1>4. PICK d : d = call.views[1].desc
  OBVIOUS
<1>5. launched.a.ins[1] = d
  <2>1. launched.a = ViewAttributes(call, Descs(call), Out(call).desc)
    BY <1>1, OpAttributes
  <2>2. launched.a.ins = Descs(call)
    BY <2>1, ViewFields
  <2> QED BY <1>3, <1>4, <2>2 DEF Descs
<1>6. d.Ro = launched.a.o.Ro /\ d.Co = launched.a.o.Co
  <2>1. SameGrid(Out(call).desc, Descs(call)[1])
    BY <1>1, OpNames DEF Lowers, Eltwise, Binary, Elementwise3
  <2>2. launched.a.o.Ro = result.desc.Ro /\ launched.a.o.Co = result.desc.Co
    BY <1>2, WriterMap
  <2> QED BY <1>1, <1>3, <1>4, <2>1, <2>2 DEF SameGrid, Descs
<1>7. Streamed(1, d)
  <2>1. IsMap(d) /\ d.Ro \in Nat
    BY <1>2, <1>3, <1>4, OperandTensor
  <2>2. \A R \in Nat, C \in Nat :
          Inside(launched.a.o, R, C) => MapElement(d, R, C) = MeantElement(1, ResRow(R), ResCol(R, C))
    <3>1. d.Ro >= launched.a.o.Ro
      BY <1>6, <2>1
    <3> QED BY <1>2, <1>3, <1>4, <1>5, <3>1, RowByRow
  <2> QED BY <1>4, <1>5, <1>6, <2>1, <2>2 DEF Streamed
<1> SUFFICES ASSUME NEW k \in Running, NEW n \in 0 .. Count(launched.a, k) - 1,
                    NEW i \in Cells, NEW j \in Cells
             PROVE  LET R == CellRow(k, n, i)
                        C == CellCol(k, n, j)
                        f == Fetch(View(k, 1), FedTile(k, 1, n), i, j)
                    IN  /\ Inside(launched.a.o, R, C) => f = MeantOf(ResRow(R), ResCol(R, C))[1]
                        /\ ~Inside(launched.a.o, R, C) => f = Zero
  BY <1>3 DEF OperandsRight
<1>8. FedTile(k, 1, n) = First(launched.a, k) + n
  <2>1. FedTile(k, 1, n) = View(k, 1).t0 + n
    BY <1>2 DEF FedTile
  <2>2. View(k, 1).t0 = Start(launched.a, k, 1)
    BY <1>2, <1>3, TileStart
  <2>3. Start(launched.a, k, 1) = First(launched.a, k)
    BY <1>1, <1>2 DEF Start
  <2> QED BY <2>1, <2>2, <2>3
<1> QED BY <1>2, <1>3, <1>7, <1>8, StreamedRight

-----------------------------------------------------------------------------
\* A map that repeats a linear one's rows over another map's grid.
GroupedRows(D, d, o, P, A, B) ==
  /\ IsMap(D) /\ D.Ro = o.Ro /\ D.Co = o.Co /\ D.Cs = d.Cs
  /\ \A R \in Nat, C \in Nat :
       MapElement(D, R, C) = d.base + (A * (R \div P) + B * (R % P)) * d.S_row + C
LEMMA GroupedMap ==
  ASSUME NEW d \in Linear, IsMap(d), NEW o \in Linear, IsMap(o), NEW P \in Nat \ {0}, NEW A \in Nat,
         NEW B \in Nat
  PROVE  GroupedRows(make_grouped_desc(d, o, P, A, B), d, o, P, A, B)
<1> DEFINE D == make_grouped_desc(d, o, P, A, B)
<1>1. /\ D.base = d.base /\ D.S_row = d.S_row /\ D.Cs = d.Cs /\ D.Ro = o.Ro /\ D.Co = o.Co
      /\ D.P = P /\ D.A = A /\ D.B = B
  BY DEF make_grouped_desc, Linear
<1> HIDE DEF D
<1>2. IsMap(D)
  BY <1>1 DEF IsMap, NonEmpty
<1>3. \A R \in Nat : SourceRow(D, R) = A * (R \div P) + B * (R % P)
  BY <1>1 DEF SourceRow
<1>4. \A R \in Nat, C \in Nat :
        MapElement(D, R, C) = d.base + (A * (R \div P) + B * (R % P)) * d.S_row + C
  BY <1>1, <1>3 DEF MapElement
<1> QED BY <1>1, <1>2, <1>4 DEF D, GroupedRows

\* When every operand is streamed on the result's grid, every cell is right.
StreamedEach ==
  \A x \in DOMAIN call.views :
    /\ \E d : Streamed(x, d)
    /\ \A k \in Running : \A n \in 0 .. Count(launched.a, k) - 1 :
         FedTile(k, x, n) = First(launched.a, k) + n
LEMMA ViewBlocks ==
  ASSUME LaunchInv, launched # None, op \notin RowCopies, op \notin Norms
  PROVE  Blocks = DOMAIN call.views
<1>1. /\ call \in Calls /\ call.op = op /\ launched.call = call
  BY LaunchedFacts DEF call
<1>2. Blocks = 1 .. Len(call.views)
  BY <1>1, KindsFacts DEF Views, Walked
<1>3. DOMAIN call.views = 1 .. Len(call.views)
  BY <1>1, Arity
<1> QED BY <1>2, <1>3
LEMMA EachRight ==
  ASSUME LaunchInv, launched # None, op \notin RowCopies, op \notin Norms, StreamedEach
  PROVE  OperandsRight
<1> SUFFICES ASSUME NEW k \in Running, NEW n \in 0 .. Count(launched.a, k) - 1,
                    NEW i \in Cells, NEW j \in Cells, NEW x \in DOMAIN call.views
             PROVE  LET R == CellRow(k, n, i)
                        C == CellCol(k, n, j)
                        f == Fetch(View(k, x), FedTile(k, x, n), i, j)
                    IN  /\ Inside(launched.a.o, R, C) => f = MeantOf(ResRow(R), ResCol(R, C))[x]
                        /\ ~Inside(launched.a.o, R, C) => f = Zero
  BY DEF OperandsRight
<1>1. x \in Blocks
  BY ViewBlocks
<1>2. FedTile(k, x, n) = First(launched.a, k) + n
  BY DEF StreamedEach
<1>3. PICK d : Streamed(x, d)
  BY DEF StreamedEach
<1> QED BY <1>1, <1>2, <1>3, StreamedRight

\* mul_l2_norm: an operand with fewer rows than the result is repeated.
LEMMA MulL2Right ==
  ASSUME LaunchInv, launched # None, op = "mul_l2_norm"
  PROVE  OperandsRight
<1>1. /\ call \in Calls /\ Lowers(call) /\ call.op = op /\ launched.a = Attributes(call)
      /\ launched.a.op = op /\ result = Out(call) /\ launched.call = call
  BY LaunchedFacts DEF call, result
<1>2. op \notin RowCopies /\ op \notin Norms /\ op \notin Eltwise /\ ~program.kernels.global
  BY <1>1, OpNames, GlobalFlag
<1>3. DOMAIN call.views = {1, 2}
  <2>1. Len(call.views) = 2 /\ DOMAIN call.views = 1 .. Len(call.views)
    BY <1>1, Arity
  <2> QED BY <2>1
<1>4. PICK o : o = result.desc
  OBVIOUS
<1>5. launched.a.ins = [x \in {1, 2} |-> Repeated(Descs(call)[x], o)]
  <2>1. launched.a = MulL2Attributes(call)
    BY <1>1, OpAttributes
  <2>2. PICK b : b = MulL2Attributes(call)
    OBVIOUS
  <2>3. b.ins = [x \in {1, 2} |-> Repeated(Descs(call)[x], o)]
    BY <1>1, <1>4, <2>2, MulL2Fields
  <2> QED BY <2>1, <2>2, <2>3
<1>6. o \in Linear /\ IsMap(o) /\ launched.a.o.Ro = o.Ro /\ launched.a.o.Co = o.Co
  BY <1>2, <1>4, WriterMap
<1>7. ASSUME NEW x \in DOMAIN call.views PROVE \E d : Streamed(x, d)
  <2>1. PICK d : d = call.views[x].desc
    OBVIOUS
  <2>2. d \in Linear /\ IsMap(d) /\ d.Ro \in Nat \ {0}
    BY <1>2, <2>1, OperandTensor
  <2>3. launched.a.ins[x] = Repeated(d, o)
    BY <1>3, <1>5, <2>1 DEF Descs
  <2>4. CASE SameGrid(d, o)
    <3>1. launched.a.ins[x] = d
      BY <2>3, <2>4 DEF Repeated
    <3>2. d.Ro = launched.a.o.Ro /\ d.Co = launched.a.o.Co
      BY <1>6, <2>4 DEF SameGrid
    <3>3. d.Ro >= launched.a.o.Ro
      BY <2>2, <3>2
    <3>4. \A R \in Nat, C \in Nat :
            Inside(launched.a.o, R, C) => MapElement(d, R, C) = MeantElement(x, ResRow(R), ResCol(R, C))
      BY <1>2, <2>1, <3>1, <3>3, RowByRow
    <3>5. Streamed(x, d)
      BY <2>1, <2>2, <3>1, <3>2, <3>4 DEF Streamed
    <3> QED BY <3>5
  <2>5. CASE ~SameGrid(d, o)
    <3>0. PICK P : P = d.Ro /\ P \in Nat \ {0}
      BY <2>2
    <3>a. PICK A, B : A = 0 /\ B = 1 /\ A \in Nat /\ B \in Nat
      OBVIOUS
    <3>1. PICK D : D = make_grouped_desc(d, o, P, A, B)
      OBVIOUS
    <3>2. launched.a.ins[x] = D
      BY <2>3, <2>5, <3>0, <3>a, <3>1 DEF Repeated
    <3>3. /\ IsMap(D) /\ D.Ro = o.Ro /\ D.Co = o.Co /\ D.Cs = d.Cs
          /\ \A R \in Nat, C \in Nat :
               MapElement(D, R, C) = d.base + (A * (R \div P) + B * (R % P)) * d.S_row + C
      <4>1. GroupedRows(D, d, o, P, A, B)
        BY <1>6, <2>2, <3>0, <3>a, <3>1, GroupedMap
      <4> QED BY <4>1 DEF GroupedRows
    <3>4. ASSUME NEW R \in Nat, NEW C \in Nat
          PROVE  MapElement(D, R, C) = MeantElement(x, ResRow(R), ResCol(R, C))
      <4>1. ResRow(R) = R /\ ResCol(R, C) = C
        BY <1>2 DEF ResRow, ResCol
      <4>2. PICK q, m : q = R \div P /\ m = R % P /\ q \in Nat /\ m \in 0 .. P - 1
        BY <3>0, QuotientNat
      <4>3. A * q + B * m = m
        BY <3>0, <3>a, <4>2
      <4>4. MapElement(D, R, C) = d.base + m * d.S_row + C
        BY <3>3, <4>2, <4>3
      <4>5. MeantElement(x, R, C) = d.base + m * d.S_row + C
        BY <1>2, <2>1, <3>0, <4>2, FirstMeant
      <4> QED BY <4>1, <4>4, <4>5
    <3>5. Streamed(x, D)
      BY <1>6, <2>1, <3>2, <3>3, <3>4 DEF Streamed
    <3> QED BY <3>5
  <2> QED BY <2>4, <2>5
<1>8. ASSUME NEW x \in DOMAIN call.views, NEW k \in Running, NEW n \in 0 .. Count(launched.a, k) - 1
      PROVE  FedTile(k, x, n) = First(launched.a, k) + n
  <2>1. FedTile(k, x, n) = View(k, x).t0 + n
    BY <1>2 DEF FedTile
  <2>2. View(k, x).t0 = Start(launched.a, k, x)
    BY <1>2, TileStart, ViewBlocks
  <2>3. Start(launched.a, k, x) = First(launched.a, k)
    BY <1>1, <1>2 DEF Start
  <2> QED BY <2>1, <2>2, <2>3
<1> QED BY <1>2, <1>7, <1>8, EachRight DEF StreamedEach

-----------------------------------------------------------------------------
\* Adding before or after a remainder is taken makes no difference to it.
LEMMA RemainderPlus ==
  ASSUME NEW a \in Nat, NEW b \in Nat, NEW g \in Nat \ {0}
  PROVE  ((a % g) + b) % g = (a + b) % g
<1>1. PICK q \in Nat, m \in 0 .. g - 1 : a = q * g + m /\ m = a % g
  BY DivModNat
<1>2. m + b \in Nat
  BY <1>1
<1>3. PICK p \in Nat, r \in 0 .. g - 1 : m + b = p * g + r /\ r = (m + b) % g
  BY <1>2, DivModNat
<1>4. (q + p) * g = q * g + p * g /\ q * g \in Nat /\ p * g \in Nat /\ q + p \in Int
  BY ProductNat
<1>5. a + b = (q + p) * g + r
  <2>1. PICK X \in Nat, Y \in Nat : X = q * g /\ Y = p * g
    BY <1>4
  <2>2. a = X + m /\ m + b = Y + r /\ (q + p) * g = X + Y
    BY <1>1, <1>3, <1>4, <2>1
  <2>3. m \in Int /\ r \in Int
    BY <1>1, <1>3
  <2> QED BY <2>2, <2>3
<1>6. r = (a + b) % g
  <2>1. a + b \in Int /\ r \in Int /\ 0 <= r /\ r < g
    BY <1>3
  <2> QED BY <1>4, <1>5, <2>1, DivModUnique
<1> QED BY <1>1, <1>3, <1>6

\* The token row an rk core is fed: that of its row in the group, whether it
\* reads the group once and keeps it or streams it again and again.
LEMMA TokenTile ==
  ASSUME LaunchInv, launched # None, op = "rk", w_bcast(call), NEW k \in Running,
         NEW n \in 0 .. Count(launched.a, k) - 1, NEW g \in Nat \ {0}, g = launched.a.rbs_per_group,
         NEW w, NEW p, NEW s, NEW q, RowPlace(k, n, w, p, s, q), w = ctiles(k), p = n \div ctiles(k),
         s = n % ctiles(k), q = done(launched.a, k) + p
  PROVE  FedTile(k, 3, n) = (q % g) * w + s
<1>1. /\ call \in Calls /\ call.op = op /\ launched.a = Attributes(call) /\ launched.a.op = op
  BY LaunchedFacts DEF call
<1>2. op \notin RowCopies /\ op \notin Norms /\ op \notin Eltwise
  BY <1>1, OpNames
<1>3. launched.a.w_bcast = w_bcast(call)
  <2>1. RkAttributes(call).w_bcast = w_bcast(call)
    BY RkFields
  <2>2. launched.a = RkAttributes(call)
    BY <1>1, OpAttributes
  <2> QED BY <2>1, <2>2
<1>4. PICK e, h : e = done(launched.a, k) /\ h = here(launched.a, k) /\ e \in Nat /\ h \in Nat
  BY <1>2, LaunchParts, UnitShares, CoreTile
<1>5. PICK f : f = e % g /\ f \in 0 .. g - 1
  BY <1>4, QuotientNat
<1>0. f \in Nat /\ f < g
  BY <1>5
<1>6. /\ rk_grp(k) = g /\ get_arg_val(program.reader[k], 8) = f
      /\ get_arg_val(program.reader[k], 9) = IF h > g THEN 1 ELSE 0
      /\ get_arg_val(program.compute[k], 3) = g /\ get_arg_val(program.compute[k], 4) = f
  <2>1. w_grp(launched.a) = g /\ w_phase0(launched.a, k) = f
        /\ w_resident(launched.a, k) = IF h > g THEN 1 ELSE 0
    BY <1>3, <1>4, <1>5 DEF w_grp, w_phase0, w_resident
  <2>2. get_arg_val(program.compute[k], 3) = get_arg_val(program.reader[k], 3 + 4)
        /\ get_arg_val(program.compute[k], 4) = get_arg_val(program.reader[k], 4 + 4)
    BY RkArgs, 3 \in 3 .. 5, 4 \in 3 .. 5
  <2>3. /\ rk_grp(k) = g /\ get_arg_val(program.reader[k], 8) = f
        /\ get_arg_val(program.reader[k], 9) = IF h > g THEN 1 ELSE 0
    BY <2>1, RkArgs
  <2> QED BY <2>2, <2>3 DEF rk_grp
<1>7. 3 \in DOMAIN call.views
  BY <1>1, Arity
<1>8. FedTile(k, 3, n) = w_tile(k, n, View(k, 3).t0)
  BY <1>2 DEF FedTile
<1>9. View(k, 3).t0 = IF h > g THEN 0 ELSE f * launched.a.n_otc
  <2>1. View(k, 3).t0 = Start(launched.a, k, 3)
    BY <1>2, <1>7, TileStart, ViewBlocks
  <2>2. Start(launched.a, k, 3)
          = IF w_resident(launched.a, k) = 1 THEN 0 ELSE w_phase0(launched.a, k) * launched.a.n_otc
    BY <1>1, <1>2, <1>3 DEF Start
  <2> QED BY <1>3, <1>4, <1>5, <2>1, <2>2 DEF w_resident, w_phase0
<1>10. launched.a.n_otc = w
  BY RkArgs
<1>11. w \in Nat \ {0} /\ p \in Nat /\ s \in 0 .. w - 1 /\ n = p * w + s /\ q = e + p
  BY <1>4 DEF RowPlace
<1>a. p \in Nat /\ w \in Nat \ {0}
  BY <1>11
<1>12. (f + p) % g = q % g
  <2>1. ((e % g) + p) % g = (e + p) % g
    BY <1>4, <1>a, RemainderPlus
  <2> QED BY <1>5, <1>11, <2>1
<1>13. w_tile(k, n, View(k, 3).t0)
         = IF h > g THEN ((f + p) % g) * w + s
           ELSE IF g = 0 \/ f + p < g THEN f * w + n
           ELSE ((f + p) % g) * w + s
  BY <1>6, <1>9, <1>10 DEF w_tile
<1>14. f + p < g => f * w + n = ((f + p) % g) * w + s
  <2> SUFFICES ASSUME f + p < g PROVE f * w + n = ((f + p) % g) * w + s
    OBVIOUS
  <2>1. f + p \in Nat /\ f \in Nat /\ p \in Nat /\ w \in Nat
    BY <1>0, <1>a
  <2>2. (f + p) % g = f + p
    BY <2>1, SmallRemainder
  <2>3. (f + p) * w = f * w + p * w /\ f * w \in Nat /\ p * w \in Nat
    <3>1. f * w \in Nat /\ p * w \in Nat
      BY <2>1, ProductNat
    <3> QED BY <2>1, <3>1
  <2> QED BY <1>11, <2>2, <2>3
<1> QED BY <1>8, <1>12, <1>13, <1>14

\* Row q of tiles of the result takes row q % g of a group of g.
LEMMA GroupRow ==
  ASSUME NEW q \in Nat, NEW g \in Nat \ {0}, NEW i \in 0 .. TILE - 1
  PROVE  (q * TILE + i) % (g * TILE) = (q % g) * TILE + i
<1>1. TILE \in Nat \ {0}
  BY TileAssumption
<1>2. PICK M, R : M = g * TILE /\ R = q * TILE + i
  OBVIOUS
<1>3. M \in Nat \ {0} /\ R \in Nat
  <2>1. g * TILE > 0 /\ g * TILE \in Nat
    BY <1>1
  <2>2. q * TILE \in Nat
    BY <1>1, ProductNat
  <2> QED BY <1>1, <1>2, <2>1, <2>2
<1>4. M % TILE = 0 /\ M \div TILE = g
  <2>1. M \in Int /\ g \in Int /\ 0 \in Int /\ 0 <= 0 /\ 0 < TILE /\ M = g * TILE + 0
    BY <1>1, <1>2
  <2> QED BY <1>1, <2>1, DivModUnique
<1>5. R % TILE = i /\ R \div TILE = q
  <2>1. R \in Int /\ q \in Int /\ i \in Int /\ 0 <= i /\ i < TILE /\ R = q * TILE + i
    BY <1>1, <1>2, <1>3
  <2> QED BY <1>1, <2>1, DivModUnique
<1>6. (R % M) % TILE = i /\ (R % M) \div TILE = q % g
  <2>1. (R % M) % TILE = R % TILE /\ (R % M) \div TILE = (R \div TILE) % (M \div TILE)
    <3>1. PICK T : T = TILE
      OBVIOUS
    <3>2. R \in Nat /\ T \in Nat \ {0} /\ M \in Nat \ {0} /\ M % T = 0
      BY <1>1, <1>3, <1>4, <3>1
    <3>5. R \in Nat
      BY <3>2
    <3>6. T \in Nat \ {0}
      BY <3>2
    <3>7. M \in Nat \ {0}
      BY <3>2
    <3>8. M % T = 0
      BY <3>2
    <3>3. (R % M) % T = R % T /\ (R % M) \div T = (R \div T) % (M \div T)
      BY <3>5, <3>6, <3>7, <3>8, NestedRemainder, Zenon
    <3> QED BY <3>1, <3>3
  <2> QED BY <1>4, <1>5, <2>1
<1>7. R % M \in Nat
  <2>1. R % M \in 0 .. M - 1
    BY <1>3, QuotientNat
  <2> QED BY <1>3, <2>1
<1>8. R % M = ((R % M) \div TILE) * TILE + ((R % M) % TILE)
  BY <1>1, <1>7, DivModNat
<1> QED BY <1>2, <1>6, <1>8

-----------------------------------------------------------------------------
\* The four operands of rk that are streamed.
RkStreams(x) == x # 3 \/ ~w_bcast(call)
LEMMA RkStreamed ==
  ASSUME LaunchInv, launched # None, op = "rk", NEW x \in DOMAIN call.views, RkStreams(x)
  PROVE  /\ Streamed(x, call.views[x].desc)
         /\ \A k \in Running : \A n \in 0 .. Count(launched.a, k) - 1 :
              FedTile(k, x, n) = First(launched.a, k) + n
<1>1. /\ call \in Calls /\ Lowers(call) /\ call.op = op /\ launched.a = Attributes(call)
      /\ launched.a.op = op /\ result = Out(call) /\ launched.call = call
  BY LaunchedFacts DEF call, result
<1>2. op \notin RowCopies /\ op \notin Norms /\ op \notin Eltwise /\ ~program.kernels.global
  BY <1>1, OpNames, GlobalFlag
<1>3. DOMAIN call.views = {1, 2, 3, 4, 5}
  <2>1. Len(call.views) = 5 /\ DOMAIN call.views = 1 .. Len(call.views)
    BY <1>1, Arity
  <2> QED BY <2>1
<1>4. launched.a = RkAttributes(call)
  BY <1>1, OpAttributes
<1>5. PICK d : d = call.views[x].desc
  OBVIOUS
<1>6. launched.a.ins[x] = d
  <2>1. RkAttributes(call).ins = Descs(call)
    BY RkFields
  <2> QED BY <1>4, <1>5, <2>1 DEF Descs
<1>7. d.Ro = launched.a.o.Ro /\ d.Co = launched.a.o.Co
  <2>1. RkLowers(call, Descs(call), Out(call).desc)
    BY <1>1, OpNames DEF Lowers, Eltwise, Binary, Elementwise3
  <2>2. launched.a.o.Ro = result.desc.Ro /\ launched.a.o.Co = result.desc.Co
    BY <1>2, WriterMap
  <2>3. \A y \in DOMAIN call.views : Descs(call)[y] = call.views[y].desc
    BY DEF Descs
  <2>4. SameGrid(result.desc, Descs(call)[5]) /\ \A y \in {2, 4, 5} : SameGrid(Descs(call)[y], Descs(call)[1])
    BY <1>1, <2>1 DEF RkLowers
  <2>5. x = 3 => SameGrid(Descs(call)[3], Descs(call)[1])
    BY DEF RkStreams, w_bcast
  <2> QED BY <1>3, <1>5, <2>2, <2>3, <2>4, <2>5 DEF SameGrid
<1>8. Streamed(x, d)
  <2>1. IsMap(d) /\ d.Ro \in Nat
    BY <1>2, <1>5, OperandTensor
  <2>2. d.Ro >= launched.a.o.Ro
    BY <1>7, <2>1
  <2>3. \A R \in Nat, C \in Nat :
          Inside(launched.a.o, R, C) => MapElement(d, R, C) = MeantElement(x, ResRow(R), ResCol(R, C))
    BY <1>2, <1>5, <1>6, <2>2, RowByRow
  <2> QED BY <1>5, <1>6, <1>7, <2>1, <2>3 DEF Streamed
<1>9. ASSUME NEW k \in Running, NEW n \in 0 .. Count(launched.a, k) - 1
      PROVE  FedTile(k, x, n) = First(launched.a, k) + n
  <2>1. View(k, x).t0 = Start(launched.a, k, x)
    BY <1>2, TileStart, ViewBlocks
  <2>2. launched.a.w_bcast = w_bcast(call)
    <3>1. RkAttributes(call).w_bcast = w_bcast(call)
      BY RkFields
    <3> QED BY <1>4, <3>1
  <2>3. Start(launched.a, k, x) = First(launched.a, k)
    BY <1>1, <1>2, <2>2 DEF Start, RkStreams
  <2>4. CASE x # 3
    BY <1>2, <2>1, <2>3, <2>4 DEF FedTile
  <2>5. CASE x = 3
    <3>1. w_grp(launched.a) = 0 /\ w_resident(launched.a, k) = 0
      BY <2>2, <2>5 DEF RkStreams, w_grp, w_resident
    <3>2. rk_grp(k) = 0 /\ get_arg_val(program.reader[k], 9) = 0
      BY <3>1, RkArgs
    <3>3. w_tile(k, n, View(k, x).t0) = View(k, x).t0 + n
      BY <3>2 DEF w_tile
    <3>4. FedTile(k, x, n) = w_tile(k, n, View(k, x).t0)
      BY <1>2, <2>5 DEF FedTile
    <3> QED BY <2>1, <2>3, <3>3, <3>4
  <2> QED BY <2>4, <2>5
<1> QED BY <1>5, <1>8, <1>9

\* rk: r_k's token group is repeated over the rows of the result.
LEMMA TokenRight ==
  ASSUME LaunchInv, launched # None, op = "rk", w_bcast(call), NEW k \in Running,
         NEW n \in 0 .. Count(launched.a, k) - 1, NEW i \in Cells, NEW j \in Cells,
         Inside(launched.a.o, CellRow(k, n, i), CellCol(k, n, j))
  PROVE  Fetch(View(k, 3), FedTile(k, 3, n), i, j)
           = MeantOf(ResRow(CellRow(k, n, i)), ResCol(CellRow(k, n, i), CellCol(k, n, j)))[3]
<1>1. /\ call \in Calls /\ Lowers(call) /\ call.op = op /\ launched.a = Attributes(call)
      /\ launched.a.op = op /\ result = Out(call) /\ launched.call = call
  BY LaunchedFacts DEF call, result
<1>2. op \notin RowCopies /\ op \notin Norms /\ op \notin Eltwise /\ ~program.kernels.global
  BY <1>1, OpNames, GlobalFlag
<1>3. 3 \in DOMAIN call.views /\ 3 \in Blocks /\ 1 \in DOMAIN call.views /\ 5 \in DOMAIN call.views
  <2>1. 3 \in DOMAIN call.views /\ 1 \in DOMAIN call.views /\ 5 \in DOMAIN call.views
    BY <1>1, Arity
  <2> QED BY <1>2, <2>1, ViewBlocks
<1>4. PICK d, D : d = call.views[3].desc /\ D = launched.a.o
  OBVIOUS
<1>5. launched.a = RkAttributes(call)
  BY <1>1, OpAttributes
<1>6. launched.a.ins[3] = d /\ launched.a.rbs_per_group = n_otr(d)
  <2>1. RkAttributes(call).ins = Descs(call) /\ RkAttributes(call).rbs_per_group = n_otr(Descs(call)[3])
    BY RkFields
  <2> QED BY <1>3, <1>4, <1>5, <2>1 DEF Descs
<1>7. IsMap(d) /\ d \in Linear /\ d.Ro \in Nat \ {0} /\ d.Co \in Nat \ {0} /\ IsMap(D) /\ TILE \in Nat \ {0}
  BY <1>2, <1>3, <1>4, OperandTensor, WriterMap, TileAssumption DEF IsMap, NonEmpty
<1>8. d.Co = D.Co /\ d.Ro % TILE = 0
  <2>1. RkLowers(call, Descs(call), Out(call).desc)
    BY <1>1, OpNames DEF Lowers, Eltwise, Binary, Elementwise3
  <2>2. D.Co = result.desc.Co
    BY <1>2, <1>4, WriterMap
  <2>3. \A y \in DOMAIN call.views : Descs(call)[y] = call.views[y].desc
    BY DEF Descs
  <2>4. /\ SameGrid(result.desc, Descs(call)[5]) /\ SameGrid(Descs(call)[5], Descs(call)[1])
        /\ IsTokenGroup(Descs(call)[3], Descs(call)[1])
    BY <1>1, <2>1 DEF RkLowers
  <2> QED BY <1>3, <1>4, <2>2, <2>3, <2>4 DEF SameGrid, IsTokenGroup
<1>9. PICK g : g = n_otr(d) /\ g \in Nat \ {0} /\ d.Ro = g * TILE
  <2>1. n_otr(d) \in Nat \ {0} /\ padded(d.Ro) = d.Ro
    BY <1>7, <1>8, PaddedFacts DEF n_otr
  <2> QED BY <2>1 DEF padded, n_otr
<1>10. PICK w, p, s, q : w = ctiles(k) /\ p = n \div ctiles(k) /\ s = n % ctiles(k)
                         /\ q = done(launched.a, k) + p
  OBVIOUS
<1>11. RowPlace(k, n, w, p, s, q)
  <2>1. RowOp
    BY <1>2 DEF RowOp
  <2> QED BY <1>2, <1>10, <2>1, RowTile
<1>12. FedTile(k, 3, n) = (q % g) * w + s
  BY <1>6, <1>9, <1>10, <1>11, TokenTile
<1>13. /\ w \in Nat \ {0} /\ w = n_otc(D) /\ q \in Nat /\ p \in Nat /\ s \in 0 .. w - 1 /\ n = p * w + s
       /\ CellRow(k, p * w + s, i) = q * TILE + i /\ CellCol(k, p * w + s, j) = s * TILE + j
  BY <1>4, <1>11 DEF RowPlace
<1>14. PICK R, C : R = q * TILE + i /\ C = s * TILE + j /\ R = CellRow(k, n, i) /\ C = CellCol(k, n, j)
  BY <1>13
<1>15. PICK m : m = q % g /\ m \in 0 .. g - 1
  BY <1>9, <1>13, QuotientNat
<1>16. PICK u : u = m * w + s
  OBVIOUS
<1>17. m \in Nat /\ m < g /\ s \in Nat /\ s < w
  BY <1>9, <1>13, <1>15
<1>18. u \in Nat
  <2>1. m * w \in Nat
    BY <1>13, <1>17, ProductNat
  <2> QED BY <1>16, <1>17, <2>1
<1>19. u \div w = m /\ u % w = s
  <2>1. u \in Int /\ m \in Int /\ s \in Int /\ 0 <= s
    BY <1>17, <1>18
  <2> QED BY <1>13, <1>16, <1>17, <2>1, DivModUnique
<1>20. TileRow(d, u, i) = m * TILE + i /\ TileCol(d, u, j) = C
  <2>1. n_otc(d) = w
    BY <1>8, <1>13 DEF n_otc
  <2> QED BY <1>14, <1>19, <2>1 DEF TileRow, TileCol
<1>21. PICK Q : Q = m * TILE + i
  OBVIOUS
<1>22. Q = R % d.Ro
  BY <1>9, <1>13, <1>14, <1>15, <1>21, GroupRow DEF Cells
<1>23. R \in Nat /\ C \in Nat
  BY <1>2, <1>14, CellFacts
<1>24. Q \in Nat /\ Q < d.Ro
  <2>1. R % d.Ro \in 0 .. d.Ro - 1
    BY <1>7, <1>23, QuotientNat
  <2> QED BY <1>7, <1>22, <2>1
<1>25. Inside(d, Q, C)
  BY <1>4, <1>8, <1>14, <1>24 DEF Inside
<1>26. MapElement(d, Q, C) = MeantElement(3, ResRow(R), ResCol(R, C))
  <2>1. ResRow(R) = R /\ ResCol(R, C) = C
    BY <1>2 DEF ResRow, ResCol
  <2>2. MeantElement(3, R, C) = d.base + (R % d.Ro) * d.S_row + C
    BY <1>2, <1>3, <1>4, <1>23, FirstMeant
  <2>3. MapElement(d, Q, C) = d.base + Q * d.S_row + C
    BY <1>7 DEF MapElement, SourceRow, Linear
  <2> QED BY <1>22, <2>1, <2>2, <2>3
<1>27. u = FedTile(k, 3, n)
  BY <1>12, <1>15, <1>16
<1>28. PICK r, c : r = ResRow(R) /\ c = ResCol(R, C)
  OBVIOUS
<1>29. Inside(d, Q, C) /\ MapElement(d, Q, C) = MeantElement(3, r, c)
         => Fetch(View(k, 3), FedTile(k, 3, n), i, j) = MeantOf(r, c)[3]
  BY <1>2, <1>3, <1>4, <1>6, <1>7, <1>18, <1>20, <1>21, <1>27, OperandFetch
<1> QED BY <1>14, <1>25, <1>26, <1>28, <1>29

LEMMA RkRight ==
  ASSUME LaunchInv, launched # None, op = "rk"
  PROVE  OperandsRight
<1>1. op \notin RowCopies /\ op \notin Norms
  BY LaunchedFacts, OpNames
<1> SUFFICES ASSUME NEW k \in Running, NEW n \in 0 .. Count(launched.a, k) - 1,
                    NEW i \in Cells, NEW j \in Cells, NEW x \in DOMAIN call.views
             PROVE  LET R == CellRow(k, n, i)
                        C == CellCol(k, n, j)
                        f == Fetch(View(k, x), FedTile(k, x, n), i, j)
                    IN  /\ Inside(launched.a.o, R, C) => f = MeantOf(ResRow(R), ResCol(R, C))[x]
                        /\ ~Inside(launched.a.o, R, C) /\ x = 1 => f = Zero
  BY DEF OperandsRight
<1>2. CASE RkStreams(x)
  <2>1. x \in Blocks
    BY <1>1, ViewBlocks
  <2>2. Streamed(x, call.views[x].desc) /\ FedTile(k, x, n) = First(launched.a, k) + n
    BY <1>2, RkStreamed
  <2> QED BY <1>1, <2>1, <2>2, StreamedRight
<1>3. CASE ~RkStreams(x)
  <2>1. x = 3 /\ w_bcast(call)
    BY <1>3 DEF RkStreams
  <2> QED BY <2>1, TokenRight
<1> QED BY <1>2, <1>3

-----------------------------------------------------------------------------
\* A view block walks its map through whichever accessor it is given.
LEMMA AnyAccessorWalks ==
  ASSUME LaunchInv, launched # None, op \notin RowCopies, NEW k \in Running, NEW x \in Blocks, NEW acc
  PROVE  Walks([View(k, x) EXCEPT !.acc = acc], launched.a.ins[x], Start(launched.a, k, x), acc)
<1>1. /\ Views \in 1 .. 5 /\ Blocks = 1 .. Views
      /\ Len(program.kernels.kinds) = Views
      /\ \A y \in 1 .. Views : program.kernels.kinds[y] = kind_of(launched.a.ins[y])
  BY KindsFacts
<1> DEFINE t0 == Start(launched.a, k, x)
           d == launched.a.ins[x]
           l == program.reader[k]
           s == next[x - 1]
           own == Accessor(l, x)
<1>2. LaidOut(k)
  BY ReaderEnds
<1>3. \A i \in 1 .. Len(append_view_args(t0, d)) :
        get_arg_val(l, s + (i - 1)) = append_view_args(t0, d)[i]
  BY <1>1, <1>2 DEF LaidOut, Block
<1>4. s \in Int
  <2>1. view_base \in Int
    BY DEF view_base
  <2>2. next \in [0 .. Views -> Int]
    BY <1>1, <2>1, NextFacts
  <2>3. x - 1 \in 0 .. Views
    BY <1>1
  <2> QED BY <2>2, <2>3
<1>5. View(k, x) = TensorViewArgs(l, s, kind_of(d), own)
  BY <1>1 DEF View
<1> HIDE DEF t0, d, l, s, own
<1>6. [TensorViewArgs(l, s, kind_of(d), own) EXCEPT !.acc = acc] = TensorViewArgs(l, s, kind_of(d), acc)
  BY DEF TensorViewArgs
<1>7. Walks(TensorViewArgs(l, s, kind_of(d), acc), d, t0, acc)
  BY <1>3, <1>4, BlockWalks
<1> QED BY <1>5, <1>6, <1>7 DEF t0, d

\* An element of a tensor's first row.
LEMMA FirstRowElement ==
  ASSUME NEW acc, NEW S \in Nat \ {0}, S % TILE = 0, NEW c \in Nat, c < S
  PROVE  PageElement(acc, c, S) = InPage(acc, c \div TILE, 0, c % TILE)
<1>1. TILE \in Nat \ {0}
  BY TileAssumption
<1>2. c \div S = 0 /\ c % S = c
  BY SmallRemainder
<1>3. 0 \div TILE = 0 /\ 0 % TILE = 0
  <2>1. 0 \in Nat /\ 0 < TILE
    BY <1>1
  <2> QED BY <1>1, <2>1, SmallRemainder
<1>4. PICK h, q : h = S \div TILE /\ q = c \div TILE /\ h \in Nat /\ q \in Nat
  BY <1>1, QuotientNat
<1>5. PageNumber(c, S, TILE) = 0 * h + q
  BY <1>2, <1>3, <1>4 DEF PageNumber
<1>6. 0 * h + q = q
  BY <1>4
<1> QED BY <1>2, <1>3, <1>4, <1>5, <1>6 DEF PageElement

\* A weight is the first row of a tensor.
LEMMA WeightRow ==
  ASSUME LaunchInv, launched # None, op \in Norms, NEW x \in DOMAIN call.views, x # 1,
         NEW r \in Nat, NEW c \in 0 .. call.views[1].desc.Co - 1
  PROVE  MeantOf(r, c)[x] = InPage(Acc(launched.ins[x]), c \div TILE, 0, c % TILE)
<1>1. /\ call \in Calls /\ Lowers(call) /\ call.op = op
  BY LaunchedFacts DEF call
<1>2. op \notin RowCopies /\ op # "lerp"
  BY DEF Norms, RowCopies
<1>3. PICK v, d, W : v = call.views[x] /\ d = v.desc /\ W = RowWidth(call) /\ W = call.views[1].desc.Co
  BY DEF RowWidth
<1>4. W \in Nat \ {0} /\ c \in Nat /\ c < W
  <2>1. 1 \in DOMAIN call.views
    BY <1>1, Arity
  <2>2. NonEmpty(call.views[1].desc)
    BY <1>1, <2>1, OperandsAssumption DEF Calls
  <2>3. W \in Nat \ {0}
    BY <1>3, <2>2 DEF NonEmpty
  <2> QED BY <1>3, <2>3
<1>5. NormLowers(call, Descs(call), Out(call).desc)
  BY <1>1, OpNames DEF Lowers, Norms, Eltwise, Binary, Elementwise3, RowCopies
<1>6. IsWeight(call, v)
  BY <1>3, <1>5 DEF NormLowers
<1>7. d \in Linear /\ IsMap(d) /\ d.Cs \in Nat \ {0} /\ d.Cs % TILE = 0 /\ d.S_row \in Nat
  BY <1>2, <1>3, OperandTensor DEF IsMap
<1>8. d.base = 0 /\ d.Ro = 1 /\ W <= d.Cs
  <2>1. CASE call.by_view
    BY <1>3, <1>4, <1>6, <2>1 DEF IsWeight, is_plain_source
  <2>2. CASE ~call.by_view
    <3>1. v.rows = 1 /\ v.cols = W
      BY <1>3, <1>6, <2>2 DEF IsWeight
    <3>2. d = dense(1, W)
      BY <1>1, <1>3, <2>2, <3>1, ViewsAssumption DEF Calls
    <3>3. d.base = 0 /\ d.Ro = 1 /\ d.Cs = padded(W)
      BY <3>2 DEF dense, linear
    <3> QED BY <1>4, <3>3, PaddedFacts
  <2> QED BY <2>1, <2>2
<1>9. MeantElement(x, r, c) = c
  <2>1. MeantElement(x, r, c) = d.base + (r % d.Ro) * d.S_row + c
    BY <1>2, <1>3, <1>4, FirstMeant
  <2>2. r % 1 = 0
    OBVIOUS
  <2>3. MeantElement(x, r, c) = 0 + 0 * d.S_row + c
    BY <1>8, <2>1, <2>2
  <2> QED BY <1>4, <1>7, <2>3
<1>10. MeantOf(r, c)[x] = PageElement(Acc(launched.ins[x]), c, d.Cs)
  BY <1>2, <1>3, <1>9, MeantOperand
<1>11. c < d.Cs
  BY <1>4, <1>7, <1>8
<1> QED BY <1>4, <1>7, <1>10, <1>11, FirstRowElement

\* A norm's x, folded or not, is streamed on the grid of the result.
LEMMA NormStreamed ==
  ASSUME LaunchInv, launched # None, op \in Norms
  PROVE  /\ Streamed(1, launched.a.ins[1])
         /\ launched.a.ins[1] = IF program.kernels.global THEN Folded(call.views[1].desc)
                                                          ELSE call.views[1].desc
         /\ result.desc.Co = call.views[1].desc.Co
         /\ \A k \in Running : /\ View(k, 1).t0 = First(launched.a, k)
                               /\ Start(launched.a, k, 1) = First(launched.a, k)
                               /\ \A n : FedTile(k, 1, n) = First(launched.a, k) + n
         /\ Blocks = {1} /\ 1 \in DOMAIN call.views /\ launched.a.affine = Affine(call)
         /\ program.kernels.global => Folds(call)
<1>1. /\ call \in Calls /\ Lowers(call) /\ call.op = op /\ launched.a = Attributes(call)
      /\ launched.a.op = op /\ result = Out(call) /\ launched.call = call
  BY LaunchedFacts DEF call, result
<1>2. op \notin RowCopies /\ op \notin Eltwise /\ op # "rk" /\ op # "lerp"
  BY DEF Norms, RowCopies, Eltwise, Binary, Elementwise3
<1>3. Blocks = {1}
  <2>1. Blocks = 1 .. 1
    BY <1>1, <1>2, KindsFacts DEF Views, Walked
  <2> QED BY <2>1
<1>4. 1 \in DOMAIN call.views
  BY <1>1, Arity
<1>5. PICK d, o : d = call.views[1].desc /\ o = result.desc
  OBVIOUS
<1>6. PICK b : b = NormAttributes(call)
  OBVIOUS
<1>7. launched.a = b
  BY <1>1, <1>6, OpAttributes
<1>8. b.ins = <<NormMap(call, d)>> /\ b.affine = Affine(call)
  BY <1>5, <1>6, NormFields
<1>9. launched.a.ins[1] = NormMap(call, d)
  BY <1>7, <1>8
<1>10. SameGrid(o, d)
  <2>1. NormLowers(call, Descs(call), Out(call).desc)
    BY <1>1, OpNames DEF Lowers, Norms, Eltwise, Binary, Elementwise3, RowCopies
  <2>2. Descs(call)[1] = d
    BY <1>4, <1>5 DEF Descs
  <2> QED BY <1>1, <1>5, <2>1, <2>2 DEF NormLowers
<1>11. o.Co = d.Co /\ o.Ro = d.Ro
  BY <1>10 DEF SameGrid
<1>12. program.kernels.global <=> Folds(call)
  BY <1>2, WriterMap
<1>13. d \in Linear /\ IsMap(d) /\ d.Ro \in Nat /\ d.base \in Nat /\ d.S_row \in Nat
  BY <1>2, <1>4, <1>5, OperandTensor DEF IsMap
<1>14. ASSUME NEW k \in Running
       PROVE  /\ View(k, 1).t0 = First(launched.a, k) /\ Start(launched.a, k, 1) = First(launched.a, k)
              /\ \A n : FedTile(k, 1, n) = First(launched.a, k) + n
  <2>1. View(k, 1).t0 = Start(launched.a, k, 1)
    BY <1>2, <1>3, TileStart
  <2>2. Start(launched.a, k, 1) = First(launched.a, k)
    BY <1>1, <1>2 DEF Start
  <2>3. \A n : FedTile(k, 1, n) = View(k, 1).t0 + n
    BY <1>2 DEF FedTile
  <2> QED BY <2>1, <2>2, <2>3
<1>15. CASE ~program.kernels.global
  <2>1. launched.a.ins[1] = d
    BY <1>9, <1>12, <1>15 DEF NormMap
  <2>2. launched.a.o.Ro = o.Ro /\ launched.a.o.Co = o.Co
    BY <1>2, <1>5, <1>15, WriterMap
  <2>3. d.Ro >= launched.a.o.Ro
    BY <1>11, <1>13, <2>2
  <2>4. \A R \in Nat, C \in Nat :
          Inside(launched.a.o, R, C) => MapElement(d, R, C) = MeantElement(1, ResRow(R), ResCol(R, C))
    BY <1>2, <1>4, <1>5, <1>15, <2>1, <2>3, RowByRow
  <2>5. Streamed(1, d)
    BY <1>5, <1>11, <1>13, <2>1, <2>2, <2>4 DEF Streamed
  <2> QED BY <1>3, <1>4, <1>5, <1>7, <1>8, <1>11, <1>12, <1>14, <1>15, <2>1, <2>5
<1>16. CASE program.kernels.global
  <2>1. PICK D : D = Folded(d)
    OBVIOUS
  <2>2. launched.a.ins[1] = D
    BY <1>9, <1>12, <1>16, <2>1 DEF NormMap
  <2>3. launched.a.o = Folded(o) /\ o.Ro = 1 /\ o.Co % (TILE * TILE) = 0
    BY <1>2, <1>5, <1>16, WriterMap
  <2>4. /\ IsMap(D) /\ D.P = 0 /\ D.base = d.base /\ D.Cs = d.Cs /\ D.S_row = TILE
    BY <1>11, <1>13, <2>1, <2>3, FoldedMap
  <2>5. D.Ro = launched.a.o.Ro /\ D.Co = launched.a.o.Co
    BY <1>11, <2>1, <2>3 DEF Folded, linear
  <2>6. ASSUME NEW R \in Nat, NEW C \in Nat
        PROVE  MapElement(D, R, C) = MeantElement(1, ResRow(R), ResCol(R, C))
    <3>1. MapElement(D, R, C) = d.base + R * TILE + C
      BY <2>4 DEF MapElement, SourceRow
    <3>2. ResRow(R) = 0 /\ ResCol(R, C) = R * TILE + C
      BY <1>16 DEF ResRow, ResCol
    <3>3. PICK e : e = R * TILE + C /\ e \in Nat
      <4>1. R * TILE \in Nat
        BY TileAssumption, ProductNat
      <4> QED BY <4>1
    <3>4. MeantElement(1, 0, e) = d.base + (0 % d.Ro) * d.S_row + e
      BY <1>2, <1>4, <1>5, <3>3, FirstMeant, 0 \in Nat
    <3>5. 0 % d.Ro = 0
      BY <1>11, <2>3
    <3>6. MeantElement(1, 0, e) = d.base + e
      BY <1>13, <3>3, <3>4, <3>5
    <3>7. d.base + R * TILE + C = d.base + e
      <4>1. PICK p \in Nat : p = R * TILE
        BY TileAssumption, ProductNat
      <4> QED BY <1>13, <3>3, <4>1
    <3> QED BY <3>1, <3>2, <3>3, <3>6, <3>7
  <2>7. Streamed(1, D)
    BY <1>5, <2>2, <2>4, <2>5, <2>6 DEF Streamed
  <2> QED BY <1>3, <1>4, <1>5, <1>7, <1>8, <1>11, <1>12, <1>14, <1>16, <2>1, <2>2, <2>7
<1> QED BY <1>15, <1>16

-----------------------------------------------------------------------------
\* A folded norm finds its weights through the view of x: they lie where x's
\* elements do in their tensor only when x starts at its first element and is
\* a piece of its first row.
RegularNorm(c) ==
  c.op \in Norms /\ Folds(c) =>
    \/ Affine(c) = 0
    \/ c.views[1].desc.base = 0 /\ c.views[1].desc.Co <= c.views[1].desc.Cs

\* The weight of a row norm's cell.
LEMMA RowWeight ==
  ASSUME LaunchInv, launched # None, op \in Norms, ~program.kernels.global, NEW k \in Running,
         NEW n \in 0 .. Count(launched.a, k) - 1, NEW i \in Cells, NEW j \in Cells,
         NEW x \in DOMAIN call.views, x # 1,
         Inside(launched.a.o, CellRow(k, n, i), CellCol(k, n, j))
  PROVE  FetchWeight(k, x - 1, n, i, j)
           = MeantOf(ResRow(CellRow(k, n, i)), ResCol(CellRow(k, n, i), CellCol(k, n, j)))[x]
<1>1. op \notin RowCopies /\ RowOp
  BY DEF Norms, RowCopies, RowOp
<1>2. PICK w, p, s, q : w = ctiles(k) /\ p = n \div ctiles(k) /\ s = n % ctiles(k)
                        /\ q = done(launched.a, k) + p
  OBVIOUS
<1>3. RowPlace(k, n, w, p, s, q)
  BY <1>1, <1>2, RowTile
<1>4. s \in Nat /\ CellCol(k, n, j) = s * TILE + j
  <2>1. /\ s \in 0 .. w - 1 /\ w \in Nat \ {0} /\ n = p * w + s
        /\ CellCol(k, p * w + s, j) = s * TILE + j
    BY <1>3 DEF RowPlace
  <2>2. s \in Nat
    BY <2>1
  <2>3. CellCol(k, n, j) = CellCol(k, p * w + s, j)
    BY <2>1
  <2> QED BY <2>1, <2>2, <2>3
<1>5. PICK R, C : R = CellRow(k, n, i) /\ C = CellCol(k, n, j)
  OBVIOUS
<1>6. R \in Nat /\ C \in Nat /\ ResRow(R) = R /\ ResCol(R, C) = C
  BY <1>1, <1>5, CellFacts DEF ResRow, ResCol
<1>7. C \in 0 .. call.views[1].desc.Co - 1
  <2>1. ResCol(R, C) \in 0 .. result.desc.Co - 1
    BY <1>1, <1>5, <1>6, ResultCell
  <2> QED BY <1>6, <2>1, NormStreamed
<1>8. MeantOf(R, C)[x] = InPage(Acc(launched.ins[x]), C \div TILE, 0, C % TILE)
  BY <1>6, <1>7, WeightRow
<1>9. C \div TILE = s /\ C % TILE = j
  <2>1. C \in Int /\ s \in Int /\ j \in Int /\ 0 <= j /\ j < TILE /\ C = s * TILE + j
    BY <1>4, <1>5, <1>6, TileAssumption DEF Cells
  <2> QED BY <2>1, TileAssumption, DivModUnique
<1>10. FetchWeight(k, x - 1, n, i, j) = InPage(Accessor(program.reader[k], x), s, 0, j)
  <2>1. x \in Int
    BY LaunchedFacts, Arity DEF call
  <2>2. (x - 1) + 1 = x
    BY <2>1
  <2> QED BY <1>2, <2>2 DEF FetchWeight
<1>11. Accessor(program.reader[k], x) = Acc(launched.ins[x])
  <2>1. x \in DOMAIN launched.ins
    BY <1>1, OperandTensor
  <2> QED BY <1>1, <2>1, Accessors
<1> QED BY <1>5, <1>6, <1>8, <1>9, <1>10, <1>11

\* And of a folded one's.
LEMMA FoldedWeight ==
  ASSUME LaunchInv, launched # None, op \in Norms, program.kernels.global, RegularNorm(call),
         NEW k \in Running,
         NEW n \in 0 .. Count(launched.a, k) - 1, NEW i \in Cells, NEW j \in Cells,
         NEW x \in DOMAIN call.views, x # 1,
         Inside(launched.a.o, CellRow(k, n, i), CellCol(k, n, j))
  PROVE  FetchWeight(k, x - 1, n, i, j)
           = MeantOf(ResRow(CellRow(k, n, i)), ResCol(CellRow(k, n, i), CellCol(k, n, j)))[x]
<1>1. /\ call \in Calls /\ call.op = op
  BY LaunchedFacts DEF call
<1>2. op \notin RowCopies
  BY DEF Norms, RowCopies
<1>3. PICK d, D, O, u : /\ d = call.views[1].desc /\ D = Folded(d) /\ O = launched.a.o
                        /\ u = First(launched.a, k) + n
  OBVIOUS
<1>4. PICK acc : acc = Accessor(program.reader[k], x) /\ acc = Acc(launched.ins[x])
  <2>1. x \in DOMAIN launched.ins
    BY <1>2, OperandTensor
  <2> QED BY <1>2, <2>1, Accessors
<1>5. PICK v : v = [View(k, 1) EXCEPT !.acc = acc]
  OBVIOUS
<1>6. /\ launched.a.ins[1] = D /\ View(k, 1).t0 = First(launched.a, k) /\ 1 \in Blocks
      /\ Start(launched.a, k, 1) = First(launched.a, k) /\ Folds(call) /\ Streamed(1, D)
      /\ 1 \in DOMAIN call.views /\ result.desc.Co = d.Co
  BY <1>3, NormStreamed
<1>7. Walks(v, D, First(launched.a, k), acc)
  BY <1>2, <1>5, <1>6, AnyAccessorWalks
<1>8. FetchWeight(k, x - 1, n, i, j) = Fetch(v, u, i, j)
  <2>1. x \in Int
    BY <1>1, Arity
  <2>2. (x - 1) + 1 = x
    BY <2>1
  <2> QED BY <1>3, <1>4, <1>5, <1>6, <2>2 DEF FetchWeight
<1>9. d.base = 0 /\ d.Co <= d.Cs
  <2>1. Affine(call) # 0
    <3>1. PICK L \in 1 .. 3 : L = Len(call.views) /\ DOMAIN call.views = 1 .. L
      BY <1>1, Arity
    <3>2. x \in 1 .. L /\ x # 1
      BY <3>1
    <3>3. L \in Int /\ x \in Int /\ 1 <= x /\ x <= L
      BY <3>1, <3>2
    <3>4. L - 1 # 0
      BY <3>2, <3>3
    <3>5. Affine(call) = L - 1
      BY <3>1 DEF Affine
    <3> QED BY <3>4, <3>5
  <2> QED BY <1>1, <1>3, <1>6, <2>1 DEF RegularNorm
<1>10. /\ d \in Linear /\ IsMap(d) /\ d.Cs \in Nat \ {0} /\ d.Cs % TILE = 0 /\ d.Co \in Nat \ {0}
  BY <1>2, <1>3, <1>6, OperandTensor DEF IsMap, NonEmpty
<1>11. IsMap(D) /\ D.P = 0 /\ D.base = 0 /\ D.Cs = d.Cs /\ D.S_row = TILE /\ D.Ro = O.Ro /\ D.Co = O.Co
  <2>1. IsMap(D) /\ D.Ro = O.Ro /\ D.Co = O.Co
    BY <1>3, <1>6 DEF Streamed
  <2>2. D.P = 0 /\ D.base = d.base /\ D.Cs = d.Cs /\ D.S_row = TILE
    BY <1>3 DEF Folded, linear
  <2> QED BY <1>9, <2>1, <2>2
<1>12. PICK R, C : R = CellRow(k, n, i) /\ C = CellCol(k, n, j)
  OBVIOUS
<1>13. R \in Nat /\ C \in Nat /\ u \in Nat
  BY <1>2, <1>3, <1>12, CellFacts, CoreTile
<1>14. R = TileRow(D, u, i) /\ C = TileCol(D, u, j) /\ Inside(D, R, C) /\ Inside(O, R, C)
  BY <1>3, <1>11, <1>12 DEF CellRow, CellCol, TileRow, TileCol, n_otc, Inside
<1>15. Fetch(v, u, i, j) = PageElement(acc, MapElement(D, R, C), D.Cs)
  BY <1>7, <1>11, <1>13, <1>14, MapFetch DEF Cells
<1>16. PICK e : e = ResCol(R, C) /\ e \in 0 .. d.Co - 1
  BY <1>2, <1>3, <1>6, <1>13, <1>14, ResultCell
<1>17. e = R * TILE + C /\ ResRow(R) = 0
  BY <1>16 DEF ResCol, ResRow
<1>18. MapElement(D, R, C) = e
  <2>1. MapElement(D, R, C) = 0 + R * TILE + C
    BY <1>11 DEF MapElement, SourceRow
  <2>2. R * TILE \in Nat
    BY <1>13, TileAssumption, ProductNat
  <2> QED BY <1>13, <1>17, <2>1, <2>2
<1>19. e \in Nat /\ e < d.Cs
  BY <1>9, <1>10, <1>16
<1>20. Fetch(v, u, i, j) = InPage(acc, e \div TILE, 0, e % TILE)
  <2>1. Fetch(v, u, i, j) = PageElement(acc, e, d.Cs)
    BY <1>11, <1>15, <1>18
  <2> QED BY <1>10, <1>19, <2>1, FirstRowElement
<1>21. MeantOf(0, e)[x] = InPage(acc, e \div TILE, 0, e % TILE)
  BY <1>3, <1>4, <1>16, WeightRow, 0 \in Nat
<1> QED BY <1>8, <1>12, <1>16, <1>17, <1>20, <1>21

\* A norm's cell is made of x's element and its weights'.
LEMMA NormRight ==
  ASSUME LaunchInv, launched # None, op \in Norms, RegularNorm(call)
  PROVE  CellsRight
<1>1. /\ call \in Calls /\ call.op = op
  BY LaunchedFacts DEF call
<1>2. op \notin RowCopies
  BY DEF Norms, RowCopies
<1>3. Blocks = {1} /\ 1 \in DOMAIN call.views /\ Streamed(1, launched.a.ins[1])
  BY NormStreamed
<1>4. PICK L \in 1 .. 3 : L = Len(call.views) /\ DOMAIN call.views = 1 .. L
  BY <1>1, Arity
<1> SUFFICES ASSUME NEW k \in Running, NEW n \in 0 .. Count(launched.a, k) - 1,
                    NEW i \in Cells, NEW j \in Cells
             PROVE  LET R == CellRow(k, n, i)
                        C == CellCol(k, n, j)
                    IN  /\ Inside(launched.a.o, R, C) =>
                             MadeAt(k, n, i, j) = MeantOf(ResRow(R), ResCol(R, C))
                        /\ ~Inside(launched.a.o, R, C) /\ (RowOp \/ program.kernels.global)
                             => MadeAt(k, n, i, j)[1] = Zero
  BY DEF CellsRight
<1>5. affine_kind(k) = L - 1
  <2>1. affine_kind(k) = launched.a.affine
    <3>1. CASE program.kernels.global
      BY <3>1, GlobalArgs DEF affine_kind
    <3>2. CASE ~program.kernels.global
      BY <3>2, NormArgs DEF affine_kind
    <3> QED BY <3>1, <3>2
  <2> QED BY <1>4, <2>1, NormStreamed DEF Affine
<1>6. PICK R, C : R = CellRow(k, n, i) /\ C = CellCol(k, n, j)
  OBVIOUS
<1>7. PICK m : m = MeantOf(ResRow(R), ResCol(R, C))
  OBVIOUS
<1> DEFINE f == Fetch(View(k, 1), FedTile(k, 1, n), i, j)
           g(x) == FetchWeight(k, x - 1, n, i, j)
<1>8. /\ Inside(launched.a.o, R, C) => f = m[1]
      /\ ~Inside(launched.a.o, R, C) => f = Zero
  <2>1. FedTile(k, 1, n) = First(launched.a, k) + n
    BY NormStreamed
  <2> QED BY <1>2, <1>3, <1>6, <1>7, <2>1, StreamedRight
<1>9. Inside(launched.a.o, R, C) => \A x \in DOMAIN call.views \ {1} : g(x) = m[x]
  BY <1>6, <1>7, RowWeight, FoldedWeight
<1>10. MadeAt(k, n, i, j) = [x \in 1 .. L |-> IF x = 1 THEN f ELSE g(x)]
  <2>1. Weights(k) = 1 .. L - 1
    BY <1>5 DEF Weights
  <2>2. Blocks \cup {w + 1 : w \in Weights(k)} = 1 .. L
    <3>1. L = 1 \/ L = 2 \/ L = 3
      BY <1>4
    <3>2. CASE L = 1
      BY <1>3, <2>1, <3>2
    <3>3. CASE L = 2
      BY <1>3, <2>1, <3>3
    <3>4. CASE L = 3
      BY <1>3, <2>1, <3>4
    <3> QED BY <3>1, <3>2, <3>3, <3>4
  <2>3. \A x \in 1 .. L : x \in Blocks <=> x = 1
    BY <1>3
  <2> QED BY <2>2, <2>3 DEF MadeAt
<1>11. m = [x \in 1 .. L |-> m[x]]
  BY <1>2, <1>4, <1>7, MeantOperand
<1> HIDE DEF f, g
<1>12. Inside(launched.a.o, R, C) => MadeAt(k, n, i, j) = m
  BY <1>4, <1>8, <1>9, <1>10, <1>11
<1>13. ~Inside(launched.a.o, R, C) => MadeAt(k, n, i, j)[1] = Zero
  <2>1. 1 \in 1 .. L
    BY <1>3, <1>4
  <2>2. MadeAt(k, n, i, j)[1] = f
    BY <1>10, <2>1
  <2> QED BY <1>8, <2>2
<1> QED BY <1>6, <1>7, <1>12, <1>13

-----------------------------------------------------------------------------
(***************************************************************************)
(* Elementwise calls whose operands cover the output: every operand is as  *)
(* wide as the output, and one with fewer rows than the output's view is   *)
(* one row for a tensor of several, or whole tile rows.  In a token shift  *)
(* a and b have a row for each token, and the weights' rows are as far     *)
(* apart as the host takes them to be; otherwise no row is stretched.      *)
(***************************************************************************)
StretchedWeights(c, o) ==
  c.op = "lerp" /\ c.views[2].rows = Tokens(c) /\ o.desc.Ro = Tokens(c) * c.views[3].rows
RegularFeed(c) ==
  c.op \in Eltwise =>
    LET o == EltwiseOut(c)
    IN  /\ \A x \in DOMAIN c.views : c.views[x].desc.Co = o.desc.Co
        /\ IF Shifted(c, o)
           THEN /\ \A x \in 1 .. 2 : c.views[x].desc.Ro = Tokens(c)
                /\ o.desc.Ro = Tokens(c) * WeightRows(c)
                /\ c.views[3].desc.Ro \div WeightRows(c) = wstride(c)
           ELSE /\ \A x \in DOMAIN c.views :
                     LET d == c.views[x].desc
                     IN  RowBroadcast(d, o.rows) \/ d.Ro >= o.desc.Ro \/ d.Ro % TILE = 0
                /\ StretchedWeights(c, o) => Tokens(c) = 1 /\ WeightRows(c) = c.views[3].desc.Ro

\* What is known of the launch of an elementwise call.
LEMMA EltwiseCall ==
  ASSUME LaunchInv, launched # None, op \in Eltwise
  PROVE  /\ call \in Calls /\ Lowers(call) /\ Accepted(call) /\ call.op = op
         /\ result = EltwiseOut(call)
         /\ launched.a.op = op /\ launched.a.ins = Feed(call).maps
         /\ launched.a.bcast = Feed(call).bcast /\ launched.a.tpg = Feed(call).tpg
         /\ Blocks = DOMAIN call.views /\ ~program.kernels.global /\ op \notin RowCopies /\ op \notin Norms
         /\ launched.a.o.Ro = result.desc.Ro /\ launched.a.o.Co = result.desc.Co
         /\ result.desc \in Linear /\ IsMap(result.desc) /\ IsMap(launched.a.o)
<1>1. /\ call \in Calls /\ Lowers(call) /\ call.op = op /\ launched.a = Attributes(call)
      /\ launched.a.op = op /\ result = Out(call)
  BY LaunchedFacts DEF call, result
<1>2. op \notin RowCopies /\ op \notin Norms /\ ~program.kernels.global
  BY <1>1, OpNames, GlobalFlag
<1>3. Accepted(call)
  BY <1>1, OpNames DEF Lowers, RowCopies
<1>4. result = EltwiseOut(call)
  BY <1>1 DEF Out, Eltwise, Binary, Elementwise3
<1>5. PICK b : b = EltwiseAttributes(call)
  OBVIOUS
<1>6. b.ins = Feed(call).maps /\ b.bcast = Feed(call).bcast /\ b.tpg = Feed(call).tpg
  BY <1>5, EltwiseFields
<1>7. launched.a = b
  BY <1>1, <1>5, OpAttributes
<1> QED BY <1>1, <1>2, <1>3, <1>4, <1>6, <1>7, ViewBlocks, WriterMap

\* An elementwise reader's tile is the output's, or one of a resident group.
LEMMA EltwiseFed ==
  ASSUME LaunchInv, launched # None, op \in Eltwise, NEW k \in Running,
         NEW n \in 0 .. Count(launched.a, k) - 1, NEW x \in DOMAIN call.views
  PROVE  FedTile(k, x, n)
           = IF Feed(call).bcast[x]
             THEN ((First(launched.a, k) % launched.a.tpg) + n) % launched.a.tpg
             ELSE First(launched.a, k) + n
<1>1. op \notin RowCopies /\ x \in Blocks /\ launched.a.bcast = Feed(call).bcast /\ launched.a.op = op
  BY EltwiseCall
<1>2. op # "rk"
  BY DEF Eltwise, Binary, Elementwise3
<1>3. View(k, x).t0 = Start(launched.a, k, x)
  BY <1>1, TileStart
<1>4. PICK f, g, m : f = First(launched.a, k) % launched.a.tpg /\ g = launched.a.tpg /\ m = First(launched.a, k)
  OBVIOUS
<1>5. /\ reader_bcast(k, x) = flag(launched.a.bcast[x])
      /\ get_arg_val(program.compute[k], 1) = g /\ get_arg_val(program.compute[k], 2) = f
  BY <1>1, <1>4, EltwiseArgs
<1>6. group_tile(k, n) = (f + n) % g
  BY <1>5 DEF group_tile
<1>7. CASE Feed(call).bcast[x]
  <2>1. reader_bcast(k, x) = 1
    BY <1>1, <1>5, <1>7 DEF flag
  <2>2. Start(launched.a, k, x) = 0
    BY <1>1, <1>7 DEF Start
  <2>3. FedTile(k, x, n) = 0 + ((f + n) % g)
    BY <1>3, <1>6, <2>1, <2>2 DEF FedTile
  <2>4. (f + n) % g \in Nat
    <3>1. g \in Nat \ {0}
      BY <1>1, <1>4, <1>7, EltwiseCall, GroupDivides, LaunchedFacts DEF call
    <3>2. m \in Nat /\ n \in Nat
      BY <1>1, <1>4, CoreTile
    <3>3. f \in 0 .. g - 1
      BY <1>4, <3>1, <3>2, QuotientNat
    <3>4. f + n \in Nat
      BY <3>1, <3>2, <3>3
    <3>5. (f + n) % g \in 0 .. g - 1
      BY <3>1, <3>4, QuotientNat
    <3> QED BY <3>1, <3>5
  <2> QED BY <1>4, <1>7, <2>3, <2>4
<1>8. CASE ~Feed(call).bcast[x]
  <2>1. reader_bcast(k, x) = 0
    BY <1>1, <1>5, <1>8 DEF flag
  <2>2. Start(launched.a, k, x) = m
    BY <1>1, <1>2, <1>4, <1>8 DEF Start
  <2> QED BY <1>1, <1>2, <1>3, <1>4, <1>8, <2>1, <2>2 DEF FedTile
<1> QED BY <1>7, <1>8

\* Without a token shift no operand is stretched.
LEMMA PlainMeant ==
  ASSUME LaunchInv, launched # None, op \in Eltwise, RegularFeed(call),
         ~Shifted(call, result), NEW x \in DOMAIN call.views
  PROVE  LET d == call.views[x].desc
         IN  \A r \in Nat, c \in Nat : MeantElement(x, r, c) = d.base + (r % d.Ro) * d.S_row + c
<1>1. CASE ~(x = 3 /\ StretchedWeights(call, result))
  <2>1. PICK d : d = call.views[x].desc
    OBVIOUS
  <2>2. op \notin RowCopies /\ call.op = op
    BY EltwiseCall
  <2>3. Meant(call, result, x)
          = [base |-> d.base, Co |-> d.Co, S_row |-> d.S_row * 1, Ro |-> d.Ro, span |-> 1]
    BY <1>1, <2>1 DEF Meant, StretchedWeights
  <2>4. IsMap(d) /\ d.S_row * 1 = d.S_row
    <3>1. IsMap(d)
      BY <2>1, <2>2, OperandTensor
    <3> QED BY <3>1 DEF IsMap
  <2>5. \A r, c : MeantElement(x, r, c) = d.base + ((r \div 1) % d.Ro) * d.S_row + c
    BY <2>3, <2>4 DEF MeantElement
  <2>6. \A r \in Nat : r \div 1 = r
    BY SmallRemainder, 1 \in Nat \ {0}
  <2> QED BY <2>1, <2>5, <2>6
<1>2. CASE x = 3 /\ StretchedWeights(call, result)
  <2>1. PICK v, d : v = call.views[3] /\ d = v.desc
    OBVIOUS
  <2>2. Tokens(call) = 1 /\ WeightRows(call) = d.Ro
    BY <1>2, <2>1, EltwiseCall DEF RegularFeed
  <2>3. v.rows = d.Ro
    BY <2>1, <2>2 DEF WeightRows
  <2>4. IsMap(d) /\ d.Ro \in Nat \ {0} /\ d.S_row \in Nat
    <3>1. IsMap(d) /\ d.Ro \in Nat \ {0}
      BY <1>2, <2>1, EltwiseCall, OperandTensor
    <3> QED BY <3>1 DEF IsMap
  <2>5. d.Ro \div v.rows = 1
    <3>1. d.Ro = 1 * d.Ro + 0 /\ d.Ro \in Int /\ 1 \in Int /\ 0 \in Int /\ 0 <= 0 /\ 0 < d.Ro
      BY <2>4
    <3>2. 1 = d.Ro \div d.Ro
      BY <2>4, <3>1, DivModUnique
    <3> QED BY <2>3, <3>2
  <2>6. Meant(call, result, 3)
          = [base |-> d.base, Co |-> d.Co, S_row |-> d.S_row * 1, Ro |-> d.Ro, span |-> 1]
    BY <1>2, <2>1, <2>2, <2>3, <2>5 DEF Meant, StretchedWeights
  <2>7. d.S_row * 1 = d.S_row
    BY <2>4
  <2>8. \A r, c : MeantElement(3, r, c) = d.base + ((r \div 1) % d.Ro) * d.S_row + c
    BY <2>6, <2>7 DEF MeantElement
  <2>9. \A r \in Nat : r \div 1 = r
    BY SmallRemainder, 1 \in Nat \ {0}
  <2> QED BY <1>2, <2>1, <2>8, <2>9
<1> QED BY <1>1, <1>2

-----------------------------------------------------------------------------
\* Every resident operand is as large as the group.
LEMMA ResidentGroup ==
  ASSUME LaunchInv, launched # None, op \in Eltwise, ~Shifted(call, result),
         NEW x \in DOMAIN call.views, Resident(call.views[x].desc, result.desc, result.rows)
  PROVE  launched.a.tpg = out_tiles(call.views[x].desc)
<1> DEFINE S == Groups(call, result)
           f(y) == out_tiles(call.views[y].desc)
<1>1. call \in Calls /\ call.op = op /\ Accepted(call) /\ result = EltwiseOut(call)
      /\ launched.a.tpg = Feed(call).tpg
  BY EltwiseCall
<1>2. S \subseteq {f(1)} \cup {f(2)} \cup {f(3)}
  <2> SUFFICES ASSUME NEW m \in S PROVE m \in {f(1)} \cup {f(2)} \cup {f(3)}
    OBVIOUS
  <2>1. PICK y \in DOMAIN call.views : m = f(y)
    BY DEF Groups, Descs
  <2>2. y = 1 \/ y = 2 \/ y = 3
    <3>0. call.op \in Binary \/ call.op \in Elementwise3 \cup {"k_update"}
      BY <1>1, OpNames
    <3>1. Len(call.views) = 2 \/ Len(call.views) = 3
      BY <1>1, <3>0, Arity
    <3>2. DOMAIN call.views = 1 .. Len(call.views)
      BY <1>1, Arity
    <3>a. 2 \in 2 .. 3 /\ 3 \in 2 .. 3
      OBVIOUS
    <3>3. PICK L : L = Len(call.views) /\ L \in 2 .. 3
      BY <3>1, <3>a, Zenon
    <3>4. y \in 1 .. L
      BY <3>2, <3>3, Zenon
    <3> QED BY <3>3, <3>4
  <2> HIDE DEF f
  <2> QED BY <2>1, <2>2
<1>3. f(x) \in S
  BY DEF Groups, Descs
<1>4. Cardinality(S) <= 1
  BY <1>1 DEF Accepted
<1>5. launched.a.tpg \in S
  <2>1. Feed(call).tpg = IF S = {} THEN out_tiles(result.desc) ELSE CHOOSE m \in S : TRUE
    BY <1>1 DEF Feed
  <2> HIDE DEF S, f
  <2> QED BY <1>1, <1>3, <2>1
<1> HIDE DEF S, f
<1>6. IsFiniteSet({f(1)} \cup {f(2)} \cup {f(3)})
  <2>1. IsFiniteSet({f(1)})
    BY FS_Singleton
  <2>2. IsFiniteSet({f(1)} \cup {f(2)})
    BY <2>1, FS_AddElement
  <2> QED BY <2>2, FS_AddElement
<1>7. IsFiniteSet(S) /\ Cardinality(S) \in Nat
  BY <1>2, <1>6, FS_Subset, FS_CardinalityType
<1>8. Cardinality(S) = 1
  BY <1>3, <1>4, <1>7, FS_EmptySet
<1> QED BY <1>3, <1>5, <1>7, <1>8, FS_Singleton DEF f

\* An operand that is walked by its own map, fed a tile with the right rows.
LEMMA LinearRight ==
  ASSUME LaunchInv, launched # None, op \in Eltwise, RegularFeed(call), ~Shifted(call, result),
         NEW k \in Running, NEW n \in 0 .. Count(launched.a, k) - 1, NEW i \in Cells,
         NEW j \in Cells, NEW x \in DOMAIN call.views, NEW d, d = call.views[x].desc,
         launched.a.ins[x] = d, NEW u \in Nat, u = FedTile(k, x, n),
         TileCol(d, u, j) = CellCol(k, n, j), TileRow(d, u, i) = CellRow(k, n, i) % d.Ro,
         Inside(launched.a.o, CellRow(k, n, i), CellCol(k, n, j))
  PROVE  Fetch(View(k, x), FedTile(k, x, n), i, j)
           = MeantOf(ResRow(CellRow(k, n, i)), ResCol(CellRow(k, n, i), CellCol(k, n, j)))[x]
<1>1. /\ op \notin RowCopies /\ x \in Blocks /\ ~program.kernels.global
      /\ launched.a.o.Co = result.desc.Co /\ call.op \in Eltwise /\ result = EltwiseOut(call)
  BY EltwiseCall
<1>2. IsMap(d) /\ d \in Linear /\ d.Ro \in Nat \ {0}
  BY <1>1, OperandTensor
<1>3. PICK R, C, Q : R = CellRow(k, n, i) /\ C = CellCol(k, n, j) /\ Q = R % d.Ro
  OBVIOUS
<1>4. R \in Nat /\ C \in Nat
  BY <1>1, <1>3, CellFacts
<1>5. Q \in Nat /\ Q < d.Ro
  <2>1. Q \in 0 .. d.Ro - 1
    BY <1>2, <1>3, <1>4, QuotientNat
  <2> QED BY <1>2, <2>1
<1>6. d.Co = launched.a.o.Co
  BY <1>1 DEF RegularFeed
<1>7. Inside(d, Q, C)
  BY <1>3, <1>5, <1>6 DEF Inside
<1>8. MapElement(d, Q, C) = MeantElement(x, ResRow(R), ResCol(R, C))
  <2>1. ResRow(R) = R /\ ResCol(R, C) = C
    BY <1>1 DEF ResRow, ResCol
  <2>2. MeantElement(x, R, C) = d.base + (R % d.Ro) * d.S_row + C
    BY <1>4, PlainMeant
  <2>3. MapElement(d, Q, C) = d.base + Q * d.S_row + C
    BY <1>2 DEF MapElement, SourceRow, Linear
  <2> QED BY <1>3, <2>1, <2>2, <2>3
<1>9. PICK r, c : r = ResRow(R) /\ c = ResCol(R, C)
  OBVIOUS
<1>10. Inside(d, Q, C) /\ MapElement(d, Q, C) = MeantElement(x, r, c)
         => Fetch(View(k, x), FedTile(k, x, n), i, j) = MeantOf(r, c)[x]
  BY <1>1, <1>2, <1>3, OperandFetch
<1> QED BY <1>3, <1>7, <1>8, <1>9, <1>10

\* A streamed operand, with its own rows or one that is widened.
LEMMA StreamRight ==
  ASSUME LaunchInv, launched # None, op \in Eltwise, RegularFeed(call), ~Shifted(call, result),
         NEW k \in Running, NEW n \in 0 .. Count(launched.a, k) - 1, NEW i \in Cells,
         NEW j \in Cells, NEW x \in DOMAIN call.views,
         ~Resident(call.views[x].desc, result.desc, result.rows),
         Inside(launched.a.o, CellRow(k, n, i), CellCol(k, n, j))
  PROVE  Fetch(View(k, x), FedTile(k, x, n), i, j)
           = MeantOf(ResRow(CellRow(k, n, i)), ResCol(CellRow(k, n, i), CellCol(k, n, j)))[x]
<1>1. /\ op \notin RowCopies /\ x \in Blocks /\ ~program.kernels.global /\ Accepted(call)
      /\ launched.a.o.Ro = result.desc.Ro /\ launched.a.o.Co = result.desc.Co
      /\ call.op \in Eltwise /\ result = EltwiseOut(call)
      /\ launched.a.ins = Feed(call).maps /\ IsMap(launched.a.o) /\ IsMap(result.desc)
  BY EltwiseCall
<1>2. PICK d, o : d = call.views[x].desc /\ o = result.desc
  OBVIOUS
<1>3. IsMap(d) /\ d \in Linear /\ d.Ro \in Nat \ {0} /\ o.Ro \in Nat \ {0} /\ d.Co = o.Co
  <2>1. d.Co = o.Co
    BY <1>1, <1>2 DEF RegularFeed
  <2> QED BY <1>1, <1>2, <2>1, OperandTensor DEF IsMap, NonEmpty
<1>4. PICK t : t = First(launched.a, k) + n /\ t \in Nat
  BY <1>1, CoreTile
<1>5. FedTile(k, x, n) = t
  <2>1. Feed(call).bcast
          = [y \in DOMAIN call.views |-> Resident(call.views[y].desc, result.desc, result.rows)]
    BY <1>1 DEF Feed
  <2> QED BY <1>4, <2>1, EltwiseFed
<1>6. launched.a.ins[x] = Widened(d, o, result.rows)
  <2>1. Feed(call).maps
          = [y \in DOMAIN call.views |-> Widened(call.views[y].desc, result.desc, result.rows)]
    BY <1>1 DEF Feed
  <2> QED BY <1>1, <1>2, <2>1
<1>7. PICK R, C : R = CellRow(k, n, i) /\ C = CellCol(k, n, j) /\ R \in Nat /\ C \in Nat
  BY <1>1, CellFacts
<1>8. CASE RowBroadcast(d, result.rows)
  <2>1. PICK e : e = [d EXCEPT !.S_row = 0, !.Ro = o.Ro]
    OBVIOUS
  <2>2. /\ e.base = d.base /\ e.S_row = 0 /\ e.Ro = o.Ro /\ e.Co = d.Co /\ e.Cs = d.Cs /\ e.P = 0
        /\ d.Ro = 1
    BY <1>3, <1>8, <2>1 DEF Linear, RowBroadcast
  <2>3. IsMap(e)
    BY <1>3, <2>2 DEF IsMap, NonEmpty
  <2>4. ASSUME NEW r \in Nat, NEW c \in Nat
        PROVE  MapElement(e, r, c) = MeantElement(x, ResRow(r), ResCol(r, c))
    <3>1. ResRow(r) = r /\ ResCol(r, c) = c
      BY <1>1 DEF ResRow, ResCol
    <3>2. MeantElement(x, r, c) = d.base + (r % d.Ro) * d.S_row + c
      BY <1>2, PlainMeant
    <3>3. r % d.Ro = 0
      <4>1. r % d.Ro \in 0 .. d.Ro - 1
        BY <1>3, QuotientNat
      <4> QED BY <2>2, <4>1
    <3>4. MapElement(e, r, c) = e.base + r * e.S_row + c
      BY <2>2 DEF MapElement, SourceRow
    <3>5. r * e.S_row = 0 /\ (r % d.Ro) * d.S_row = 0
      BY <1>3, <2>2, <3>3 DEF Linear
    <3> QED BY <2>2, <3>1, <3>2, <3>4, <3>5
  <2>5. Streamed(x, e)
    BY <1>1, <1>2, <1>3, <1>6, <1>8, <2>1, <2>2, <2>3, <2>4 DEF Streamed, Widened
  <2> QED BY <1>1, <1>4, <1>5, <2>5, StreamedRight
<1>9. CASE ~RowBroadcast(d, result.rows)
  <2>1. launched.a.ins[x] = d
    BY <1>6, <1>9 DEF Widened
  <2>2. out_tiles(d) = out_tiles(o)
    BY <1>2, <1>9 DEF Resident
  <2>3. PICK w : w = n_otc(o) /\ w = n_otc(d) /\ w \in Nat \ {0}
    <3>1. n_otc(o) \in Nat \ {0}
      BY <1>1, <1>2, AcrossPositive DEF IsMap, NonEmpty, n_otc
    <3> QED BY <1>3, <3>1 DEF n_otc
  <2>4. d.Ro >= o.Ro
    <3>1. d.Ro >= o.Ro \/ d.Ro % TILE = 0
      BY <1>1, <1>2, <1>9 DEF RegularFeed
    <3>2. CASE d.Ro % TILE = 0
      <4>1. PICK p, q : p = n_otr(d) /\ q = n_otr(o) /\ p \in Nat /\ q \in Nat
        BY <1>3, AcrossPositive DEF n_otr
      <4>2. p * w = q * w
        BY <2>2, <2>3, <4>1 DEF out_tiles
      <4>3. p = q
        <5>1. p * w + 0 = p * w /\ q * w + 0 = q * w /\ 0 \in Int /\ 0 <= 0 /\ 0 < w
              /\ p * w \in Int /\ p \in Int /\ q \in Int
          BY <2>3, <4>1, ProductNat
        <5>2. p = (p * w) \div w
          BY <2>3, <5>1, DivModUnique
        <5>3. q = (p * w) \div w
          BY <2>3, <4>2, <5>1, DivModUnique
        <5> QED BY <5>2, <5>3
      <4>4. padded(d.Ro) = d.Ro /\ o.Ro <= padded(o.Ro)
        BY <1>3, <3>2, PaddedFacts
      <4>5. padded(d.Ro) = p * TILE /\ padded(o.Ro) = q * TILE
        BY <4>1 DEF padded, n_otr
      <4> QED BY <1>3, <4>3, <4>4, <4>5
    <3> QED BY <3>1, <3>2
  <2>5. R % d.Ro = R
    <3>1. R < o.Ro
      <4>1. R < launched.a.o.Ro
        BY <1>7 DEF Inside
      <4> QED BY <1>1, <1>2, <4>1
    <3>2. R < d.Ro
      BY <1>3, <1>7, <2>4, <3>1
    <3> QED BY <1>3, <1>7, <3>2, SmallRemainder
  <2>6. TileRow(d, t, i) = R /\ TileCol(d, t, j) = C
    <3>1. n_otc(launched.a.o) = n_otc(d)
      BY <1>1, <1>2, <1>3 DEF n_otc
    <3> QED BY <1>4, <1>7, <3>1 DEF CellRow, CellCol, TileRow, TileCol
  <2> QED BY <1>2, <1>4, <1>5, <1>7, <2>1, <2>5, <2>6, LinearRight
<1> QED BY <1>8, <1>9

-----------------------------------------------------------------------------
\* Tile t of the result takes tile t % g of a group of g, in the row and the
\* column where the group repeats.
LEMMA GroupTile ==
  ASSUME NEW t \in Nat, NEW w \in Nat \ {0}, NEW m \in Nat \ {0}, NEW g, g = m * w, NEW i \in Cells
  PROVE  /\ g \in Nat \ {0} /\ (t % g) % w = t % w
         /\ ((t % g) \div w) * TILE + i = ((t \div w) * TILE + i) % (m * TILE)
<1>1. g \in Nat \ {0} /\ g > 0
  <2>1. m * w \in Nat /\ m * w > 0
    OBVIOUS
  <2> QED BY <2>1
<1>2. m = g \div w /\ 0 = g % w
  <2>1. g \in Int /\ m \in Int /\ 0 \in Int /\ 0 <= 0 /\ 0 < w /\ g = m * w + 0
    BY <1>1
  <2> QED BY <2>1, DivModUnique
<1>3. (t % g) % w = t % w /\ (t % g) \div w = (t \div w) % (g \div w)
  <2>0. PICK R, T, M : R = t /\ T = w /\ M = g
    OBVIOUS
  <2>1. R \in Nat
    BY <2>0
  <2>2. T \in Nat \ {0}
    BY <2>0
  <2>3. M \in Nat \ {0}
    BY <1>1, <2>0
  <2>4. M % T = 0
    BY <1>2, <2>0
  <2>5. (R % M) % T = R % T /\ (R % M) \div T = (R \div T) % (M \div T)
    BY <2>1, <2>2, <2>3, <2>4, NestedRemainder, Zenon
  <2> QED BY <2>0, <2>5
<1>4. PICK q : q = t \div w /\ q \in Nat
  BY QuotientNat
<1>5. (q * TILE + i) % (m * TILE) = (q % m) * TILE + i
  BY <1>4, GroupRow DEF Cells
<1> QED BY <1>1, <1>2, <1>3, <1>4, <1>5

\* A resident group, its rows repeated.
LEMMA ResidentRight ==
  ASSUME LaunchInv, launched # None, op \in Eltwise, RegularFeed(call), ~Shifted(call, result),
         NEW k \in Running, NEW n \in 0 .. Count(launched.a, k) - 1, NEW i \in Cells,
         NEW j \in Cells, NEW x \in DOMAIN call.views,
         Resident(call.views[x].desc, result.desc, result.rows),
         Inside(launched.a.o, CellRow(k, n, i), CellCol(k, n, j))
  PROVE  Fetch(View(k, x), FedTile(k, x, n), i, j)
           = MeantOf(ResRow(CellRow(k, n, i)), ResCol(CellRow(k, n, i), CellCol(k, n, j)))[x]
<1>1. /\ op \notin RowCopies /\ x \in Blocks /\ ~program.kernels.global /\ Accepted(call)
      /\ launched.a.o.Ro = result.desc.Ro /\ launched.a.o.Co = result.desc.Co
      /\ call.op \in Eltwise /\ result = EltwiseOut(call)
      /\ launched.a.ins = Feed(call).maps /\ IsMap(launched.a.o) /\ IsMap(result.desc)
  BY EltwiseCall
<1>2. PICK d, o : d = call.views[x].desc /\ o = result.desc
  OBVIOUS
<1>3. IsMap(d) /\ d \in Linear /\ d.Ro \in Nat \ {0} /\ d.Co = o.Co /\ d.Co \in Nat \ {0}
  <2>1. d.Co = o.Co
    BY <1>1, <1>2 DEF RegularFeed
  <2> QED BY <1>1, <1>2, <2>1, OperandTensor DEF IsMap, NonEmpty
<1>4. ~RowBroadcast(d, result.rows) /\ d.Ro % TILE = 0
  <2>1. Classified(d, o, result.rows)
    BY <1>1, <1>2 DEF Accepted
  <2> QED BY <1>2, <2>1 DEF Classified, Resident
<1>5. launched.a.ins[x] = d
  <2>1. Feed(call).maps
          = [y \in DOMAIN call.views |-> Widened(call.views[y].desc, result.desc, result.rows)]
    BY <1>1 DEF Feed
  <2> QED BY <1>1, <1>2, <1>4, <2>1 DEF Widened
<1>6. Feed(call).bcast[x]
  <2>1. Feed(call).bcast
          = [y \in DOMAIN call.views |-> Resident(call.views[y].desc, result.desc, result.rows)]
    BY <1>1 DEF Feed
  <2> QED BY <2>1
<1>7. PICK w, m : w = n_otc(d) /\ m = n_otr(d) /\ w \in Nat \ {0} /\ m \in Nat \ {0}
  BY <1>3, AcrossPositive DEF n_otc, n_otr
<1>8. m * TILE = d.Ro
  <2>1. padded(d.Ro) = d.Ro
    BY <1>3, <1>4, PaddedFacts
  <2> QED BY <1>7, <2>1 DEF padded, n_otr
<1>9. PICK g : g = launched.a.tpg /\ g = m * w
  <2>1. launched.a.tpg = out_tiles(d)
    BY <1>2, ResidentGroup
  <2> QED BY <1>7, <2>1 DEF out_tiles
<1>10. PICK t : t = First(launched.a, k) + n /\ t \in Nat /\ First(launched.a, k) \in Nat /\ n \in Nat
  BY <1>1, CoreTile
<1>11. /\ g \in Nat \ {0} /\ (t % g) % w = t % w
       /\ ((t % g) \div w) * TILE + i = ((t \div w) * TILE + i) % (m * TILE)
  BY <1>7, <1>9, <1>10, GroupTile
<1>12. PICK u : u = FedTile(k, x, n) /\ u = t % g /\ u \in Nat
  <2>1. FedTile(k, x, n) = ((First(launched.a, k) % g) + n) % g
    BY <1>6, <1>9, EltwiseFed
  <2>2. ((First(launched.a, k) % g) + n) % g = t % g
    BY <1>10, <1>11, RemainderPlus
  <2>3. t % g \in Nat
    <3>1. t % g \in 0 .. g - 1
      BY <1>10, <1>11, QuotientNat
    <3> QED BY <1>11, <3>1
  <2> QED BY <2>1, <2>2, <2>3
<1>13. PICK R, C : /\ R = CellRow(k, n, i) /\ C = CellCol(k, n, j)
                   /\ R = (t \div w) * TILE + i /\ C = (t % w) * TILE + j
  <2>1. n_otc(launched.a.o) = w
    BY <1>1, <1>2, <1>3, <1>7 DEF n_otc
  <2> QED BY <1>10, <2>1 DEF CellRow, CellCol, TileRow, TileCol
<1>14. TileRow(d, u, i) = R % d.Ro /\ TileCol(d, u, j) = C
  BY <1>7, <1>8, <1>11, <1>12, <1>13 DEF TileRow, TileCol
<1>15. u \in Nat /\ u = FedTile(k, x, n)
  BY <1>12
<1>16. TileCol(d, u, j) = CellCol(k, n, j) /\ TileRow(d, u, i) = CellRow(k, n, i) % d.Ro
  BY <1>13, <1>14
<1>17. d = call.views[x].desc
  BY <1>2
<1> QED BY <1>5, <1>15, <1>16, <1>17, LinearRight

\* lerp's token shift: a and b repeat over the groups of tokens, and a group
\* has one row of weights.
LEMMA ShiftRight ==
  ASSUME LaunchInv, launched # None, op \in Eltwise, RegularFeed(call), Shifted(call, result)
  PROVE  StreamedEach
<1>1. /\ op \notin RowCopies /\ op \notin Norms /\ ~program.kernels.global /\ call.op = op
      /\ call \in Calls
      /\ launched.a.o.Ro = result.desc.Ro /\ launched.a.o.Co = result.desc.Co
      /\ result = EltwiseOut(call) /\ launched.a.ins = Feed(call).maps
      /\ result.desc \in Linear /\ IsMap(result.desc)
  BY EltwiseCall
<1>2. call.op = "lerp" /\ call.views[2].rows = Tokens(call)
  BY DEF Shifted, IsTokenShift
<1>3. DOMAIN call.views = {1, 2, 3}
  <2>1. Len(call.views) = 3 /\ DOMAIN call.views = 1 .. Len(call.views)
    BY <1>1, <1>2, Arity DEF Elementwise3
  <2> QED BY <2>1
<1>4. PICK o, P, W : /\ o = result.desc /\ P = Tokens(call) /\ W = WeightRows(call)
                     /\ P \in Nat \ {0} /\ W \in Nat \ {0}
  <2>1. call.views[1].rows \in Nat \ {0} /\ call.views[3].rows \in Nat \ {0}
    BY <1>1, <1>3, OperandTensor
  <2> QED BY <2>1 DEF Tokens, WeightRows
<1>5. /\ \A y \in 1 .. 2 : call.views[y].desc.Ro = P
      /\ o.Ro = P * W /\ call.views[3].desc.Ro \div W = wstride(call)
  BY <1>1, <1>4 DEF RegularFeed
<1>6. launched.a.ins = ShiftMaps(call, result) /\ Feed(call).bcast = [y \in DOMAIN call.views |-> FALSE]
  BY <1>1 DEF Feed
<1>7. PICK A : A = wstride(call) /\ A \in Nat
  <2>1. call.views[3].desc.Ro \in Nat
    BY <1>1, <1>3, OperandTensor
  <2> QED BY <1>4, <1>5, <2>1, QuotientNat
<1>8. ASSUME NEW x \in DOMAIN call.views
      PROVE  \A k \in Running : \A n \in 0 .. Count(launched.a, k) - 1 :
               FedTile(k, x, n) = First(launched.a, k) + n
  BY <1>6, EltwiseFed
<1>9. ASSUME NEW x \in DOMAIN call.views PROVE \E D : Streamed(x, D)
  <2>1. PICK d : d = call.views[x].desc
    OBVIOUS
  <2>2. d \in Linear /\ IsMap(d) /\ d.Ro \in Nat \ {0}
    BY <1>1, <2>1, OperandTensor
  <2>3. PICK E, B : /\ E = (IF x = 3 THEN A ELSE 0) /\ B = (IF x = 3 THEN 0 ELSE 1)
                    /\ E \in Nat /\ B \in Nat
    BY <1>7
  <2>4. PICK D : D = make_grouped_desc(d, o, P, E, B)
    OBVIOUS
  <2>5. launched.a.ins[x] = D
    <3>1. x = 1 \/ x = 2 \/ x = 3
      BY <1>3
    <3> QED BY <1>4, <1>6, <1>7, <2>1, <2>3, <2>4, <3>1 DEF ShiftMaps
  <2>6. /\ IsMap(D) /\ D.Ro = o.Ro /\ D.Co = o.Co /\ D.Cs = d.Cs
        /\ \A R \in Nat, C \in Nat :
             MapElement(D, R, C) = d.base + (E * (R \div P) + B * (R % P)) * d.S_row + C
    <3>1. GroupedRows(D, d, o, P, E, B)
      BY <1>1, <1>4, <2>2, <2>3, <2>4, GroupedMap
    <3> QED BY <3>1 DEF GroupedRows
  <2>7. ASSUME NEW R \in Nat, NEW C \in Nat, Inside(launched.a.o, R, C)
        PROVE  MapElement(D, R, C) = MeantElement(x, ResRow(R), ResCol(R, C))
    <3>1. ResRow(R) = R /\ ResCol(R, C) = C
      BY <1>1 DEF ResRow, ResCol
    <3>2. PICK q, m : q = R \div P /\ m = R % P /\ q \in Nat /\ m \in Nat
      <4>1. R \div P \in Nat /\ R % P \in 0 .. P - 1
        BY <1>4, QuotientNat
      <4> QED BY <1>4, <4>1
    <3>3. CASE x # 3
      <4>1. MeantElement(x, R, C) = d.base + m * d.S_row + C
        <5>1. MeantElement(x, R, C) = d.base + (R % d.Ro) * d.S_row + C
          BY <1>1, <2>1, <3>3, FirstMeant
        <5>2. d.Ro = P
          BY <1>3, <1>5, <2>1, <3>3
        <5> QED BY <3>2, <5>1, <5>2
      <4>2. E * q + B * m = m
        BY <2>3, <3>2, <3>3
      <4>3. MapElement(D, R, C) = d.base + m * d.S_row + C
        BY <2>6, <3>2, <4>2
      <4> QED BY <3>1, <4>1, <4>3
    <3>4. CASE x = 3
      <4>1. PICK S : S = d.S_row /\ S \in Nat
        BY <2>2 DEF Linear
      <4>2. Meant(call, result, 3)
              = [base |-> d.base, Co |-> d.Co, S_row |-> S * A, Ro |-> W, span |-> P]
        <5>1. PICK v : v = call.views[3] /\ v.desc = d /\ v.rows = W
          BY <1>4, <2>1, <3>4 DEF WeightRows
        <5>2. d.Ro \div v.rows = A
          BY <1>5, <1>7, <2>1, <3>4, <5>1
        <5>3. result.desc.Ro = Tokens(call) * v.rows
          BY <1>4, <1>5, <5>1
        <5> QED BY <1>2, <1>4, <4>1, <5>1, <5>2, <5>3 DEF Meant
      <4>3. MeantElement(3, R, C) = d.base + (q % W) * (S * A) + C
        BY <3>2, <4>2 DEF MeantElement
      <4>4. q % W = q
        <5>1. R < W * P
          <6>1. R < launched.a.o.Ro
            BY <2>7 DEF Inside
          <6>2. P * W = W * P
            BY <1>4
          <6> QED BY <1>1, <1>4, <1>5, <6>1, <6>2
        <5>2. q < W
          <6>1. W \in Nat
            BY <1>4
          <6> QED BY <1>4, <3>2, <5>1, <6>1, QuotientBound
        <5> QED BY <1>4, <3>2, <5>2, SmallRemainder
      <4>5. (E * q + B * m) * S = q * (S * A)
        <5>1. E = A /\ B = 0
          BY <2>3, <3>4
        <5>2. A * q + 0 * m = A * q
          BY <1>7, <3>2
        <5>3. (A * q) * S = q * (S * A)
          BY <1>7, <3>2, <4>1
        <5> QED BY <5>1, <5>2, <5>3
      <4>6. MapElement(D, R, C) = d.base + (E * q + B * m) * S + C
        BY <2>6, <3>2, <4>1
      <4> QED BY <3>1, <3>4, <4>3, <4>4, <4>5, <4>6
    <3> QED BY <3>3, <3>4
  <2>8. Streamed(x, D)
    BY <1>1, <1>4, <2>1, <2>5, <2>6, <2>7 DEF Streamed
  <2> QED BY <2>8
<1> QED BY <1>8, <1>9 DEF StreamedEach

LEMMA EltwiseRight ==
  ASSUME LaunchInv, launched # None, op \in Eltwise, RegularFeed(call)
  PROVE  OperandsRight
<1>1. op \notin RowCopies /\ op \notin Norms /\ ~RowOp
  <2>1. op \notin Norms \cup {"mul_l2_norm", "rk"}
    BY LaunchedFacts, OpNames DEF call
  <2> QED BY <2>1, EltwiseCall DEF RowOp
<1>2. CASE Shifted(call, result)
  BY <1>1, <1>2, ShiftRight, EachRight
<1>3. CASE ~Shifted(call, result)
  <2> SUFFICES ASSUME NEW k \in Running, NEW n \in 0 .. Count(launched.a, k) - 1,
                      NEW i \in Cells, NEW j \in Cells, NEW x \in DOMAIN call.views,
                      Inside(launched.a.o, CellRow(k, n, i), CellCol(k, n, j))
               PROVE  Fetch(View(k, x), FedTile(k, x, n), i, j)
                        = MeantOf(ResRow(CellRow(k, n, i)), ResCol(CellRow(k, n, i), CellCol(k, n, j)))[x]
    BY <1>1 DEF OperandsRight
  <2> QED BY <1>3, StreamRight, ResidentRight
<1> QED BY <1>2, <1>3

-----------------------------------------------------------------------------
\* The two conditions above.
RegularCall(c) == RegularNorm(c) /\ RegularFeed(c)

LEMMA RegularRight ==
  ASSUME LaunchInv, launched # None, op \notin RowCopies, RegularCall(call)
  PROVE  CellsRight
<1>1. op \in Eltwise \cup Norms \cup RowCopies \cup {"realize", "mul_l2_norm", "rk"}
      /\ (op \in Eltwise \cup {"realize", "mul_l2_norm", "rk"} => op \notin Norms)
  BY LaunchedFacts, OpNames
<1>2. RegularNorm(call) /\ RegularFeed(call)
  BY DEF RegularCall
<1>3. op \notin Norms => OperandsRight
  BY <1>1, <1>2, RealizeRight, MulL2Right, RkRight, EltwiseRight
<1> QED BY <1>2, <1>3, NormRight, OperandsMake

\* The launch of a regular call computes what the call means: the cores
\* together store every output element exactly once, each made of the right
\* element of every operand with the right row reduced for it, and an indexed
\* copy moves exactly the rows named, whatever the cache held before, however
\* the work was shared and whatever mix of views the call was given.
THEOREM LaunchesDeliver ==
  Spec => [](launched # None /\ RegularCall(launched.call) => DeliversMeant)
<1>1. ASSUME CacheInv PROVE launched # None /\ RegularCall(launched.call) => DeliversMeant
  <2> SUFFICES ASSUME launched # None, RegularCall(launched.call)
               PROVE  IF op \in RowCopies THEN Copied = MeantCopies
                      ELSE Stored = MeantStores /\ Cardinality(LiveStores) = Cardinality(MeantStores)
    BY DEF DeliversMeant
  <2>1. LaunchInv
    BY <1>1 DEF CacheInv
  <2>2. CASE op \in RowCopies
    BY <2>1, <2>2, CopiesDeliver
  <2>3. CASE op \notin RowCopies
    <3>1. RegularCall(call)
      BY DEF call
    <3> QED BY <2>1, <2>3, <3>1, RegularRight, ReducedRight, StoresDeliver
  <2> QED BY <2>2, <2>3
<1> QED BY <1>1, CacheInit, CacheStep, PTL DEF Spec

-----------------------------------------------------------------------------
(***************************************************************************)
(* Every page a launch touches is a page of the tensor it is in.           *)
(***************************************************************************)
LEMMA ElementInside ==
  ASSUME NEW t, t.spec.prows \in Nat, t.spec.prows % TILE = 0, t.spec.Cs \in Nat \ {0},
         t.spec.Cs % TILE = 0, NEW e \in Nat, e < t.spec.prows * t.spec.Cs, NEW acc
  PROVE  PageElement(acc, e, t.spec.Cs).page < PagesOf(t)
<1>1. PICK P, S : P = t.spec.prows /\ S = t.spec.Cs /\ P \in Nat /\ S \in Nat \ {0}
  OBVIOUS
<1>2. PageNumber(e, S, TILE) < (P \div TILE) * (S \div TILE)
  BY <1>1, PlaceBound, TileAssumption
<1>3. PageElement(acc, e, S).page = PageNumber(e, S, TILE)
  BY DEF PageElement, InPage
<1> QED BY <1>1, <1>2, <1>3 DEF PagesOf

\* The operands that are repeated over a result's columns have them all.
LEMMA OperandWidth ==
  ASSUME LaunchInv, launched # None, op \notin RowCopies, RegularFeed(call),
         NEW x \in DOMAIN call.views
  PROVE  call.views[x].desc.Co = result.desc.Co
<1>1. /\ call \in Calls /\ Lowers(call) /\ call.op = op /\ result = Out(call)
  BY LaunchedFacts DEF call, result
<1>2. op \in Eltwise \cup Norms \cup RowCopies \cup {"realize", "mul_l2_norm", "rk"}
      /\ DOMAIN call.views = 1 .. Len(call.views)
  BY <1>1, OpNames, Arity
<1>3. \A y \in DOMAIN call.views : Descs(call)[y] = call.views[y].desc
  BY DEF Descs
<1>4. CASE op \in Eltwise
  BY <1>4, EltwiseCall DEF RegularFeed
<1>5. CASE op = "realize"
  <2>1. SameGrid(result.desc, Descs(call)[1])
    BY <1>1, <1>5, OpNames DEF Lowers, Eltwise, Binary, Elementwise3
  <2>2. DOMAIN call.views = {1}
    <3>1. Len(call.views) = 1
      BY <1>1, <1>5, Arity
    <3> QED BY <1>2, <3>1
  <2> QED BY <1>3, <2>1, <2>2 DEF SameGrid
<1>6. CASE op = "mul_l2_norm"
  <2>1. DOMAIN call.views = {1, 2}
    <3>1. Len(call.views) = 2
      BY <1>1, <1>6, Arity
    <3> QED BY <1>2, <3>1
  <2>2. MulL2Lowers(call, Descs(call), result.desc)
    BY <1>1, <1>6, OpNames DEF Lowers, Eltwise, Binary, Elementwise3, Norms
  <2>3. Descs(call)[1].Co = Descs(call)[2].Co
    BY <2>2 DEF MulL2Lowers, SameGrid, can_row_repeat
  <2>4. FullOperand(call) = 1 \/ FullOperand(call) = 2
    BY DEF FullOperand
  <2>5. result.desc.Co = Descs(call)[FullOperand(call)].Co
    BY <2>2 DEF MulL2Lowers, SameGrid
  <2> QED BY <1>3, <2>1, <2>3, <2>4, <2>5
<1>7. CASE op = "rk"
  <2>1. DOMAIN call.views = {1, 2, 3, 4, 5}
    <3>1. Len(call.views) = 5
      BY <1>1, <1>7, Arity
    <3> QED BY <1>2, <3>1
  <2>2. RkLowers(call, Descs(call), result.desc)
    BY <1>1, <1>7, OpNames DEF Lowers, Eltwise, Binary, Elementwise3
  <2>3. /\ \A y \in {2, 4, 5} : Descs(call)[y].Co = Descs(call)[1].Co
        /\ result.desc.Co = Descs(call)[5].Co
    BY <2>2 DEF RkLowers, SameGrid
  <2>4. Descs(call)[3].Co = Descs(call)[1].Co
    BY <2>2 DEF RkLowers, SameGrid, w_bcast, IsTokenGroup
  <2> QED BY <1>3, <2>1, <2>3, <2>4
<1>8. CASE op \in Norms
  <2>1. NormLowers(call, Descs(call), result.desc)
    BY <1>1, <1>8, OpNames DEF Lowers, Norms, Eltwise, Binary, Elementwise3, RowCopies
  <2>2. 1 \in DOMAIN call.views /\ result.desc.Co = call.views[1].desc.Co
    BY <1>1, <1>3, <2>1, Arity DEF NormLowers, SameGrid
  <2>3. CASE x = 1
    BY <2>2, <2>3
  <2>4. CASE x # 1
    <3>1. IsWeight(call, call.views[x])
      BY <2>1, <2>4 DEF NormLowers
    <3>2. call.by_view => call.views[x].desc.Co = call.views[1].desc.Co
      BY <3>1 DEF IsWeight, RowWidth
    <3>3. ~call.by_view => call.views[x].desc = dense(call.views[x].rows, call.views[x].cols)
                           /\ call.views[x].cols = call.views[1].desc.Co
      BY <1>1, <1>8, <2>4, <3>1, ViewsAssumption DEF IsWeight, RowWidth, Calls
    <3>4. \A r, c : dense(r, c).Co = c
      BY DEF dense, linear
    <3> QED BY <2>2, <3>2, <3>3, <3>4
  <2> QED BY <2>3, <2>4
<1> QED BY <1>2, <1>4, <1>5, <1>6, <1>7, <1>8

\* A stretched row, or one repeated, is a row of its operand's tensor.
LEMMA MeantStep ==
  ASSUME LaunchInv, launched # None, op \notin RowCopies, NEW x \in DOMAIN call.views
  PROVE  LET d == call.views[x].desc
             m == Meant(call, result, x)
         IN  /\ m.base = d.base /\ m.span \in Nat \ {0} /\ m.Ro \in Nat \ {0} /\ m.S_row \in Nat
             /\ (m.Ro - 1) * m.S_row <= (d.Ro - 1) * d.S_row
<1>1. PICK v, d, m : v = call.views[x] /\ d = v.desc /\ m = Meant(call, result, x)
  OBVIOUS
<1>2. PICK N, S, W : /\ N = d.Ro /\ S = d.S_row /\ W = v.rows
                     /\ N \in Nat \ {0} /\ S \in Nat /\ W \in Nat \ {0}
  BY <1>1, OperandTensor DEF Linear
<1>3. CASE call.op = "lerp" /\ x = 3 /\ call.views[2].rows = Tokens(call)
           /\ result.desc.Ro = Tokens(call) * v.rows
  <2>1. Tokens(call) \in Nat \ {0}
    <3>1. 1 \in DOMAIN call.views
      BY LaunchedFacts, Arity DEF call
    <3> QED BY <3>1, OperandTensor DEF Tokens
  <2>2. PICK f : f = N \div W /\ f \in Nat /\ f * W <= N
    <3>1. N \div W \in Nat /\ N = (N \div W) * W + (N % W) /\ N % W \in 0 .. W - 1
      BY <1>2, DivModNat
    <3>2. PICK q, s : q = N \div W /\ s = N % W
      OBVIOUS
    <3>3. q \in Nat /\ s \in Nat /\ N = q * W + s
      BY <1>2, <3>1, <3>2
    <3>4. q * W \in Int
      BY <1>2, <3>3
    <3>5. q * W <= N
      BY <1>2, <3>3, <3>4
    <3> QED BY <3>2, <3>3, <3>5
  <2>3. m = [base |-> d.base, Co |-> d.Co, S_row |-> S * f, Ro |-> W, span |-> Tokens(call)]
    BY <1>1, <1>2, <1>3, <2>2 DEF Meant
  <2>4. (W - 1) * (S * f) <= (N - 1) * S
    <3>1. PICK h : h = (W - 1) * f /\ h \in Nat
      BY <1>2, <2>2, ProductNat, W - 1 \in Nat
    <3>2. h <= N - 1
      <4>1. CASE f = 0
        BY <1>2, <3>1, <4>1
      <4>2. CASE f # 0
        <5>1. h = f * W - f
          BY <1>2, <2>2, <3>1
        <5>2. f * W \in Nat
          BY <1>2, <2>2, ProductNat
        <5> QED BY <1>2, <2>2, <4>2, <5>1, <5>2
      <4> QED BY <4>1, <4>2
    <3>3. (N - 1 - h) * S >= 0 /\ (N - 1 - h) * S = (N - 1) * S - h * S
      BY <1>2, <3>1, <3>2, ProductNat, N - 1 - h \in Nat
    <3>4. (W - 1) * (S * f) = h * S
      BY <1>2, <2>2, <3>1
    <3>5. h * S \in Int /\ (N - 1) * S \in Int
      BY <1>2, <3>1
    <3> QED BY <3>3, <3>4, <3>5
  <2>5. S * f \in Nat
    BY <1>2, <2>2, ProductNat
  <2> QED BY <1>1, <1>2, <2>1, <2>3, <2>4, <2>5
<1>4. CASE ~(call.op = "lerp" /\ x = 3 /\ call.views[2].rows = Tokens(call)
             /\ result.desc.Ro = Tokens(call) * v.rows)
  <2>1. m = [base |-> d.base, Co |-> d.Co, S_row |-> S * 1, Ro |-> N, span |-> 1]
    BY <1>1, <1>2, <1>4 DEF Meant
  <2>2. S * 1 = S /\ 1 \in Nat \ {0} /\ (N - 1) * S <= (N - 1) * S
    <3>1. (N - 1) * S \in Int
      BY <1>2
    <3> QED BY <1>2, <3>1
  <2> QED BY <1>1, <1>2, <2>1, <2>2
<1> QED BY <1>3, <1>4

\* So is every element of it that is meant.
LEMMA OperandInside ==
  ASSUME LaunchInv, launched # None, op \notin RowCopies, RegularFeed(call),
         NEW x \in DOMAIN call.views, NEW r \in Nat, NEW c \in Nat, c < result.desc.Co
  PROVE  MeantOf(r, c)[x].page < PagesOf(launched.ins[x])
<1>1. PICK v, d, t : v = call.views[x] /\ d = v.desc /\ t = launched.ins[x]
  OBVIOUS
<1>2. /\ InTensor(v) /\ t.spec.prows = v.prows /\ t.spec.Cs = d.Cs
      /\ d.Cs \in Nat \ {0} /\ d.Cs % TILE = 0 /\ d \in Linear /\ d.Ro \in Nat \ {0}
  <2>1. t.spec = spec(v) /\ InTensor(v)
    BY <1>1, OperandHeld
  <2>2. IsMap(d) /\ d \in Linear /\ d.Ro \in Nat \ {0}
    BY <1>1, OperandTensor
  <2> QED BY <1>1, <2>1, <2>2 DEF spec, IsMap
<1>3. PICK m : m = Meant(call, result, x)
  OBVIOUS
<1>4. PICK N, S, P, E : /\ N = m.Ro /\ S = m.S_row /\ P = m.span /\ E = (d.Ro - 1) * d.S_row
                        /\ m.base = d.base /\ N \in Nat \ {0} /\ S \in Nat /\ P \in Nat \ {0}
                        /\ (N - 1) * S <= E
  BY <1>1, <1>3, MeantStep
<1>5. PICK k : k = (r \div P) % N /\ k \in Nat /\ k <= N - 1
  <2>1. r \div P \in Nat
    BY <1>4, QuotientNat
  <2>2. (r \div P) % N \in 0 .. N - 1
    BY <1>4, <2>1, QuotientNat
  <2> QED BY <1>4, <2>2
<1>6. MeantElement(x, r, c) = d.base + k * S + c
  BY <1>3, <1>4, <1>5 DEF MeantElement
<1>7. k * S <= E /\ k * S \in Nat /\ E \in Int
  <2>1. (N - 1 - k) * S >= 0 /\ (N - 1 - k) * S = (N - 1) * S - k * S
    BY <1>4, <1>5, ProductNat, N - 1 - k \in Nat
  <2>2. k * S \in Nat /\ (N - 1) * S \in Int
    BY <1>4, <1>5, ProductNat
  <2>3. E \in Int
    BY <1>2, <1>4 DEF Linear
  <2> QED BY <1>4, <2>1, <2>2, <2>3
<1>8. PICK e, B : e = MeantElement(x, r, c) /\ B = v.prows * d.Cs /\ e \in Nat /\ e < B
  <2>1. (d.base + E) + d.Co <= v.prows * d.Cs
    BY <1>1, <1>2, <1>4 DEF InTensor
  <2>2. d.Co = result.desc.Co
    BY <1>1, OperandWidth
  <2>3. d.base \in Nat /\ d.Co \in Nat /\ v.prows * d.Cs \in Int
    BY <1>2 DEF Linear, InTensor
  <2> QED BY <1>6, <1>7, <2>1, <2>2, <2>3
<1>9. MeantOf(r, c)[x] = PageElement(Acc(t), e, d.Cs)
  BY <1>1, <1>8, MeantOperand
<1>10. v.prows \in Nat /\ v.prows % TILE = 0
  BY <1>2 DEF InTensor
<1>11. PageElement(Acc(t), e, t.spec.Cs).page < PagesOf(t)
  BY <1>2, <1>8, <1>10, ElementInside
<1> QED BY <1>1, <1>2, <1>9, <1>11

-----------------------------------------------------------------------------
\* The rows asked for when an output is allocated.
LEMMA WithRows ==
  ASSUME NEW c, NEW ins, NEW d, NEW s
  PROVE  /\ With(ViewAttributes(c, ins, d), s).out_rows = Out(c).rows
         /\ ViewAttributes(c, ins, d).out_rows = Out(c).rows
<1> DEFINE r == ViewAttributes(c, ins, d)
<1>1. "out_rows" \in DOMAIN r /\ r["out_rows"] = Out(c).rows
  BY DEF ViewAttributes
<1> HIDE DEF r
<1>2. With(r, s)["out_rows"] = r["out_rows"]
  BY <1>1 DEF With
<1> QED BY <1>1, <1>2 DEF r

LEMMA OutRows ==
  ASSUME NEW c \in Calls, c.op \notin RowCopies
  PROVE  LET a == Attributes(c)
         IN  /\ ~c.canonical => a.out_rows = Out(c).rows
             /\ c.op \in Eltwise =>
                  /\ a.canon_nt = IF c.canonical THEN Tokens(c) ELSE 0
                  /\ a.canon_G = IF c.canonical THEN WeightRows(c) ELSE 0
<1>1. c.op \in Eltwise \cup Norms \cup {"mul_l2_norm", "rk", "realize"}
  BY OpNames
<1>2. CASE c.op \in Eltwise
  <2> DEFINE r == [ViewAttributes(c, Feed(c).maps, Out(c).desc) EXCEPT
                      !.o = Scattered(c, Out(c)),
                      !.out_rows = IF Scattered(c, Out(c)).P > 0
                                   THEN WeightRows(c) * Scattered(c, Out(c)).A ELSE @]
             s == [bcast |-> Feed(c).bcast, tpg |-> Feed(c).tpg,
                   canon_G |-> IF c.canonical THEN WeightRows(c) ELSE 0,
                   canon_nt |-> IF c.canonical THEN Tokens(c) ELSE 0]
  <2>1. Attributes(c) = With(r, s)
    BY <1>2, OpAttributes DEF EltwiseAttributes
  <2>2. DOMAIN r = {"op", "ins", "o", "n_otr", "n_otc", "out_rows", "out_cols", "mem"}
    BY DEF ViewAttributes
  <2>3. ~c.canonical => r["out_rows"] = Out(c).rows
    <3> SUFFICES ASSUME ~c.canonical PROVE r["out_rows"] = Out(c).rows
      OBVIOUS
    <3>1. Scattered(c, Out(c)).P = 0
      BY <1>2, ResultShape DEF Scattered, Linear
    <3>2. ~(Scattered(c, Out(c)).P > 0)
      BY <3>1
    <3> QED BY <3>2 DEF ViewAttributes
  <2>4. /\ DOMAIN s = {"bcast", "tpg", "canon_G", "canon_nt"}
        /\ s["canon_G"] = (IF c.canonical THEN WeightRows(c) ELSE 0)
        /\ s["canon_nt"] = (IF c.canonical THEN Tokens(c) ELSE 0)
    OBVIOUS
  <2> HIDE DEF r, s
  <2>5. /\ With(r, s)["out_rows"] = r["out_rows"] /\ With(r, s)["canon_G"] = s["canon_G"]
        /\ With(r, s)["canon_nt"] = s["canon_nt"]
    BY <2>2, <2>4 DEF With
  <2> QED BY <2>1, <2>3, <2>4, <2>5
<1>3. CASE c.op \in Norms
  <2>1. NormAttributes(c).out_rows = Out(c).rows
    BY WithRows DEF NormAttributes
  <2>2. Attributes(c) = NormAttributes(c)
    BY <1>3, OpAttributes
  <2> QED BY <1>3, <2>1, <2>2, OpNames
<1>4. CASE c.op = "mul_l2_norm"
  <2>1. MulL2Attributes(c).out_rows = Out(c).rows
    BY WithRows DEF MulL2Attributes
  <2>2. Attributes(c) = MulL2Attributes(c)
    BY <1>4, OpAttributes
  <2> QED BY <1>4, <2>1, <2>2, OpNames
<1>5. CASE c.op = "rk"
  <2>1. RkAttributes(c).out_rows = Out(c).rows
    BY WithRows DEF RkAttributes
  <2>2. Attributes(c) = RkAttributes(c)
    BY <1>5, OpAttributes
  <2> QED BY <1>5, <2>1, <2>2, OpNames
<1>6. CASE c.op = "realize"
  <2>1. ViewAttributes(c, Descs(c), Out(c).desc).out_rows = Out(c).rows
    BY WithRows
  <2>2. Attributes(c) = ViewAttributes(c, Descs(c), Out(c).desc)
    BY <1>6, OpAttributes
  <2> QED BY <1>6, <2>1, <2>2, OpNames
<1> QED BY <1>1, <1>2, <1>3, <1>4, <1>5, <1>6

\* The result's view has its rows in the tensor that is bound or allocated.
LEMMA ResultRoom ==
  ASSUME NEW c \in Calls, c.op \notin RowCopies
  PROVE  LET o == Out(c)
             P == IF IsBound(c) THEN o.prows ELSE padded(o.rows)
         IN  /\ P \in Nat /\ P % TILE = 0 /\ (IsBound(c) => o = c.out)
             /\ (o.desc.base + (o.desc.Ro - 1) * o.desc.S_row) + o.desc.Co <= P * o.desc.Cs
<1>1. PICK x \in DOMAIN c.views : Out(c) = OutLike(c, c.views[x].desc)
  BY ResultLike
<1>2. PICK e : e = c.views[x].desc /\ NonEmpty(e)
  BY OperandsAssumption DEF Calls
<1>3. CASE c.out = NoOut
  <2>1. Out(c) = of_shape(e.Ro, e.Co) /\ ~IsBound(c)
    BY <1>1, <1>2, <1>3 DEF OutLike, IsBound
  <2>2. PICK R, C : R = e.Ro /\ C = e.Co /\ R \in Nat \ {0} /\ C \in Nat \ {0}
    BY <1>2 DEF NonEmpty
  <2>3. PICK s : s = IF R > 1 THEN padded(C) ELSE 0
    OBVIOUS
  <2>4. PICK d : d = dense(R, C)
    OBVIOUS
  <2>5. d.base = 0 /\ d.S_row = s /\ d.Cs = padded(C) /\ d.Ro = R /\ d.Co = C
    BY <2>3, <2>4 DEF dense, linear
  <2>6. Out(c).desc = d /\ Out(c).rows = R
    BY <2>1, <2>2, <2>4 DEF of_shape, tensor, view
  <2>7. PICK p, q : p = padded(R) /\ q = padded(C) /\ p \in Nat /\ p % TILE = 0 /\ R <= p
                    /\ q \in Nat \ {0} /\ C <= q
    BY <2>2, PaddedFacts
  <2>8. (0 + (R - 1) * s) + C <= p * q
    <3>1. (p - R) * q >= 0 /\ (p - R) * q = p * q - R * q
      BY <2>2, <2>7, ProductNat, p - R \in Nat
    <3>2. R * q \in Int /\ p * q \in Int /\ (R - 1) * q = R * q - q
      BY <2>2, <2>7
    <3>3. CASE R > 1
      BY <2>2, <2>3, <2>7, <3>1, <3>2, <3>3
    <3>4. CASE ~(R > 1)
      <4>1. R = 1 /\ s = 0
        BY <2>2, <2>3, <3>4
      <4>2. (R - 1) * s = 0
        BY <4>1
      <4> QED BY <2>2, <2>7, <3>1, <3>2, <4>1, <4>2
    <3> QED BY <3>3, <3>4
  <2> QED BY <2>1, <2>5, <2>6, <2>7, <2>8
<1>4. CASE c.out # NoOut
  <2>1. Out(c) = c.out
    BY <1>1, <1>4 DEF OutLike
  <2>2. InTensor(c.out)
    BY <1>4, ViewsAssumption DEF Calls
  <2>3. IsBound(c) <=> c.out.bound
    BY <1>4 DEF IsBound
  <2> QED BY <2>1, <2>2, <2>3 DEF InTensor
<1> QED BY <1>3, <1>4

\* A canonical result is allocated, and has the rows of its groups, packed.
RegularOut(c) == c.canonical => ~IsBound(c) /\ Out(c).desc = dense(Out(c).rows, Out(c).cols)

\* The rows with padding of the tensor that is written.
LEMMA ResultPages ==
  ASSUME LaunchInv, launched # None, op \notin RowCopies, RegularOut(call)
  PROVE  launched.out.spec.prows
           = IF IsBound(call) THEN result.prows
             ELSE padded(IF call.canonical THEN WeightRows(call) * padded(Tokens(call)) ELSE result.rows)
<1>1. /\ call \in Calls /\ call.op = op /\ result = Out(call) /\ launched.a = Attributes(call)
      /\ launched.a.op = op /\ 1 \in DOMAIN call.views /\ launched.call = call
  BY LaunchedFacts, Arity DEF call, result
<1>2. CASE IsBound(call)
  <2>1. launched.out.spec = spec(call.out) /\ result = call.out
    BY <1>1, <1>2, LaunchedTensors, ResultRoom
  <2> QED BY <1>2, <2>1 DEF spec
<1>3. CASE ~IsBound(call)
  <2>1. launched.out.spec = compute_output_specs(launched.a)
    BY <1>1, <1>3, LaunchedTensors
  <2>2. PICK a, w : a = launched.a /\ w = a.out_cols
    OBVIOUS
  <2> DEFINE s(n) == [rows |-> n, cols |-> w, prows |-> padded(n), Cs |-> padded(w), mem |-> a.mem]
  <2>3. \A n : [spec(tensor(n, w)) EXCEPT !.mem = a.mem] = s(n)
    BY DEF spec, tensor, view, dense, linear
  <2>4. a.op # "get_rows" /\ a.op = op
    BY <1>1, <2>2 DEF RowCopies
  <2>5. CASE call.canonical
    <3>1. op \in Eltwise
      BY <1>1, <2>5, ViewsAssumption DEF Calls
    <3>2. a.canon_nt = Tokens(call) /\ a.canon_G = WeightRows(call)
      BY <1>1, <2>2, <2>5, <3>1, OutRows
    <3>3. Tokens(call) > 0
      BY <1>1, OperandTensor DEF Tokens
    <3>4. compute_output_specs(a) = [s(canonical_rows(a)) EXCEPT !.rows = a.canon_G * a.canon_nt]
      BY <2>2, <2>3, <2>4, <3>1, <3>2, <3>3 DEF compute_output_specs
    <3>5. [s(canonical_rows(a)) EXCEPT !.rows = a.canon_G * a.canon_nt].prows = padded(canonical_rows(a))
      OBVIOUS
    <3> HIDE DEF s
    <3> QED BY <1>3, <2>1, <2>2, <2>5, <3>2, <3>4, <3>5 DEF canonical_rows
  <2>6. CASE ~call.canonical
    <3>1. a.out_rows = result.rows /\ (op \in Eltwise => a.canon_nt = 0)
      BY <1>1, <2>2, <2>6, OutRows
    <3>2. ~(a.op \in Eltwise /\ a.canon_nt > 0)
      BY <2>4, <3>1
    <3>3. compute_output_specs(a) = s(a.out_rows)
      BY <2>2, <2>3, <2>4, <3>2 DEF compute_output_specs
    <3>4. s(a.out_rows).prows = padded(a.out_rows)
      OBVIOUS
    <3> HIDE DEF s
    <3> QED BY <1>3, <2>1, <2>2, <2>6, <3>1, <3>3, <3>4
  <2> QED BY <2>5, <2>6
<1> QED BY <1>2, <1>3

\* Rows of tokens in blocks of whole tile rows: the last is in the last block.
LEMMA BlockRows ==
  ASSUME NEW n \in Nat \ {0}, NEW G \in Nat \ {0}, NEW r \in Nat, r < n * G
  PROVE  /\ padded(n) * (r \div n) + (r % n) \in Nat
         /\ padded(n) * (r \div n) + (r % n) < padded(G * padded(n))
         /\ padded(G * padded(n)) \in Nat /\ padded(G * padded(n)) % TILE = 0
<1>1. PICK A : A = padded(n) /\ A \in Nat \ {0} /\ n <= A
  BY PaddedFacts
<1>2. PICK q, t : q = r \div n /\ t = r % n
  OBVIOUS
<1>3. q \in Nat /\ t \in Nat /\ t < n
  <2>1. r \div n \in Nat /\ r % n \in 0 .. n - 1
    BY QuotientNat
  <2> QED BY <1>2, <2>1
<1>4. q < G
  <2>1. r < G * n /\ G \in Nat
    OBVIOUS
  <2> QED BY <1>2, <2>1, QuotientBound
<1>5. (G - 1 - q) * A >= 0 /\ (G - 1 - q) * A = G * A - A - A * q /\ A * q \in Int /\ G * A \in Nat \ {0}
  BY <1>1, <1>3, <1>4, ProductNat, G - 1 - q \in Nat
<1>6. padded(G * A) \in Nat /\ padded(G * A) % TILE = 0 /\ G * A <= padded(G * A)
  BY <1>5, PaddedFacts
<1>7. A * q + t \in Nat /\ A * q + t < G * A
  <2>1. A * q >= 0
    BY <1>1, <1>3, ProductNat
  <2> QED BY <1>1, <1>3, <1>5, <2>1
<1>8. A * q + t < padded(G * A)
  <2>1. PICK X, Y, Z : X = A * q + t /\ Y = G * A /\ Z = padded(G * A)
    OBVIOUS
  <2> QED BY <1>5, <1>6, <1>7, <2>1
<1> QED BY <1>1, <1>2, <1>6, <1>7, <1>8

-----------------------------------------------------------------------------
\* A canonical result's rows: tokens by groups.
LEMMA CanonicalResult ==
  ASSUME LaunchInv, launched # None, op \notin RowCopies, RegularOut(call), call.canonical
  PROVE  LET d == result.desc
         IN  /\ ~IsBound(call) /\ Tokens(call) \in Nat \ {0} /\ WeightRows(call) \in Nat \ {0}
             /\ d.Ro = Tokens(call) * WeightRows(call) /\ d.base = 0
             /\ d.S_row \in Nat /\ d.S_row <= d.Cs /\ d.Co <= d.Cs
<1>1. /\ call \in Calls /\ Lowers(call) /\ call.op = op /\ result = Out(call)
      /\ 1 \in DOMAIN call.views
  BY LaunchedFacts, Arity DEF call, result
<1>2. op \in Eltwise
  BY <1>1, ViewsAssumption DEF Calls
<1>3. Accepted(call) /\ result = EltwiseOut(call)
  BY <1>2, EltwiseCall
<1>4. IsTokenShift(call, result)
  BY <1>3 DEF Accepted
<1>5. call.op = "lerp" /\ Tokens(call) * WeightRows(call) = result.rows
  BY <1>4 DEF IsTokenShift
<1>6. 3 \in DOMAIN call.views
  <2>1. Len(call.views) = 3 /\ DOMAIN call.views = 1 .. Len(call.views)
    BY <1>1, <1>5, Arity DEF Elementwise3
  <2> QED BY <2>1
<1>7. Tokens(call) \in Nat \ {0} /\ WeightRows(call) \in Nat \ {0}
  BY <1>1, <1>6, OperandTensor DEF Tokens, WeightRows
<1>8. ~IsBound(call) /\ result.desc = dense(result.rows, result.cols)
  BY <1>1 DEF RegularOut
<1>9. PICK R, C : R = result.rows /\ C = result.cols
  OBVIOUS
<1>10. PICK d : d = dense(R, C)
  OBVIOUS
<1>11. d.base = 0 /\ d.S_row = (IF R > 1 THEN padded(C) ELSE 0) /\ d.Cs = padded(C) /\ d.Ro = R
       /\ d.Co = C
  BY <1>10 DEF dense, linear
<1>12. C \in Nat \ {0}
  BY <1>1, <1>8, <1>9, <1>10, <1>11, ResultShape DEF IsMap, NonEmpty
<1>13. padded(C) \in Nat /\ C <= padded(C)
  BY <1>12, PaddedFacts
<1> QED BY <1>5, <1>7, <1>8, <1>9, <1>10, <1>11, <1>12, <1>13

\* Every element of the result is in the tensor that is bound or allocated.
LEMMA ResultInside ==
  ASSUME LaunchInv, launched # None, op \notin RowCopies, RegularOut(call),
         NEW r \in Nat, r < result.desc.Ro, NEW c \in Nat, c < result.desc.Co
  PROVE  Target(r, c).page < PagesOf(launched.out)
<1>1. /\ call \in Calls /\ call.op = op /\ result = Out(call) /\ 1 \in DOMAIN call.views
  BY LaunchedFacts, Arity DEF call, result
<1>2. PICK d, b, S, Cs, N, W :
        /\ d = result.desc /\ b = d.base /\ S = d.S_row /\ Cs = d.Cs /\ N = d.Ro /\ W = d.Co
        /\ b \in Nat /\ S \in Nat /\ Cs \in Nat \ {0} /\ Cs % TILE = 0
        /\ N \in Nat \ {0} /\ W \in Nat \ {0}
  <2>1. IsMap(result.desc) /\ result.desc \in Linear
    BY <1>1, ResultShape
  <2> QED BY <2>1 DEF IsMap, NonEmpty, Linear
<1>3. PICK P : P = launched.out.spec.prows
  OBVIOUS
<1>4. PICK e : e = ResElement(r, c) /\ e = b + MeantRow(r) * S + c
  BY <1>2 DEF ResElement
<1>5. P \in Nat /\ P % TILE = 0 /\ e \in Nat /\ e < P * Cs
  <2>1. CASE call.canonical
    <3>1. PICK n, G : /\ n = Tokens(call) /\ G = WeightRows(call) /\ n \in Nat \ {0} /\ G \in Nat \ {0}
                      /\ N = n * G /\ b = 0 /\ S <= Cs /\ W <= Cs /\ ~IsBound(call)
      BY <1>2, <2>1, CanonicalResult
    <3>2. P = padded(G * padded(n))
      BY <1>3, <2>1, <3>1, ResultPages
    <3>3. PICK m : m = MeantRow(r) /\ m = padded(n) * (r \div n) + (r % n)
      BY <2>1, <3>1 DEF MeantRow
    <3>4. r < n * G
      BY <1>2, <3>1
    <3>5. m \in Nat /\ m < P /\ P \in Nat /\ P % TILE = 0
      BY <3>1, <3>2, <3>3, <3>4, BlockRows
    <3>6. m * S <= m * Cs /\ m * S \in Nat
      <4>1. m * (Cs - S) >= 0 /\ m * (Cs - S) = m * Cs - m * S
        BY <1>2, <3>1, <3>5, ProductNat, Cs - S \in Nat
      <4>2. m * S \in Nat /\ m * Cs \in Int
        BY <1>2, <3>5, ProductNat
      <4> QED BY <4>1, <4>2
    <3>7. m * Cs + Cs <= P * Cs
      <4>1. (P - 1 - m) * Cs >= 0 /\ (P - 1 - m) * Cs = P * Cs - Cs - m * Cs
        BY <1>2, <3>5, ProductNat, P - 1 - m \in Nat
      <4>2. P * Cs \in Int /\ m * Cs \in Int
        BY <1>2, <3>5
      <4> QED BY <1>2, <4>1, <4>2
    <3>8. c < Cs /\ e = m * S + c /\ m * Cs \in Int /\ P * Cs \in Int
      BY <1>2, <1>4, <3>1, <3>3, <3>5, <3>6
    <3> QED BY <1>2, <3>5, <3>6, <3>7, <3>8
  <2>2. CASE ~call.canonical
    <3>1. e = b + r * S + c
      BY <1>4, <2>2 DEF MeantRow
    <3>2. P = IF IsBound(call) THEN result.prows ELSE padded(result.rows)
      BY <1>3, <2>2, ResultPages
    <3>3. P \in Nat /\ P % TILE = 0 /\ (b + (N - 1) * S) + W <= P * Cs
      BY <1>1, <1>2, <3>2, ResultRoom
    <3>4. (N - 1 - r) * S >= 0 /\ (N - 1 - r) * S = (N - 1) * S - r * S
      <4>1. PICK k : k = N - 1 - r /\ k \in Nat
        BY <1>2
      <4>2. k * S >= 0 /\ k * S = (N - 1 - r) * S
        BY <1>2, <4>1, ProductNat
      <4> QED BY <1>2, <4>2
    <3>5. r * S \in Nat /\ (N - 1) * S \in Int /\ P * Cs \in Int
      BY <1>2, <3>3, ProductNat
    <3>6. c < W
      BY <1>2
    <3> QED BY <1>2, <3>1, <3>3, <3>4, <3>5, <3>6
  <2> QED BY <2>1, <2>2
<1>6. launched.out.spec.Cs = Cs
  BY <1>2, LaunchedResult
<1>7. Target(r, c) = PageElement(Acc(launched.out), e, launched.out.spec.Cs)
  BY <1>2, <1>4, <1>6 DEF Target
<1>8. PageElement(Acc(launched.out), e, launched.out.spec.Cs).page < PagesOf(launched.out)
  BY <1>2, <1>3, <1>5, <1>6, ElementInside
<1> QED BY <1>7, <1>8

\* The launch of a regular call with a regular result reads and writes no page
\* past the end of a tensor, and an indexed copy none past its rows.
THEOREM LaunchesStayInside ==
  Spec => [](launched # None /\ RegularCall(launched.call) /\ RegularOut(launched.call) => StaysInside)
<1>1. ASSUME CacheInv
      PROVE  launched # None /\ RegularCall(launched.call) /\ RegularOut(launched.call) => StaysInside
  <2> SUFFICES ASSUME launched # None, RegularCall(launched.call), RegularOut(launched.call)
               PROVE  StaysInside
    OBVIOUS
  <2>1. LaunchInv
    BY <1>1 DEF CacheInv
  <2>2. CASE op \in RowCopies
    BY <2>1, <2>2, CopiesInside
  <2>3. CASE op \notin RowCopies
    <3>1. RegularCall(call) /\ RegularOut(call) /\ RegularFeed(call)
      BY DEF call, RegularCall
    <3>2. Stored = MeantStores
      BY <2>1, <2>3, <3>1, RegularRight, ReducedRight, StoresDeliver
    <3>3. ASSUME NEW s \in Stored
          PROVE  /\ s.to.page < PagesOf(launched.out)
                 /\ \A m \in s.over \cup {s.of} : \A x \in DOMAIN m :
                      m[x] = Zero \/ m[x].page < PagesOf(launched.ins[x])
      <4>1. PICK r \in 0 .. result.desc.Ro - 1, c \in 0 .. result.desc.Co - 1 : s = MeantCell(r, c)
        BY <2>1, <2>3, <3>2, MeantCells
      <4>2. result.desc.Ro \in Nat /\ result.desc.Co \in Nat
        <5>1. call \in Calls /\ result = Out(call) /\ call.op = op
          BY <2>1, LaunchedFacts DEF call, result
        <5> QED BY <2>3, <5>1, ResultShape DEF IsMap, NonEmpty
      <4>3. r \in Nat /\ c \in Nat /\ r < result.desc.Ro /\ c < result.desc.Co
        BY <4>2
      <4>4. s.to = Target(r, c) /\ s.of = MeantOf(r, c) /\ s.over = Over(r, c)
        BY <4>1 DEF MeantCell
      <4>5. Target(r, c).page < PagesOf(launched.out)
        BY <2>1, <2>3, <3>1, <4>3, ResultInside
      <4>6. ASSUME NEW m \in s.over \cup {s.of}, NEW x \in DOMAIN m
            PROVE  m[x].page < PagesOf(launched.ins[x])
        <5>1. PICK b \in 0 .. result.desc.Co - 1 : m = MeantOf(r, b)
          BY <4>1, <4>4 DEF Over
        <5>2. b \in Nat /\ b < result.desc.Co
          BY <4>2, <5>1
        <5>3. x \in DOMAIN call.views
          BY <2>1, <2>3, <5>1, MeantOperand
        <5>4. MeantOf(r, b)[x].page < PagesOf(launched.ins[x])
          BY <2>1, <2>3, <3>1, <4>3, <5>2, <5>3, OperandInside
        <5> QED BY <5>1, <5>4
      <4> QED BY <4>4, <4>5, <4>6
    <3> QED BY <2>3, <3>3 DEF StaysInside
  <2> QED BY <2>2, <2>3
<1> QED BY <1>1, CacheInit, CacheStep, PTL DEF Spec
=============================================================================
