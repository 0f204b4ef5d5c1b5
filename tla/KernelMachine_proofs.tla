------------------------ MODULE KernelMachine_proofs ------------------------
(***************************************************************************)
(* The reductions never overfill a buffer, never address a chunk across    *)
(* the end of its ring, and never publish a page that is still being read  *)
(* into or fill one that has not been given back: proofs about             *)
(* KernelMachine, for every interleaving of its kernels.                   *)
(***************************************************************************)
EXTENDS KernelMachine, RkKernel, TLAPS, WellFoundedInduction

-----------------------------------------------------------------------------
(***************************************************************************)
(* Multiples and rings.                                                    *)
(***************************************************************************)
LEMMA DivMod ==
  ASSUME NEW a \in Int, NEW b \in Nat \ {0}
  PROVE  /\ a \div b \in Int /\ a % b \in 0 .. b - 1
         /\ a = (a \div b) * b + (a % b)
OBVIOUS
LEMMA DivModUnique ==
  ASSUME NEW k \in Int, NEW b \in Nat \ {0}, NEW q \in Int, NEW s \in Int,
         k = q * b + s, 0 <= s, s < b
  PROVE  q = k \div b /\ s = k % b
OBVIOUS

LEMMA Small ==
  ASSUME NEW b \in Nat \ {0}, NEW s \in 0 .. b - 1
  PROVE  s % b = s
OBVIOUS

\* Multiples.
LEMMA Multiple ==
  ASSUME NEW g \in Nat \ {0}, NEW x \in Int
  PROVE  x % g = 0 <=> \E q \in Int : x = q * g
<1>1. ASSUME NEW q \in Int, x = q * g PROVE x % g = 0
  <2>1. x = q * g + 0
    BY <1>1
  <2> QED BY <2>1, DivModUnique
<1>2. ASSUME x % g = 0 PROVE x = (x \div g) * g /\ x \div g \in Int
  BY <1>2, DivMod
<1> QED BY <1>1, <1>2

LEMMA Lapped ==
  ASSUME NEW c \in Nat \ {0}, NEW x \in Int, NEW y \in Int
  PROVE  ((x % c) + y) % c = (x + y) % c
<1> DEFINE p == x \div c
           r == x % c
           z == r + y
           q == z \div c
           s == z % c
<1>1. p \in Int /\ r \in Int /\ x = p * c + r
  BY DivMod
<1> HIDE DEF p, r
<1>2. z \in Int /\ z = r + y
  BY <1>1
<1> HIDE DEF z
<1>3. q \in Int /\ s \in 0 .. c - 1 /\ z = q * c + s
  BY <1>2, DivMod
<1> HIDE DEF q, s
<1>4. x + y = (p + q) * c + s
  BY <1>1, <1>2, <1>3
<1>5. s = (x + y) % c
  <2>1. p + q \in Int /\ x + y \in Int /\ s \in Int /\ 0 <= s /\ s < c
    BY <1>1, <1>3
  <2> QED BY <1>4, <2>1, DivModUnique
<1> QED BY <1>5 DEF s, z, r

LEMMA LapDistinct ==
  ASSUME NEW b \in Nat \ {0}, NEW i \in Int, NEW j \in Int, i < j, j - i < b
  PROVE  i % b # j % b
<1> DEFINE p == i \div b
           q == j \div b
           r == i % b
<1> SUFFICES ASSUME j % b = r PROVE FALSE
  OBVIOUS
<1>1. p \in Int /\ q \in Int /\ r \in Int /\ i = p * b + r /\ j = q * b + r
  BY DivMod
<1> HIDE DEF p, q, r
<1>2. (q - p) * b = j - i /\ q - p \in Int
  BY <1>1
<1>3. (q - p) * b < b /\ (q - p) * b > 0
  BY <1>2
<1>4. \A d \in Int : d >= 1 => d * b >= b
  OBVIOUS
<1>5. \A d \in Int : d <= 0 => d * b <= 0
  OBVIOUS
<1> QED BY <1>2, <1>3, <1>4, <1>5

LEMMA NextMultiple ==
  ASSUME NEW g \in Nat \ {0}, NEW x \in Int, x % g = 0
  PROVE  (x + g) % g = 0 /\ (x - g) % g = 0
<1>1. PICK q \in Int : x = q * g
  BY Multiple
<1>2. x + g = (q + 1) * g /\ x - g = (q - 1) * g
  BY <1>1
<1> QED BY <1>2, Multiple, q + 1 \in Int, q - 1 \in Int, x + g \in Int, x - g \in Int

LEMMA NestedMultiple ==
  ASSUME NEW g \in Nat \ {0}, NEW c \in Nat \ {0}, c % g = 0, NEW x \in Int, x % g = 0
  PROVE  (x % c) % g = 0 /\ (x % c) + g <= c
<1>1. PICK q \in Int : x = q * g
  BY Multiple
<1>2. PICK m \in Int : c = m * g
  BY Multiple
<1> DEFINE p == x \div c
           r == x % c
<1>3. p \in Int /\ r \in 0 .. c - 1 /\ x = p * c + r
  BY DivMod
<1> HIDE DEF p, r
<1>4. r = (q - p * m) * g
  <2>1. p * c = (p * m) * g
    BY <1>2, <1>3
  <2>2. (q - p * m) * g = q * g - (p * m) * g
    BY <1>1, <1>2, <1>3
  <2> QED BY <1>1, <1>3, <2>1, <2>2
<1>5. PICK t \in Int : r = t * g
  <2>1. p * m \in Int
    BY <1>2, <1>3
  <2> QED BY <1>4, <2>1, q - p * m \in Int
<1>6. r % g = 0
  BY <1>3, <1>5, Multiple, r \in Int
<1>7. (m - t) * g = c - r /\ c - r > 0
  BY <1>2, <1>3, <1>5
<1>8. \A d \in Int : d * g > 0 => d * g >= g
  OBVIOUS
<1>9. c - r >= g
  BY <1>7, <1>8, m - t \in Int
<1>10. r + g <= c
  BY <1>3, <1>9
<1> QED BY <1>6, <1>10 DEF r

\* Going round a ring of c pages leaves multiples of a divisor of c alone.
LEMMA LapMultiple ==
  ASSUME NEW g \in Nat \ {0}, NEW c \in Nat \ {0}, c % g = 0,
         NEW x \in Int, NEW y \in Int, (x + y) % g = 0
  PROVE  ((x % c) + y) % g = 0
<1>1. PICK q \in Int : x + y = q * g
  BY Multiple, x + y \in Int
<1>2. PICK m \in Int : c = m * g
  BY Multiple
<1> DEFINE p == x \div c
           r == x % c
<1>3. p \in Int /\ r \in Int /\ x = p * c + r
  BY DivMod
<1> HIDE DEF p, r
<1>4. r + y = (q - p * m) * g
  <2>1. p * c = (p * m) * g
    BY <1>2, <1>3
  <2>2. (q - p * m) * g = q * g - (p * m) * g
    BY <1>1, <1>2, <1>3
  <2> QED BY <1>1, <1>3, <2>1, <2>2
<1>5. (r + y) % g = 0
  <2>1. p * m \in Int
    BY <1>2, <1>3
  <2> QED BY <1>3, <1>4, <2>1, Multiple, q - p * m \in Int, r + y \in Int
<1> QED BY <1>5 DEF r

-----------------------------------------------------------------------------
(***************************************************************************)
(* What each kernel obeys by itself, whatever the other two do.  A buffer  *)
(* is filled by one kernel and emptied by one; all chunks it is filled     *)
(* with have one size, and so have all it is emptied by, and either size   *)
(* divides its capacity; what is pushed, gathered or stored has been       *)
(* reserved, what is popped awaited, what is published has landed.         *)
(***************************************************************************)
Filling == {"reserve", "push", "gather", "fill", "emit"}
Emptying == {"wait", "pop", "scatter"}
Publishing == {"push", "emit"}
Handles(s, do, b) == \E i \in 1 .. Len(s) : s[i].do \in do /\ s[i].cb = b

Chunk(in) ==
  IF in.do = "gather" THEN Len(in.tiles) ELSE IF in.do = "fill" THEN 1 ELSE in.n

Publishes(in, b) == in.do \in Publishing /\ in.cb = b
Releases(in, b) == in.do = "pop" /\ in.cb = b

\* At e, what was reserved at i has not been published, what was awaited at i
\* has not been released, what was gathered at i has not been waited for.
Reserves(s, i, e, b) ==
  /\ s[i].do = "reserve" /\ s[i].cb = b
  /\ \A l \in i + 1 .. e - 1 : ~Publishes(s[l], b)
Awaits(s, i, e, b) ==
  /\ s[i].do = "wait" /\ s[i].cb = b
  /\ \A l \in i + 1 .. e - 1 : ~Releases(s[l], b)
Fetches(s, i, e, b) ==
  /\ s[i].do = "gather" /\ s[i].cb = b
  /\ \A l \in i + 1 .. e - 1 : s[l].do # "barrier"

\* Call i of a kernel's sequence s, on buffers of the capacities cap.
Sized(in, cap) ==
  in.do \in Filling \cup Emptying =>
    /\ in.cb \in DOMAIN cap
    /\ in.do # "scatter" => Chunk(in) \in 1 .. cap[in.cb]
    /\ in.do = "gather" => DOMAIN in.tiles = 1 .. Len(in.tiles)
Covered(s, i) ==
  /\ s[i].do \in {"push", "gather", "fill"} =>
       \E j \in 1 .. i - 1 : Reserves(s, j, i, s[i].cb) /\ Chunk(s[i]) <= s[j].n
  /\ s[i].do = "pop" =>
       \E j \in 1 .. i - 1 : Awaits(s, j, i, s[i].cb) /\ s[i].n <= s[j].n
  /\ s[i].do \in Publishing => \A j \in 1 .. i - 1 : ~Fetches(s, j, i, s[i].cb)
Orderly(s, cap) ==
  /\ Len(s) \in Nat
  /\ \A i \in 1 .. Len(s) : Sized(s[i], cap) /\ Covered(s, i)

\* All chunks of b that a kernel's calls of the given kinds move have size g.
Grain(s, do, b, g) ==
  \A i \in 1 .. Len(s) : s[i].do \in do /\ s[i].cb = b => Chunk(s[i]) = g

Disciplined(p) ==
  /\ \A k \in Kernels : Orderly(p[k], p.cap)
  /\ \A b \in DOMAIN p.cap :
       /\ p.cap[b] \in Nat \ {0}
       /\ \A j, k \in Kernels :
            /\ Handles(p[j], Filling, b) /\ Handles(p[k], Filling, b) => j = k
            /\ Handles(p[j], Emptying, b) /\ Handles(p[k], Emptying, b) => j = k
       /\ \E g \in 1 .. p.cap[b] :
            /\ p.cap[b] % g = 0
            /\ \A k \in Kernels : Grain(p[k], {"push", "gather", "emit"}, b, g)
       /\ \E g \in 1 .. p.cap[b] :
            /\ p.cap[b] % g = 0
            /\ \A k \in Kernels : Grain(p[k], {"wait", "pop"}, b, g)

-----------------------------------------------------------------------------
(***************************************************************************)
(* The inductive invariant.  ReservedInv and AwaitedInv are what a kernel  *)
(* behind a reserve or a wait may rely on; GrainInv keeps chunks aligned   *)
(* in their rings; FlightInv places the reads in flight behind the         *)
(* published pages.                                                        *)
(***************************************************************************)
StateInv ==
  /\ call \in DOMAIN loaded
  /\ pc \in [Kernels -> Nat] /\ \A k \in Kernels : pc[k] \in 1 .. Len(P[k]) + 1
  /\ rd \in [Buffers -> Nat] /\ cnt \in [Buffers -> Nat]
  /\ \A b \in Buffers : rd[b] < P.cap[b] /\ cnt[b] <= P.cap[b]
  /\ ring = [b \in Buffers |-> ring[b]]
  /\ \A b \in Buffers : ring[b] = [p \in 0 .. P.cap[b] - 1 |-> ring[b][p]]

ReservedInv ==
  \A k \in Kernels : \A j \in 1 .. pc[k] - 1 : \A b \in Buffers :
    Reserves(P[k], j, pc[k], b) => cnt[b] + P[k][j].n <= P.cap[b]

AwaitedInv ==
  \A k \in Kernels : \A j \in 1 .. pc[k] - 1 : \A b \in Buffers :
    Awaits(P[k], j, pc[k], b) => P[k][j].n <= cnt[b]

GrainInv ==
  \A k \in Kernels : \A i \in 1 .. Len(P[k]) :
    LET in == P[k][i]
    IN  /\ in.do \in {"push", "gather", "emit"} => (rd[in.cb] + cnt[in.cb]) % Chunk(in) = 0
        /\ in.do \in {"wait", "pop"} => rd[in.cb] % Chunk(in) = 0

Free(b, p) == \E d \in cnt[b] .. P.cap[b] - 1 : p = Page(b, d)
FlightInv ==
  \A r \in reads :
    /\ r[1] \in Buffers /\ Free(r[1], r[2])
    /\ \E k \in Kernels : \E j \in 1 .. pc[k] - 1 : Fetches(P[k], j, pc[k], r[1])
MachineInv == StateInv /\ ReservedInv /\ AwaitedInv /\ GrainInv /\ FlightInv

ProgramsDisciplined == \A c \in DOMAIN loaded : Disciplined(loaded[c])

-----------------------------------------------------------------------------
\* What the discipline says of the call a kernel is at.
LEMMA CallFacts ==
  ASSUME ProgramsDisciplined, StateInv, NEW k \in Kernels, pc[k] <= Len(P[k])
  PROVE  /\ Disciplined(P) /\ Len(P[k]) \in Nat /\ pc[k] \in 1 .. Len(P[k])
         /\ Sized(Instr(k), P.cap) /\ Covered(P[k], pc[k])
<1>1. Disciplined(P)
  BY DEF StateInv, ProgramsDisciplined, P
<1>2. Len(P[k]) \in Nat /\ \A i \in 1 .. Len(P[k]) : Sized(P[k][i], P.cap) /\ Covered(P[k], i)
  BY <1>1 DEF Disciplined, Orderly
<1>3. pc[k] \in 1 .. Len(P[k])
  BY <1>2 DEF StateInv
<1> QED BY <1>1, <1>2, <1>3 DEF Instr

LEMMA Advances ==
  ASSUME StateInv, NEW k \in Kernels, Step(k)
  PROVE  pc' \in [Kernels -> Nat] /\ \A j \in Kernels : pc'[j] = IF j = k THEN pc[k] + 1 ELSE pc[j]
BY DEF StateInv, Step

\* Only the kernel that fills a buffer adds pages, and only the one that
\* empties it takes them.
LEMMA ReservedKept ==
  ASSUME ProgramsDisciplined, MachineInv, NEW k \in Kernels, pc[k] <= Len(P[k]),
         Step(k), call' = call, cnt' \in [Buffers -> Nat],
         \A b \in Buffers : cnt'[b] <= cnt[b] \/ Publishes(Instr(k), b),
         Instr(k).do = "reserve" =>
           cnt'[Instr(k).cb] + Instr(k).n <= P.cap[Instr(k).cb]
  PROVE  ReservedInv'
<1>1. P' = P /\ Buffers' = Buffers
  BY DEF P, Buffers
<1>2. SUFFICES ASSUME NEW m \in Kernels, NEW j \in 1 .. pc'[m] - 1, NEW b \in Buffers,
                      Reserves(P[m], j, pc'[m], b)
               PROVE  cnt'[b] + P[m][j].n <= P.cap[b]
  BY <1>1 DEF ReservedInv
<1>3. pc \in [Kernels -> Nat] /\ pc'[m] = IF m = k THEN pc[k] + 1 ELSE pc[m]
  BY Advances DEF MachineInv, StateInv
<1>4. CASE m = k /\ j = pc[k]
  BY <1>2, <1>4 DEF Reserves, Instr
<1>5. CASE ~(m = k /\ j = pc[k])
  <2>1. j \in 1 .. pc[m] - 1 /\ Reserves(P[m], j, pc[m], b)
    BY <1>2, <1>3, <1>5 DEF Reserves
  <2>2. cnt[b] + P[m][j].n <= P.cap[b]
    BY <2>1 DEF MachineInv, ReservedInv
  <2>3. ~Publishes(Instr(k), b)
    <3> SUFFICES ASSUME Publishes(Instr(k), b) PROVE FALSE
      OBVIOUS
    <3>1. Handles(P[k], Filling, b)
      BY CallFacts DEF MachineInv, Publishes, Publishing, Filling, Handles, Instr
    <3>2. Handles(P[m], Filling, b)
      <4>1. P[m][j].do \in Filling /\ P[m][j].cb = b
        BY <2>1 DEF Reserves, Filling
      <4>2. j \in 1 .. Len(P[m])
        <5>1. Len(P[m]) \in Nat
          BY CallFacts DEF MachineInv, Disciplined, Orderly
        <5> QED BY <2>1, <5>1 DEF MachineInv, StateInv
      <4> QED BY <4>1, <4>2 DEF Handles
    <3>3. m = k
      BY <3>1, <3>2, CallFacts DEF MachineInv, Disciplined, Buffers
    <3>4. pc[k] \in j + 1 .. pc'[m] - 1
      BY <1>3, <2>1, <3>3
    <3> QED BY <1>2, <3>3, <3>4 DEF Reserves, Instr
  <2>4. cnt'[b] <= cnt[b]
    BY <2>3
  <2>5. P[m][j].n \in Int /\ P.cap[b] \in Int /\ cnt[b] \in Int /\ cnt'[b] \in Int
    <3>1. j \in 1 .. Len(P[m]) /\ Sized(P[m][j], P.cap)
      <4>1. Len(P[m]) \in Nat /\ \A i \in 1 .. Len(P[m]) : Sized(P[m][i], P.cap)
        BY CallFacts DEF MachineInv, Disciplined, Orderly
      <4> QED BY <2>1, <4>1 DEF MachineInv, StateInv
    <3>2. P[m][j].n \in Int
      BY <2>1, <3>1 DEF Reserves, Sized, Chunk, Filling
    <3>3. P.cap[b] \in Int
      BY CallFacts DEF MachineInv, Disciplined, Buffers
    <3> QED BY <3>2, <3>3 DEF MachineInv, StateInv
  <2> QED BY <2>2, <2>4, <2>5
<1> QED BY <1>4, <1>5

LEMMA AwaitedKept ==
  ASSUME ProgramsDisciplined, MachineInv, NEW k \in Kernels, pc[k] <= Len(P[k]),
         Step(k), call' = call, cnt' \in [Buffers -> Nat],
         \A b \in Buffers : cnt[b] <= cnt'[b] \/ Releases(Instr(k), b),
         Instr(k).do = "wait" => Instr(k).n <= cnt'[Instr(k).cb]
  PROVE  AwaitedInv'
<1>1. P' = P /\ Buffers' = Buffers
  BY DEF P, Buffers
<1>2. SUFFICES ASSUME NEW m \in Kernels, NEW j \in 1 .. pc'[m] - 1, NEW b \in Buffers,
                      Awaits(P[m], j, pc'[m], b)
               PROVE  P[m][j].n <= cnt'[b]
  BY <1>1 DEF AwaitedInv
<1>3. pc \in [Kernels -> Nat] /\ pc'[m] = IF m = k THEN pc[k] + 1 ELSE pc[m]
  BY Advances DEF MachineInv, StateInv
<1>4. CASE m = k /\ j = pc[k]
  BY <1>2, <1>4 DEF Awaits, Instr
<1>5. CASE ~(m = k /\ j = pc[k])
  <2>1. j \in 1 .. pc[m] - 1 /\ Awaits(P[m], j, pc[m], b)
    BY <1>2, <1>3, <1>5 DEF Awaits
  <2>2. P[m][j].n <= cnt[b]
    BY <2>1 DEF MachineInv, AwaitedInv
  <2>6. j \in 1 .. Len(P[m]) /\ Sized(P[m][j], P.cap)
    <3>1. Len(P[m]) \in Nat /\ \A i \in 1 .. Len(P[m]) : Sized(P[m][i], P.cap)
      BY CallFacts DEF MachineInv, Disciplined, Orderly
    <3> QED BY <2>1, <3>1 DEF MachineInv, StateInv
  <2>3. ~Releases(Instr(k), b)
    <3> SUFFICES ASSUME Releases(Instr(k), b) PROVE FALSE
      OBVIOUS
    <3>1. Handles(P[k], Emptying, b)
      BY CallFacts DEF MachineInv, Releases, Emptying, Handles, Instr
    <3>2. Handles(P[m], Emptying, b)
      <4>1. P[m][j].do \in Emptying /\ P[m][j].cb = b
        BY <2>1 DEF Awaits, Emptying
      <4> QED BY <2>6, <4>1 DEF Handles
    <3>3. m = k
      BY <3>1, <3>2, CallFacts DEF MachineInv, Disciplined, Buffers
    <3>4. pc[k] \in j + 1 .. pc'[m] - 1
      BY <1>3, <2>1, <3>3
    <3> QED BY <1>2, <3>3, <3>4 DEF Awaits, Instr
  <2>4. cnt[b] <= cnt'[b]
    BY <2>3
  <2>5. P[m][j].n \in Int /\ cnt[b] \in Int /\ cnt'[b] \in Int
    <3>1. P[m][j].n \in Int
      <4>1. P.cap[P[m][j].cb] \in Int
        BY <2>1, CallFacts DEF MachineInv, Disciplined, Buffers, Awaits
      <4> QED BY <2>1, <2>6, <4>1 DEF Awaits, Sized, Chunk, Filling, Emptying
    <3> QED BY <3>1 DEF MachineInv, StateInv
  <2> QED BY <2>2, <2>4, <2>5
<1> QED BY <1>4, <1>5

\* Chunks have one size per buffer and side.
LEMMA OneGrain ==
  ASSUME Disciplined(P), NEW b \in Buffers
  PROVE  /\ P.cap[b] \in Nat \ {0}
         /\ \E g \in 1 .. P.cap[b] :
              /\ P.cap[b] % g = 0
              /\ \A k \in Kernels : \A i \in 1 .. Len(P[k]) :
                   P[k][i].do \in {"push", "gather", "emit"} /\ P[k][i].cb = b => Chunk(P[k][i]) = g
         /\ \E g \in 1 .. P.cap[b] :
              /\ P.cap[b] % g = 0
              /\ \A k \in Kernels : \A i \in 1 .. Len(P[k]) :
                   P[k][i].do \in {"wait", "pop"} /\ P[k][i].cb = b => Chunk(P[k][i]) = g
BY DEF Disciplined, Grain, Buffers

\* Pages stay aligned: when n more are published, and when n are released.
LEMMA GrainKept ==
  ASSUME ProgramsDisciplined, MachineInv, NEW k \in Kernels, pc[k] <= Len(P[k]), call' = call,
         NEW c,
         \/ Publishes(Instr(k), c) /\ rd' = rd /\ cnt' = [cnt EXCEPT ![c] = @ + Instr(k).n]
         \/ /\ Releases(Instr(k), c)
            /\ rd' = [rd EXCEPT ![c] = Page(c, Instr(k).n)]
            /\ cnt' = [cnt EXCEPT ![c] = @ - Instr(k).n]
         \/ rd' = rd /\ cnt' = cnt
  PROVE  GrainInv'
<1>1. P' = P /\ Buffers' = Buffers
  BY DEF P, Buffers
<1>2. SUFFICES ASSUME NEW m \in Kernels, NEW i \in 1 .. Len(P[m]),
                      P[m][i].do \in {"push", "gather", "emit", "wait", "pop"}
               PROVE  /\ P[m][i].do \in {"push", "gather", "emit"}
                           => (rd'[P[m][i].cb] + cnt'[P[m][i].cb]) % Chunk(P[m][i]) = 0
                      /\ P[m][i].do \in {"wait", "pop"} => rd'[P[m][i].cb] % Chunk(P[m][i]) = 0
  BY <1>1 DEF GrainInv
<1> DEFINE b == P[m][i].cb
           n == Instr(k).n
<1>3. /\ P[m][i].do \in {"push", "gather", "emit"} => (rd[b] + cnt[b]) % Chunk(P[m][i]) = 0
      /\ P[m][i].do \in {"wait", "pop"} => rd[b] % Chunk(P[m][i]) = 0
  BY DEF MachineInv, GrainInv
<1>6. b \in Buffers
  <2>1. Sized(P[m][i], P.cap)
    BY CallFacts DEF MachineInv, Disciplined, Orderly
  <2> QED BY <1>2, <2>1 DEF Sized, Filling, Emptying, Buffers
<1>7. rd \in [Buffers -> Nat] /\ cnt \in [Buffers -> Nat]
  BY DEF MachineInv, StateInv
<1>4. CASE rd'[b] = rd[b] /\ cnt'[b] = cnt[b]
  BY <1>3, <1>4
<1>5. CASE ~(rd'[b] = rd[b] /\ cnt'[b] = cnt[b])
  <2>1. b = c /\ rd \in [Buffers -> Nat] /\ cnt \in [Buffers -> Nat] /\ b \in Buffers
    <3>1. ASSUME b # c PROVE rd'[b] = rd[b] /\ cnt'[b] = cnt[b]
      <4> HIDE DEF b, n
      <4> QED BY <1>6, <1>7, <3>1
    <3> QED BY <1>5, <1>6, <1>7, <3>1
  <2>2. Disciplined(P) /\ pc[k] \in 1 .. Len(P[k]) /\ Sized(Instr(k), P.cap)
    BY CallFacts DEF MachineInv
  <2>3. P.cap[b] \in Nat \ {0} /\ rd[b] \in Nat /\ cnt[b] \in Nat
    BY <2>1, <2>2, OneGrain
  <2>4. CASE Publishes(Instr(k), c) /\ rd' = rd /\ cnt' = [cnt EXCEPT ![c] = @ + Instr(k).n]
    <3>1. rd'[b] = rd[b] /\ cnt'[b] = cnt[b] + n
      BY <2>1, <2>4
    <3>2. ASSUME P[m][i].do \in {"push", "gather", "emit"}
          PROVE  (rd'[b] + cnt'[b]) % Chunk(P[m][i]) = 0
      <4>1. PICK g \in 1 .. P.cap[b] : Chunk(P[m][i]) = g /\ Chunk(Instr(k)) = g
        BY <2>1, <2>2, <2>4, <3>2, OneGrain DEF Publishes, Publishing, Instr
      <4>2. n = g
        BY <2>4, <4>1 DEF Publishes, Publishing, Chunk
      <4>3. (rd[b] + cnt[b]) % g = 0
        BY <1>3, <3>2, <4>1
      <4> HIDE DEF b, n
      <4>4. ((rd[b] + cnt[b]) + g) % g = 0
        BY <2>3, <4>3, NextMultiple, g \in Nat \ {0}, rd[b] + cnt[b] \in Int
      <4>5. (rd[b] + cnt[b]) + g = rd'[b] + cnt'[b]
        BY <2>3, <3>1, <4>2
      <4> QED BY <4>1, <4>4, <4>5
    <3> QED BY <1>3, <3>1, <3>2
  <2>5. CASE /\ Releases(Instr(k), c)
             /\ rd' = [rd EXCEPT ![c] = Page(c, Instr(k).n)]
             /\ cnt' = [cnt EXCEPT ![c] = @ - Instr(k).n]
    <3>1. rd'[b] = (rd[b] + n) % P.cap[b] /\ cnt'[b] = cnt[b] - n
      BY <2>1, <2>5 DEF Page
    <3>2. n \in 1 .. P.cap[b] /\ Chunk(Instr(k)) = n
      BY <2>1, <2>2, <2>5 DEF Releases, Sized, Chunk, Emptying
    <3>3. ASSUME P[m][i].do \in {"push", "gather", "emit"}
          PROVE  (rd'[b] + cnt'[b]) % Chunk(P[m][i]) = 0
      <4>1. PICK g \in 1 .. P.cap[b] : Chunk(P[m][i]) = g /\ P.cap[b] % g = 0
        BY <2>1, <2>2, <3>3, OneGrain
      <4>2. (rd[b] + cnt[b]) % g = 0
        BY <1>3, <3>3, <4>1
      <4> HIDE DEF b, n
      <4>3. (rd[b] + n) + (cnt[b] - n) = rd[b] + cnt[b]
        BY <2>3, <3>2
      <4>4. (((rd[b] + n) % P.cap[b]) + (cnt[b] - n)) % g = 0
        <5>1. g \in Nat \ {0} /\ rd[b] + n \in Int /\ cnt[b] - n \in Int
          BY <2>3, <3>2
        <5>2. ((rd[b] + n) + (cnt[b] - n)) % g = 0
          BY <4>2, <4>3
        <5> QED BY <2>3, <4>1, <5>1, <5>2, LapMultiple
      <4> QED BY <3>1, <4>1, <4>4
    <3>4. ASSUME P[m][i].do \in {"wait", "pop"}
          PROVE  rd'[b] % Chunk(P[m][i]) = 0
      <4>1. PICK g \in 1 .. P.cap[b] :
              Chunk(P[m][i]) = g /\ Chunk(Instr(k)) = g /\ P.cap[b] % g = 0
        BY <2>1, <2>2, <2>5, <3>4, OneGrain DEF Releases, Instr
      <4>2. rd[b] % g = 0 /\ n = g
        BY <1>3, <3>2, <3>4, <4>1
      <4> HIDE DEF b, n
      <4>3. (rd[b] + g) % g = 0
        BY <2>3, <4>2, NextMultiple, g \in Nat \ {0}
      <4>4. ((rd[b] + g) % P.cap[b]) % g = 0
        BY <2>3, <4>1, <4>3, NestedMultiple, g \in Nat \ {0}, rd[b] + g \in Int
      <4> QED BY <3>1, <4>1, <4>2, <4>4
    <3> QED BY <3>3, <3>4
  <2> QED BY <1>5, <2>4, <2>5
<1> QED BY <1>4, <1>5

-----------------------------------------------------------------------------
\* Reads in flight stay behind what is published: a kernel publishes nothing
\* of a buffer it is still fetching into, and releasing pages moves the front
\* of the ring and not its back.
LEMMA FlightStays ==
  ASSUME ProgramsDisciplined, MachineInv, NEW k \in Kernels, pc[k] <= Len(P[k]), call' = call,
         Step(k), Instr(k).do # "barrier",
         NEW c,
         \/ Publishes(Instr(k), c) /\ rd' = rd /\ cnt' = [cnt EXCEPT ![c] = @ + Instr(k).n]
         \/ /\ Releases(Instr(k), c)
            /\ rd' = [rd EXCEPT ![c] = Page(c, Instr(k).n)]
            /\ cnt' = [cnt EXCEPT ![c] = @ - Instr(k).n]
         \/ rd' = rd /\ cnt' = cnt,
         NEW r \in reads
  PROVE  /\ r[1] \in Buffers' /\ Free(r[1], r[2])'
         /\ \E m \in Kernels : \E j \in 1 .. pc'[m] - 1 : Fetches(P'[m], j, pc'[m], r[1])
<1>1. P' = P /\ Buffers' = Buffers
  BY DEF P, Buffers
<1> DEFINE b == r[1]
           n == Instr(k).n
<1>2. b \in Buffers /\ Free(b, r[2])
  BY DEF MachineInv, FlightInv
<1>10. PICK m \in Kernels : \E j \in 1 .. pc[m] - 1 : Fetches(P[m], j, pc[m], b)
  BY DEF MachineInv, FlightInv
<1>3. PICK j \in 1 .. pc[m] - 1 : Fetches(P[m], j, pc[m], b)
  BY <1>10
<1>4. pc \in [Kernels -> Nat] /\ pc'[m] = IF m = k THEN pc[k] + 1 ELSE pc[m]
  BY Advances DEF MachineInv, StateInv
<1>5. Fetches(P[m], j, pc'[m], b) /\ j \in 1 .. pc'[m] - 1
  <2>1. CASE m # k
    BY <1>3, <1>4, <2>1
  <2>2. CASE m = k
    <3>1. pc'[m] = pc[m] + 1 /\ pc[m] \in Nat
      BY <1>4, <2>2
    <3>2. ASSUME NEW l \in j + 1 .. pc'[m] - 1 PROVE P[m][l].do # "barrier"
      <4>1. l \in j + 1 .. pc[m] - 1 \/ l = pc[m]
        BY <3>1
      <4> QED BY <1>3, <2>2, <4>1 DEF Fetches, Instr
    <3> QED BY <1>3, <3>1, <3>2 DEF Fetches
  <2> QED BY <2>1, <2>2
<1>6. Disciplined(P) /\ pc[k] \in 1 .. Len(P[k]) /\ Sized(Instr(k), P.cap) /\ Covered(P[k], pc[k])
  BY CallFacts DEF MachineInv
<1>7. P.cap[b] \in Nat \ {0} /\ rd[b] \in Nat /\ cnt[b] \in Nat
  BY <1>2, <1>6, OneGrain DEF MachineInv, StateInv
<1>8. ~Publishes(Instr(k), b)
  <2> SUFFICES ASSUME Publishes(Instr(k), b) PROVE FALSE
    OBVIOUS
  <2>1. Handles(P[k], Filling, b)
    BY <1>6 DEF Publishes, Publishing, Filling, Handles, Instr
  <2>2. j \in 1 .. Len(P[m])
    <3>1. Len(P[m]) \in Nat
      BY <1>6 DEF Disciplined, Orderly
    <3> QED BY <1>3, <3>1 DEF MachineInv, StateInv
  <2>3. Handles(P[m], Filling, b)
    BY <1>3, <2>2 DEF Fetches, Filling, Handles
  <2>4. m = k
    BY <1>2, <1>6, <2>1, <2>3 DEF Disciplined, Buffers
  <2> QED BY <1>3, <1>6, <2>4 DEF Covered, Publishes, Instr
<1>9. Free(b, r[2])'
  <2>1. PICK d \in cnt[b] .. P.cap[b] - 1 : r[2] = (rd[b] + d) % P.cap[b]
    BY <1>2 DEF Free, Page
  <2>2. CASE rd'[b] = rd[b] /\ cnt'[b] = cnt[b]
    BY <1>1, <2>1, <2>2 DEF Free, Page
  <2>3. CASE ~(rd'[b] = rd[b] /\ cnt'[b] = cnt[b])
    <3>1. /\ b = c /\ Releases(Instr(k), c)
          /\ rd' = [rd EXCEPT ![c] = Page(c, Instr(k).n)]
          /\ cnt' = [cnt EXCEPT ![c] = @ - Instr(k).n]
      <4>1. ASSUME b # c PROVE rd'[b] = rd[b] /\ cnt'[b] = cnt[b]
        <5>1. rd \in [Buffers -> Nat] /\ cnt \in [Buffers -> Nat]
          BY DEF MachineInv, StateInv
        <5> HIDE DEF b, n
        <5> QED BY <1>2, <4>1, <5>1
      <4>2. b = c
        BY <2>3, <4>1
      <4> QED BY <1>8, <2>3, <4>2
    <3>2. rd'[b] = (rd[b] + n) % P.cap[b] /\ cnt'[b] = cnt[b] - n
      BY <1>2, <3>1 DEF Page, MachineInv, StateInv
    <3>3. n \in 1 .. P.cap[b]
      BY <1>6, <3>1 DEF Releases, Sized, Chunk, Emptying
    <3>4. n <= cnt[b]
      <4>1. PICK i \in 1 .. pc[k] - 1 : Awaits(P[k], i, pc[k], b) /\ n <= P[k][i].n
        BY <1>6, <3>1 DEF Covered, Releases, Instr
      <4>2. P[k][i].n <= cnt[b]
        BY <1>2, <4>1 DEF MachineInv, AwaitedInv
      <4>3. P[k][i].n \in Int
        <5>1. i \in 1 .. Len(P[k])
          BY <1>6
        <5>2. Sized(P[k][i], P.cap)
          BY <1>6, <5>1 DEF Disciplined, Orderly
        <5> QED BY <1>7, <4>1, <5>2 DEF Awaits, Sized, Chunk, Filling, Emptying
      <4> QED BY <1>7, <3>3, <4>1, <4>2, <4>3
    <3> HIDE DEF b, n
    <3>5. (((rd[b] + n) % P.cap[b]) + (d - n)) % P.cap[b] = (rd[b] + d) % P.cap[b]
      <4>1. (rd[b] + n) + (d - n) = rd[b] + d /\ rd[b] + n \in Int /\ d - n \in Int
        BY <1>7, <3>3
      <4> QED BY <1>7, <4>1, Lapped
    <3>6. d - n \in cnt'[b] .. P.cap[b] - 1
      <4>1. cnt'[b] = cnt[b] - n
        BY <3>2
      <4>2. \A C, x, e, y \in Int : x \in 1 .. C /\ e \in y .. C - 1 => e - x \in y - x .. C - 1
        OBVIOUS
      <4> QED BY <1>7, <2>1, <3>3, <4>1, <4>2
    <3>7. r[2] = (rd'[b] + (d - n)) % P.cap[b]
      BY <2>1, <3>2, <3>5
    <3> QED BY <1>1, <3>6, <3>7 DEF Free, Page
  <2> QED BY <2>2, <2>3
<1> QED BY <1>1, <1>2, <1>5, <1>9

-----------------------------------------------------------------------------
(***************************************************************************)
(* Every step keeps the invariant.                                         *)
(***************************************************************************)
RingTyped ==
  /\ ring = [b \in Buffers |-> ring[b]]
  /\ \A b \in Buffers : ring[b] = [p \in 0 .. P.cap[b] - 1 |-> ring[b][p]]

\* Steps that move no counter.
LEMMA QuietKeeps ==
  ASSUME ProgramsDisciplined, MachineInv, NEW k \in Kernels, pc[k] <= Len(P[k]), Step(k),
         call' = call, rd' = rd, cnt' = cnt, RingTyped',
         Instr(k).do = "reserve" => cnt[Instr(k).cb] + Instr(k).n <= P.cap[Instr(k).cb],
         Instr(k).do = "wait" => Instr(k).n <= cnt[Instr(k).cb]
  PROVE  StateInv' /\ ReservedInv' /\ AwaitedInv' /\ GrainInv'
<1>1. P' = P /\ Buffers' = Buffers /\ loaded' = loaded
  BY DEF P, Buffers, loaded
<1>2. rd \in [Buffers -> Nat] /\ cnt \in [Buffers -> Nat]
  BY DEF MachineInv, StateInv
<1>3. StateInv'
  <2>1. pc' \in [Kernels -> Nat] /\ \A j \in Kernels : pc'[j] \in 1 .. Len(P[j]) + 1
    <3>1. /\ pc' \in [Kernels -> Nat]
          /\ \A j \in Kernels : pc'[j] = IF j = k THEN pc[k] + 1 ELSE pc[j]
      BY Advances DEF MachineInv
    <3>2. /\ Len(P[k]) \in Nat /\ pc[k] \in 1 .. Len(P[k])
          /\ \A j \in Kernels : pc[j] \in 1 .. Len(P[j]) + 1
      BY CallFacts DEF MachineInv, StateInv
    <3> QED BY <3>1, <3>2
  <2> QED BY <1>1, <2>1 DEF MachineInv, StateInv, RingTyped
<1>4. ReservedInv'
  <2>1. \A b \in Buffers : cnt'[b] <= cnt[b] \/ Publishes(Instr(k), b)
    BY <1>2
  <2>2. Instr(k).do = "reserve" => cnt'[Instr(k).cb] + Instr(k).n <= P.cap[Instr(k).cb]
    OBVIOUS
  <2>3. cnt' \in [Buffers -> Nat]
    BY <1>2
  <2> QED BY <2>1, <2>2, <2>3, ReservedKept
<1>5. AwaitedInv'
  <2>1. \A b \in Buffers : cnt[b] <= cnt'[b] \/ Releases(Instr(k), b)
    BY <1>2
  <2>2. Instr(k).do = "wait" => Instr(k).n <= cnt'[Instr(k).cb]
    OBVIOUS
  <2>3. cnt' \in [Buffers -> Nat]
    BY <1>2
  <2> QED BY <2>1, <2>2, <2>3, AwaitedKept
<1>6. GrainInv'
  BY GrainKept
<1> QED BY <1>3, <1>4, <1>5, <1>6

LEMMA QuietFlight ==
  ASSUME ProgramsDisciplined, MachineInv, NEW k \in Kernels, pc[k] <= Len(P[k]), Step(k),
         call' = call, rd' = rd, cnt' = cnt, reads' = reads, Instr(k).do # "barrier"
  PROVE  FlightInv'
BY FlightStays DEF FlightInv

LEMMA RingSame ==
  ASSUME MachineInv, call' = call, ring' = ring
  PROVE  RingTyped'
BY DEF MachineInv, StateInv, RingTyped, P, Buffers

\* What was reserved is free when it is used.
LEMMA Reserved ==
  ASSUME ProgramsDisciplined, MachineInv, NEW k \in Kernels, pc[k] <= Len(P[k]),
         Instr(k).do \in {"push", "gather", "fill"}
  PROVE  /\ Instr(k).cb \in Buffers /\ Chunk(Instr(k)) \in Nat \ {0}
         /\ cnt[Instr(k).cb] + Chunk(Instr(k)) <= P.cap[Instr(k).cb]
<1> DEFINE b == Instr(k).cb
           n == Chunk(Instr(k))
<1>1. Disciplined(P) /\ pc[k] \in 1 .. Len(P[k]) /\ Sized(Instr(k), P.cap) /\ Covered(P[k], pc[k])
  BY CallFacts DEF MachineInv
<1>2. b \in Buffers /\ n \in 1 .. P.cap[b]
  BY <1>1 DEF Sized, Filling, Buffers
<1>3. P.cap[b] \in Nat \ {0} /\ cnt[b] \in Nat
  BY <1>1, <1>2, OneGrain DEF MachineInv, StateInv
<1>4. PICK j \in 1 .. pc[k] - 1 : Reserves(P[k], j, pc[k], b) /\ n <= P[k][j].n
  BY <1>1 DEF Covered, Instr
<1>5. cnt[b] + P[k][j].n <= P.cap[b]
  BY <1>2, <1>4 DEF MachineInv, ReservedInv
<1>6. P[k][j].n \in Int
  <2>1. j \in 1 .. Len(P[k])
    BY <1>1
  <2>2. Sized(P[k][j], P.cap)
    BY <1>1, <2>1 DEF Disciplined, Orderly
  <2> QED BY <1>3, <1>4, <2>2 DEF Reserves, Sized, Chunk, Filling
<1> HIDE DEF b, n
<1>7. n \in Nat \ {0} /\ cnt[b] + n <= P.cap[b]
  BY <1>2, <1>3, <1>4, <1>5, <1>6
<1> QED BY <1>2, <1>7 DEF b, n

LEMMA ReserveKeeps ==
  ASSUME ProgramsDisciplined, MachineInv, NEW k \in Kernels, cb_reserve_back(k)
  PROVE  MachineInv'
<1>1. pc[k] <= Len(P[k]) /\ Instr(k).do = "reserve"
  BY DEF cb_reserve_back, Runs
<1>2. /\ Step(k) /\ call' = call /\ ring' = ring /\ rd' = rd /\ cnt' = cnt /\ reads' = reads
      /\ cnt[Instr(k).cb] + Instr(k).n <= P.cap[Instr(k).cb]
  BY DEF cb_reserve_back
<1> QED BY <1>1, <1>2, RingSame, QuietKeeps, QuietFlight DEF MachineInv

LEMMA WaitKeeps ==
  ASSUME ProgramsDisciplined, MachineInv, NEW k \in Kernels, cb_wait_front(k)
  PROVE  MachineInv'
<1>1. pc[k] <= Len(P[k]) /\ Instr(k).do = "wait"
  BY DEF cb_wait_front, Runs
<1>2. /\ Step(k) /\ call' = call /\ ring' = ring /\ rd' = rd /\ cnt' = cnt /\ reads' = reads
      /\ cnt[Instr(k).cb] >= Instr(k).n
  BY DEF cb_wait_front
<1>3. Instr(k).n <= cnt[Instr(k).cb]
  <2>1. Sized(Instr(k), P.cap) /\ Disciplined(P)
    BY <1>1, CallFacts DEF MachineInv
  <2>2. Instr(k).cb \in Buffers /\ Instr(k).n \in 1 .. P.cap[Instr(k).cb]
    BY <1>1, <2>1 DEF Sized, Chunk, Emptying, Buffers
  <2>3. P.cap[Instr(k).cb] \in Nat /\ cnt[Instr(k).cb] \in Nat
    BY <2>1, <2>2, OneGrain DEF MachineInv, StateInv
  <2> QED BY <1>2, <2>2, <2>3
<1> QED BY <1>1, <1>2, <1>3, RingSame, QuietKeeps, QuietFlight DEF MachineInv

LEMMA ScatterKeeps ==
  ASSUME ProgramsDisciplined, MachineInv, NEW k \in Kernels, scatter_tile(k)
  PROVE  MachineInv'
<1>1. pc[k] <= Len(P[k]) /\ Instr(k).do = "scatter"
  BY DEF scatter_tile, Runs
<1>2. Step(k) /\ call' = call /\ ring' = ring /\ rd' = rd /\ cnt' = cnt /\ reads' = reads
  BY DEF scatter_tile
<1> QED BY <1>1, <1>2, RingSame, QuietKeeps, QuietFlight DEF MachineInv

LEMMA StoreKeeps ==
  ASSUME ProgramsDisciplined, MachineInv, NEW k \in Kernels, store(k)
  PROVE  MachineInv'
<1>1. pc[k] <= Len(P[k]) /\ Instr(k).do = "fill"
  BY DEF store, Runs
<1>2. Step(k) /\ call' = call /\ rd' = rd /\ cnt' = cnt /\ reads' = reads
  BY DEF store
<1>3. PICK t : ring' = [ring EXCEPT ![Instr(k).cb][wr(Instr(k).cb)] = t]
  BY DEF store
<1>4. RingTyped'
  <2>1. P' = P /\ Buffers' = Buffers
    BY <1>2 DEF P, Buffers
  <2> DEFINE c == Instr(k).cb
             w == wr(c)
  <2> HIDE DEF c, w
  <2>2. /\ ring = [b \in Buffers |-> ring[b]]
        /\ \A b \in Buffers : ring[b] = [p \in 0 .. P.cap[b] - 1 |-> ring[b][p]]
    BY DEF MachineInv, StateInv
  <2>3. ring' = [ring EXCEPT ![c] = [ring[c] EXCEPT ![w] = t]]
    BY <1>3, <2>2 DEF c, w
  <2>4. ring' = [b \in Buffers |-> ring'[b]]
    BY <2>2, <2>3
  <2>5. ASSUME NEW b \in Buffers
        PROVE  ring'[b] = [p \in 0 .. P.cap[b] - 1 |-> ring'[b][p]]
    <3>1. CASE b = c
      <4>1. ring'[b] = [ring[b] EXCEPT ![w] = t]
        BY <2>2, <2>3, <3>1
      <4> QED BY <2>2, <4>1
    <3>2. CASE b # c
      BY <2>2, <2>3, <3>2
    <3> QED BY <3>1, <3>2
  <2> QED BY <2>1, <2>4, <2>5 DEF RingTyped
<1> QED BY <1>1, <1>2, <1>4, QuietKeeps, QuietFlight DEF MachineInv

LEMMA BarrierKeeps ==
  ASSUME ProgramsDisciplined, MachineInv, NEW k \in Kernels, noc_async_read_barrier(k)
  PROVE  MachineInv'
<1>1. pc[k] <= Len(P[k]) /\ Instr(k).do = "barrier"
  BY DEF noc_async_read_barrier, Runs
<1>2. Step(k) /\ call' = call /\ rd' = rd /\ cnt' = cnt /\ reads' = {}
  BY DEF noc_async_read_barrier
<1>3. RingTyped'
  <2>1. P' = P /\ Buffers' = Buffers
    BY <1>2 DEF P, Buffers
  <2>2. \A b \in Buffers : DOMAIN ring[b] = 0 .. P.cap[b] - 1
    BY DEF MachineInv, StateInv
  <2>3. \A b \in Buffers : \E f : ring'[b] = [p \in DOMAIN ring[b] |-> f[p]]
    BY DEF noc_async_read_barrier
  <2>4. ring' = [b \in Buffers |-> ring'[b]]
    BY DEF noc_async_read_barrier
  <2> QED BY <2>1, <2>2, <2>3, <2>4 DEF RingTyped
<1>4. FlightInv'
  BY <1>2 DEF FlightInv
<1> QED BY <1>1, <1>2, <1>3, <1>4, QuietKeeps DEF MachineInv

\* Steps that publish n pages of b, for which there is room.
LEMMA PublishKeeps ==
  ASSUME ProgramsDisciplined, MachineInv, NEW k \in Kernels, pc[k] <= Len(P[k]), Step(k),
         call' = call, rd' = rd, reads' = reads, RingTyped',
         NEW b \in Buffers, Publishes(Instr(k), b),
         cnt' = [cnt EXCEPT ![b] = @ + Instr(k).n],
         cnt[b] + Instr(k).n <= P.cap[b]
  PROVE  MachineInv'
<1>1. P' = P /\ Buffers' = Buffers /\ loaded' = loaded
  BY DEF P, Buffers, loaded
<1>2. rd \in [Buffers -> Nat] /\ cnt \in [Buffers -> Nat]
  BY DEF MachineInv, StateInv
<1>3. Instr(k).n \in Nat \ {0}
  <2>1. Disciplined(P) /\ Sized(Instr(k), P.cap)
    BY CallFacts DEF MachineInv
  <2>2. P.cap[b] \in Nat
    BY <2>1, OneGrain
  <2> QED BY <2>1, <2>2 DEF Sized, Chunk, Publishes, Publishing, Filling
<1>4. /\ cnt' \in [Buffers -> Nat] /\ cnt'[b] = cnt[b] + Instr(k).n
      /\ \A c \in Buffers : c # b => cnt'[c] = cnt[c]
  BY <1>2, <1>3
<1>5. StateInv'
  <2>1. pc' \in [Kernels -> Nat] /\ \A j \in Kernels : pc'[j] \in 1 .. Len(P[j]) + 1
    <3>1. /\ pc' \in [Kernels -> Nat]
          /\ \A j \in Kernels : pc'[j] = IF j = k THEN pc[k] + 1 ELSE pc[j]
      BY Advances DEF MachineInv
    <3>2. /\ Len(P[k]) \in Nat /\ pc[k] \in 1 .. Len(P[k])
          /\ \A j \in Kernels : pc[j] \in 1 .. Len(P[j]) + 1
      BY CallFacts DEF MachineInv, StateInv
    <3> QED BY <3>1, <3>2
  <2>2. \A c \in Buffers : cnt'[c] <= P.cap[c]
    BY <1>4 DEF MachineInv, StateInv
  <2> QED BY <1>1, <1>4, <2>1, <2>2 DEF MachineInv, StateInv, RingTyped
<1>6. ReservedInv'
  <2>1. \A c \in Buffers : cnt'[c] <= cnt[c] \/ Publishes(Instr(k), c)
    BY <1>2, <1>4
  <2>2. Instr(k).do # "reserve"
    BY DEF Publishes, Publishing
  <2> QED BY <1>4, <2>1, <2>2, ReservedKept
<1>7. AwaitedInv'
  <2>1. \A c \in Buffers : cnt[c] <= cnt'[c] \/ Releases(Instr(k), c)
    BY <1>2, <1>3, <1>4
  <2>2. Instr(k).do # "wait"
    BY DEF Publishes, Publishing
  <2> QED BY <1>4, <2>1, <2>2, AwaitedKept
<1>8. GrainInv'
  BY GrainKept
<1>9. FlightInv'
  <2>1. Instr(k).do # "barrier"
    BY DEF Publishes, Publishing
  <2> QED BY <2>1, FlightStays DEF FlightInv
<1> QED BY <1>5, <1>6, <1>7, <1>8, <1>9 DEF MachineInv

LEMMA PushKeeps ==
  ASSUME ProgramsDisciplined, MachineInv, NEW k \in Kernels, cb_push_back(k)
  PROVE  MachineInv'
<1>1. pc[k] <= Len(P[k]) /\ Instr(k).do = "push"
  BY DEF cb_push_back, Runs
<1>2. /\ Step(k) /\ call' = call /\ ring' = ring /\ rd' = rd /\ reads' = reads
      /\ cnt' = [cnt EXCEPT ![Instr(k).cb] = @ + Instr(k).n]
  BY DEF cb_push_back
<1>3. Instr(k).cb \in Buffers /\ cnt[Instr(k).cb] + Instr(k).n <= P.cap[Instr(k).cb]
  BY <1>1, Reserved DEF Chunk
<1>4. Publishes(Instr(k), Instr(k).cb)
  BY <1>1 DEF Publishes, Publishing
<1> QED BY <1>1, <1>2, <1>3, <1>4, RingSame, PublishKeeps

LEMMA EmitKeeps ==
  ASSUME ProgramsDisciplined, MachineInv, NEW k \in Kernels, emitN(k)
  PROVE  MachineInv'
<1> DEFINE b == Instr(k).cb
<1>1. pc[k] <= Len(P[k]) /\ Instr(k).do = "emit"
  BY DEF emitN, Runs
<1>2. /\ Step(k) /\ call' = call /\ rd' = rd /\ reads' = reads
      /\ cnt' = [cnt EXCEPT ![b] = @ + Instr(k).n]
      /\ cnt[b] + Instr(k).n <= P.cap[b]
  BY DEF emitN
<1>3. PICK t : ring' = [ring EXCEPT ![b] = [p \in DOMAIN @ |-> t[p]]]
  <2> DEFINE t == [p \in DOMAIN ring[b] |->
                     IF \E i \in 0 .. Instr(k).n - 1 : p = (wr(b) + i) % P.cap[b]
                     THEN Dest(k, (p - wr(b)) % P.cap[b]).tile ELSE ring[b][p]]
  <2>1. ring' = [ring EXCEPT ![b] = t]
    BY DEF emitN
  <2>2. t = [p \in DOMAIN ring[b] |-> t[p]]
    OBVIOUS
  <2> HIDE DEF t, b
  <2> QED BY <2>1, <2>2
<1>4. b \in Buffers
  BY <1>1, CallFacts DEF MachineInv, Sized, Filling, Buffers
<1>5. RingTyped'
  <2>1. P' = P /\ Buffers' = Buffers
    BY <1>2 DEF P, Buffers
  <2>2. /\ ring = [c \in Buffers |-> ring[c]]
        /\ \A c \in Buffers : ring[c] = [p \in 0 .. P.cap[c] - 1 |-> ring[c][p]]
    BY DEF MachineInv, StateInv
  <2> HIDE DEF b
  <2>3. ring' = [ring EXCEPT ![b] = [p \in DOMAIN ring[b] |-> t[p]]]
    BY <1>3
  <2>4. ring' = [c \in Buffers |-> ring'[c]]
    BY <2>2, <2>3
  <2>5. ASSUME NEW c \in Buffers
        PROVE  ring'[c] = [p \in 0 .. P.cap[c] - 1 |-> ring'[c][p]]
    <3>1. CASE c = b
      <4>1. ring'[c] = [p \in DOMAIN ring[c] |-> t[p]]
        BY <2>2, <2>3, <3>1
      <4>2. DOMAIN ring[c] = 0 .. P.cap[c] - 1
        BY <2>2
      <4> QED BY <4>1, <4>2
    <3>2. CASE c # b
      BY <2>2, <2>3, <3>2
    <3> QED BY <3>1, <3>2
  <2> QED BY <2>1, <2>4, <2>5 DEF RingTyped
<1>6. Publishes(Instr(k), b)
  BY <1>1 DEF Publishes, Publishing
<1> QED BY <1>1, <1>2, <1>4, <1>5, <1>6, PublishKeeps

LEMMA PopKeeps ==
  ASSUME ProgramsDisciplined, MachineInv, NEW k \in Kernels, cb_pop_front(k)
  PROVE  MachineInv'
<1> DEFINE b == Instr(k).cb
           n == Instr(k).n
<1>1. pc[k] <= Len(P[k]) /\ Instr(k).do = "pop"
  BY DEF cb_pop_front, Runs
<1>2. /\ Step(k) /\ call' = call /\ reads' = reads /\ ring' = ring
      /\ rd' = [rd EXCEPT ![b] = Page(b, n)]
      /\ cnt' = [cnt EXCEPT ![b] = @ - n]
  BY DEF cb_pop_front
<1>3. P' = P /\ Buffers' = Buffers /\ loaded' = loaded
  BY <1>2 DEF P, Buffers, loaded
<1>4. rd \in [Buffers -> Nat] /\ cnt \in [Buffers -> Nat]
  BY DEF MachineInv, StateInv
<1>5. Disciplined(P) /\ pc[k] \in 1 .. Len(P[k]) /\ Sized(Instr(k), P.cap) /\ Covered(P[k], pc[k])
  BY <1>1, CallFacts DEF MachineInv
<1>6. b \in Buffers /\ n \in 1 .. P.cap[b]
  BY <1>1, <1>5 DEF Sized, Emptying, Chunk, Buffers
<1>7. P.cap[b] \in Nat \ {0}
  BY <1>5, <1>6, OneGrain
<1>8. n <= cnt[b]
  <2>1. PICK i \in 1 .. pc[k] - 1 : Awaits(P[k], i, pc[k], b) /\ n <= P[k][i].n
    BY <1>1, <1>5 DEF Covered, Instr
  <2>2. P[k][i].n <= cnt[b]
    BY <1>6, <2>1 DEF MachineInv, AwaitedInv
  <2>3. P[k][i].n \in Int
    <3>1. i \in 1 .. Len(P[k])
      BY <1>5
    <3>2. Sized(P[k][i], P.cap)
      BY <1>5, <3>1 DEF Disciplined, Orderly
    <3> QED BY <1>7, <2>1, <3>2 DEF Awaits, Sized, Chunk, Filling, Emptying
  <2> QED BY <1>4, <1>6, <2>1, <2>2, <2>3
<1>9. Releases(Instr(k), b)
  BY <1>1 DEF Releases
<1>10. RingTyped'
  BY <1>2, RingSame
<1>11. /\ cnt' \in [Buffers -> Nat] /\ cnt'[b] = cnt[b] - n
       /\ \A c \in Buffers : c # b => cnt'[c] = cnt[c]
  <2> HIDE DEF b, n
  <2>1. cnt[b] - n \in Nat
    BY <1>4, <1>6, <1>8
  <2> QED BY <1>2, <1>4, <1>6, <2>1
<1>12. StateInv'
  <2>1. pc' \in [Kernels -> Nat] /\ \A j \in Kernels : pc'[j] \in 1 .. Len(P[j]) + 1
    <3>1. /\ pc' \in [Kernels -> Nat]
          /\ \A j \in Kernels : pc'[j] = IF j = k THEN pc[k] + 1 ELSE pc[j]
      BY <1>2, Advances DEF MachineInv
    <3>2. /\ Len(P[k]) \in Nat /\ pc[k] \in 1 .. Len(P[k])
          /\ \A j \in Kernels : pc[j] \in 1 .. Len(P[j]) + 1
      BY <1>5 DEF MachineInv, StateInv, Disciplined, Orderly
    <3> QED BY <3>1, <3>2
  <2>2. Page(b, n) \in 0 .. P.cap[b] - 1
    <3>1. rd[b] + n \in Int
      BY <1>4, <1>6, <1>7
    <3> QED BY <1>7, <3>1, DivMod DEF Page
  <2>3. rd' \in [Buffers -> Nat] /\ \A c \in Buffers : rd'[c] < P.cap[c]
    <3>1. \A c \in Buffers : rd[c] < P.cap[c]
      BY DEF MachineInv, StateInv
    <3>2. Page(b, n) \in Nat /\ Page(b, n) < P.cap[b]
      BY <1>7, <2>2
    <3> HIDE DEF b, n
    <3> QED BY <1>2, <1>4, <1>6, <3>1, <3>2
  <2>4. \A c \in Buffers : cnt'[c] <= P.cap[c]
    <3>1. \A c \in Buffers : cnt[c] <= P.cap[c]
      BY DEF MachineInv, StateInv
    <3>2. cnt[b] - n <= P.cap[b]
      BY <1>4, <1>6, <1>7, <3>1
    <3> QED BY <1>11, <3>1, <3>2
  <2> QED BY <1>2, <1>3, <1>10, <1>11, <2>1, <2>3, <2>4 DEF MachineInv, StateInv, RingTyped
<1>13. ReservedInv'
  <2>1. \A c \in Buffers : cnt'[c] <= cnt[c] \/ Publishes(Instr(k), c)
    <3>1. cnt[b] - n <= cnt[b]
      BY <1>4, <1>6
    <3> QED BY <1>4, <1>11, <3>1
  <2> QED BY <1>1, <1>2, <1>11, <2>1, ReservedKept
<1>14. AwaitedInv'
  <2>1. \A c \in Buffers : cnt[c] <= cnt'[c] \/ Releases(Instr(k), c)
    BY <1>4, <1>9, <1>11
  <2> QED BY <1>1, <1>2, <1>11, <2>1, AwaitedKept
<1>15. GrainInv'
  BY <1>1, <1>2, <1>9, GrainKept
<1>16. FlightInv'
  BY <1>1, <1>2, <1>9, FlightStays DEF FlightInv
<1> QED BY <1>12, <1>13, <1>14, <1>15, <1>16 DEF MachineInv

\* The pages a gather reads into lie behind the published ones.
LEMMA GatheredPage ==
  ASSUME ProgramsDisciplined, MachineInv, NEW k \in Kernels, pc[k] <= Len(P[k]),
         Instr(k).do = "gather", NEW i \in DOMAIN Instr(k).tiles
  PROVE  LET b == Instr(k).cb
         IN  /\ b \in Buffers
             /\ cnt[b] + i - 1 \in cnt[b] .. P.cap[b] - 1
             /\ (wr(b) + i - 1) % P.cap[b] = Page(b, cnt[b] + i - 1)
<1> DEFINE b == Instr(k).cb
           n == Len(Instr(k).tiles)
<1>1. b \in Buffers /\ n \in Nat \ {0} /\ cnt[b] + n <= P.cap[b]
  BY Reserved DEF Chunk
<1>2. Disciplined(P) /\ i \in 1 .. n
  BY CallFacts DEF MachineInv, Sized, Filling
<1>3. P.cap[b] \in Nat \ {0} /\ rd[b] \in Nat /\ cnt[b] \in Nat
  BY <1>1, <1>2, OneGrain DEF MachineInv, StateInv
<1>4. wr(b) = (rd[b] + cnt[b]) % P.cap[b]
  BY DEF wr
<1> HIDE DEF b, n
<1>5. (((rd[b] + cnt[b]) % P.cap[b]) + (i - 1)) % P.cap[b] = ((rd[b] + cnt[b]) + (i - 1)) % P.cap[b]
  BY <1>2, <1>3, Lapped, rd[b] + cnt[b] \in Int, i - 1 \in Int
<1>6. /\ (rd[b] + cnt[b]) + (i - 1) = rd[b] + (cnt[b] + i - 1)
      /\ cnt[b] + i - 1 \in cnt[b] .. P.cap[b] - 1
  BY <1>1, <1>2, <1>3
<1>7. wr(b) \in Int
  <2>1. (rd[b] + cnt[b]) % P.cap[b] \in 0 .. P.cap[b] - 1
    BY <1>3, DivMod, rd[b] + cnt[b] \in Int
  <2> QED BY <1>3, <1>4, <2>1
<1>8. wr(b) + i - 1 = wr(b) + (i - 1)
  BY <1>2, <1>7
<1>9. (wr(b) + i - 1) % P.cap[b] = Page(b, cnt[b] + i - 1)
  BY <1>4, <1>5, <1>6, <1>8 DEF Page
<1> QED BY <1>1, <1>6, <1>9 DEF b

LEMMA GatherKeeps ==
  ASSUME ProgramsDisciplined, MachineInv, NEW k \in Kernels, noc_async_read(k)
  PROVE  MachineInv'
<1> DEFINE b == Instr(k).cb
           tiles == Instr(k).tiles
           page(i) == (wr(b) + i - 1) % P.cap[b]
<1>1. pc[k] <= Len(P[k]) /\ Instr(k).do = "gather"
  BY DEF noc_async_read, Runs
<1>2. /\ Step(k) /\ call' = call /\ rd' = rd /\ cnt' = cnt
      /\ reads' = reads \cup {<<b, page(i), tiles[i]>> : i \in DOMAIN tiles}
  BY DEF noc_async_read
<1>3. PICK t : ring' = [ring EXCEPT ![b] = [p \in DOMAIN @ |-> t[p]]]
  <2> DEFINE t == [p \in DOMAIN ring[b] |->
                     IF \E i \in DOMAIN tiles : p = page(i) THEN JunkTile ELSE ring[b][p]]
  <2>1. ring' = [ring EXCEPT ![b] = t]
    BY DEF noc_async_read
  <2>2. t = [p \in DOMAIN ring[b] |-> t[p]]
    OBVIOUS
  <2> HIDE DEF t, b, page, tiles
  <2> QED BY <2>1, <2>2
<1>4. b \in Buffers
  BY <1>1, CallFacts DEF MachineInv, Sized, Filling, Buffers
<1>5. RingTyped'
  <2>1. P' = P /\ Buffers' = Buffers
    BY <1>2 DEF P, Buffers
  <2>2. /\ ring = [c \in Buffers |-> ring[c]]
        /\ \A c \in Buffers : ring[c] = [p \in 0 .. P.cap[c] - 1 |-> ring[c][p]]
    BY DEF MachineInv, StateInv
  <2> HIDE DEF b
  <2>3. ring' = [ring EXCEPT ![b] = [p \in DOMAIN ring[b] |-> t[p]]]
    BY <1>3
  <2>4. ring' = [c \in Buffers |-> ring'[c]]
    BY <2>2, <2>3
  <2>5. ASSUME NEW c \in Buffers
        PROVE  ring'[c] = [p \in 0 .. P.cap[c] - 1 |-> ring'[c][p]]
    <3>1. CASE c = b
      <4>1. ring'[c] = [p \in DOMAIN ring[c] |-> t[p]]
        BY <2>2, <2>3, <3>1
      <4>2. DOMAIN ring[c] = 0 .. P.cap[c] - 1
        BY <2>2
      <4> QED BY <4>1, <4>2
    <3>2. CASE c # b
      BY <2>2, <2>3, <3>2
    <3> QED BY <3>1, <3>2
  <2> QED BY <2>1, <2>4, <2>5 DEF RingTyped
<1>6. StateInv' /\ ReservedInv' /\ AwaitedInv' /\ GrainInv'
  BY <1>1, <1>2, <1>5, QuietKeeps
<1>7. FlightInv'
  <2>1. P' = P /\ Buffers' = Buffers
    BY <1>2 DEF P, Buffers
  <2>2. SUFFICES ASSUME NEW r \in reads'
                 PROVE  /\ r[1] \in Buffers' /\ Free(r[1], r[2])'
                        /\ \E m \in Kernels : \E j \in 1 .. pc'[m] - 1 :
                             Fetches(P'[m], j, pc'[m], r[1])
    BY DEF FlightInv
  <2>3. CASE r \in reads
    BY <1>1, <1>2, <2>3, FlightStays
  <2>4. CASE r \notin reads
    <3>1. PICK i \in DOMAIN tiles : r = <<b, page(i), tiles[i]>>
      BY <1>2, <2>4
    <3>2. r[1] = b /\ r[2] = page(i)
      BY <3>1
    <3>3. /\ cnt[b] + i - 1 \in cnt[b] .. P.cap[b] - 1
          /\ page(i) = Page(b, cnt[b] + i - 1)
      BY <1>1, GatheredPage
    <3>4. Free(r[1], r[2])'
      <4>1. Free(r[1], r[2])
        BY <3>2, <3>3 DEF Free
      <4> QED BY <1>2, <2>1, <4>1 DEF Free, Page
    <3>5. pc[k] \in 1 .. pc'[k] - 1 /\ \A l \in pc[k] + 1 .. pc'[k] - 1 : FALSE
      <4>1. pc'[k] = pc[k] + 1
        BY <1>2, Advances DEF MachineInv
      <4>2. pc[k] \in Nat /\ pc[k] >= 1
        BY DEF MachineInv, StateInv
      <4> QED BY <4>1, <4>2
    <3>6. Fetches(P[k], pc[k], pc'[k], b)
      BY <1>1, <3>5 DEF Fetches, Instr
    <3> QED BY <1>4, <2>1, <3>2, <3>4, <3>5, <3>6
  <2> QED BY <2>3, <2>4
<1> QED BY <1>6, <1>7 DEF MachineInv

-----------------------------------------------------------------------------
(***************************************************************************)
(* The theorems of the machine.                                            *)
(***************************************************************************)
LEMMA MachineInit == ProgramsDisciplined /\ Init => MachineInv
<1> SUFFICES ASSUME ProgramsDisciplined, Init PROVE MachineInv
  OBVIOUS
<1>1. call \in DOMAIN loaded /\ Disciplined(P)
  BY DEF Init, ProgramsDisciplined, P
<1>2. \A k \in Kernels : pc[k] = 1 /\ Len(P[k]) \in Nat
  BY <1>1 DEF Init, Disciplined, Orderly
<1>3. \A b \in Buffers : P.cap[b] \in Nat \ {0} /\ rd[b] = 0 /\ cnt[b] = 0
  BY <1>1, OneGrain DEF Init
<1>4. StateInv
  <2>1. pc \in [Kernels -> Nat] /\ \A k \in Kernels : pc[k] \in 1 .. Len(P[k]) + 1
    <3>1. pc \in [Kernels -> Nat]
      BY DEF Init
    <3> QED BY <1>2, <3>1
  <2>2. rd \in [Buffers -> Nat] /\ cnt \in [Buffers -> Nat]
    BY DEF Init
  <2>3. \A b \in Buffers : rd[b] < P.cap[b] /\ cnt[b] <= P.cap[b]
    BY <1>3
  <2>4. /\ ring = [b \in Buffers |-> ring[b]]
        /\ \A b \in Buffers : ring[b] = [p \in 0 .. P.cap[b] - 1 |-> ring[b][p]]
    BY DEF Init
  <2> QED BY <1>1, <2>1, <2>2, <2>3, <2>4 DEF StateInv
<1>5. ReservedInv /\ AwaitedInv
  <2>1. \A k \in Kernels : 1 .. pc[k] - 1 = {}
    BY <1>2
  <2> QED BY <2>1 DEF ReservedInv, AwaitedInv
<1>6. GrainInv
  <2> SUFFICES ASSUME NEW k \in Kernels, NEW i \in 1 .. Len(P[k]),
                      P[k][i].do \in {"push", "gather", "emit", "wait", "pop"}
               PROVE  /\ (rd[P[k][i].cb] + cnt[P[k][i].cb]) % Chunk(P[k][i]) = 0
                      /\ rd[P[k][i].cb] % Chunk(P[k][i]) = 0
    BY DEF GrainInv
  <2> DEFINE b == P[k][i].cb
             n == Chunk(P[k][i])
  <2>1. Sized(P[k][i], P.cap)
    BY <1>1 DEF Disciplined, Orderly
  <2>2. b \in Buffers /\ n \in 1 .. P.cap[b]
    BY <2>1 DEF Sized, Filling, Emptying, Buffers
  <2>3. n \in Nat \ {0}
    BY <1>3, <2>2
  <2>4. rd[b] = 0 /\ cnt[b] = 0
    BY <1>3, <2>2
  <2> HIDE DEF b, n
  <2>5. 0 % n = 0
    BY <2>3, Multiple, 0 = 0 * n
  <2>6. (rd[b] + cnt[b]) % n = 0 /\ rd[b] % n = 0
    BY <2>4, <2>5
  <2> QED BY <2>6 DEF b, n
<1>7. FlightInv
  BY DEF Init, FlightInv
<1> QED BY <1>4, <1>5, <1>6, <1>7 DEF MachineInv

LEMMA MachineStep == ProgramsDisciplined /\ MachineInv /\ [Next]_vars => MachineInv'
<1> SUFFICES ASSUME ProgramsDisciplined, MachineInv, [Next]_vars PROVE MachineInv'
  OBVIOUS
<1>1. ASSUME NEW k \in Kernels, Kernel(k) PROVE MachineInv'
  BY <1>1, ReserveKeeps, PushKeeps, WaitKeeps, PopKeeps, GatherKeeps, BarrierKeeps,
     StoreKeeps, EmitKeeps, ScatterKeeps DEF Kernel
<1>2. CASE UNCHANGED vars
  <2>1. P' = P /\ Buffers' = Buffers /\ loaded' = loaded
    BY <1>2 DEF vars, P, Buffers, loaded
  <2>2. /\ StateInv' /\ ReservedInv' /\ AwaitedInv' /\ GrainInv'
    BY <1>2, <2>1 DEF vars, MachineInv, StateInv, ReservedInv, AwaitedInv, GrainInv
  <2>3. FlightInv'
    BY <1>2, <2>1 DEF vars, MachineInv, FlightInv, Free, Page
  <2> QED BY <2>2, <2>3 DEF MachineInv
<1>3. CASE Terminated
  BY <1>2, <1>3 DEF Terminated
<1> QED BY <1>1, <1>2, <1>3 DEF Next

\* The pages ahead of the published ones are none of them.
LEMMA FreeUnpublished ==
  ASSUME ProgramsDisciplined, StateInv, NEW b \in Buffers, NEW p, Free(b, p),
         NEW i \in 0 .. cnt[b] - 1
  PROVE  p # Page(b, i)
<1>1. Disciplined(P)
  BY DEF StateInv, ProgramsDisciplined, P
<1>2. P.cap[b] \in Nat \ {0} /\ rd[b] \in Nat /\ cnt[b] \in Nat
  BY <1>1, OneGrain DEF StateInv
<1>3. PICK d \in cnt[b] .. P.cap[b] - 1 : p = (rd[b] + d) % P.cap[b]
  BY DEF Free, Page
<1>4. rd[b] + i < rd[b] + d /\ (rd[b] + d) - (rd[b] + i) < P.cap[b]
  BY <1>2, <1>3
<1>5. (rd[b] + i) % P.cap[b] # (rd[b] + d) % P.cap[b]
  BY <1>2, <1>3, <1>4, LapDistinct, rd[b] + i \in Int, rd[b] + d \in Int
<1> QED BY <1>3, <1>5 DEF Page

\* An aligned chunk ends inside its ring.
LEMMA ChunkFits ==
  ASSUME ProgramsDisciplined, MachineInv, NEW k \in Kernels, pc[k] <= Len(P[k])
  PROVE  /\ Instr(k).do \in {"gather", "emit"} =>
              wr(Instr(k).cb) + Chunk(Instr(k)) <= P.cap[Instr(k).cb]
         /\ Instr(k).do = "wait" => rd[Instr(k).cb] + Chunk(Instr(k)) <= P.cap[Instr(k).cb]
<1> DEFINE b == Instr(k).cb
           g == Chunk(Instr(k))
<1>1. Disciplined(P) /\ pc[k] \in 1 .. Len(P[k]) /\ Sized(Instr(k), P.cap)
  BY CallFacts DEF MachineInv
<1>2. ASSUME Instr(k).do \in {"gather", "emit", "wait"}
      PROVE  b \in Buffers /\ g \in Nat \ {0} /\ P.cap[b] \in Nat \ {0} /\ P.cap[b] % g = 0
  <2>1. b \in Buffers /\ g \in 1 .. P.cap[b]
    BY <1>1, <1>2 DEF Sized, Filling, Emptying, Buffers
  <2>2. P.cap[b] \in Nat \ {0}
    BY <1>1, <2>1, OneGrain
  <2>3. P.cap[b] % g = 0
    BY <1>1, <1>2, <2>1, OneGrain DEF Instr
  <2>4. g \in Nat \ {0}
    BY <2>1, <2>2
  <2> QED BY <2>1, <2>2, <2>3, <2>4
<1>3. rd \in [Buffers -> Nat] /\ cnt \in [Buffers -> Nat] /\ \A c \in Buffers : rd[c] < P.cap[c]
  BY DEF MachineInv, StateInv
<1>4. ASSUME Instr(k).do \in {"gather", "emit"} PROVE wr(b) + g <= P.cap[b]
  <2>1. (rd[b] + cnt[b]) % g = 0
    BY <1>1, <1>4 DEF MachineInv, GrainInv, Instr
  <2>2. b \in Buffers /\ g \in Nat \ {0} /\ P.cap[b] \in Nat \ {0} /\ P.cap[b] % g = 0
    BY <1>2, <1>4
  <2>3. wr(b) = (rd[b] + cnt[b]) % P.cap[b]
    BY DEF wr
  <2> HIDE DEF b, g
  <2> QED BY <1>3, <2>1, <2>2, <2>3, NestedMultiple, rd[b] + cnt[b] \in Int
<1>5. ASSUME Instr(k).do = "wait" PROVE rd[b] + g <= P.cap[b]
  <2>1. rd[b] % g = 0
    BY <1>1, <1>5 DEF MachineInv, GrainInv, Instr
  <2>2. b \in Buffers /\ g \in Nat \ {0} /\ P.cap[b] \in Nat \ {0} /\ P.cap[b] % g = 0
    BY <1>2, <1>5
  <2> HIDE DEF b, g
  <2>3. rd[b] % P.cap[b] = rd[b]
    <3>1. rd[b] \in 0 .. P.cap[b] - 1
      BY <1>3, <2>2
    <3> QED BY <2>2, <3>1, Small
  <2> QED BY <1>3, <2>1, <2>2, <2>3, NestedMultiple, rd[b] \in Int
<1> QED BY <1>4, <1>5

\* No buffer is overfilled or popped below empty, whatever the interleaving,
\* if each kernel by itself is disciplined.
THEOREM DisciplinedTypes == ProgramsDisciplined /\ Spec => []TypeOK
<1> SUFFICES ASSUME ProgramsDisciplined PROVE Spec => []TypeOK
  OBVIOUS
<1>1. ASSUME MachineInv PROVE TypeOK
  <2>1. \A b \in Buffers : rd[b] \in 0 .. P.cap[b] - 1 /\ cnt[b] \in 0 .. P.cap[b]
    <3>1. Disciplined(P)
      BY <1>1 DEF MachineInv, StateInv, ProgramsDisciplined, P
    <3>2. SUFFICES ASSUME NEW b \in Buffers
                   PROVE  rd[b] \in 0 .. P.cap[b] - 1 /\ cnt[b] \in 0 .. P.cap[b]
      OBVIOUS
    <3>3. /\ P.cap[b] \in Nat \ {0} /\ rd[b] \in Nat /\ cnt[b] \in Nat
          /\ rd[b] < P.cap[b] /\ cnt[b] <= P.cap[b]
      BY <1>1, <3>1, OneGrain DEF MachineInv, StateInv
    <3> QED BY <3>3
  <2>2. \A r \in reads : r[1] \in Buffers /\ r[2] \in 0 .. P.cap[r[1]] - 1
    <3> SUFFICES ASSUME NEW r \in reads PROVE r[1] \in Buffers /\ r[2] \in 0 .. P.cap[r[1]] - 1
      OBVIOUS
    <3>1. r[1] \in Buffers /\ Free(r[1], r[2])
      BY <1>1 DEF MachineInv, FlightInv
    <3>2. PICK d \in cnt[r[1]] .. P.cap[r[1]] - 1 : r[2] = (rd[r[1]] + d) % P.cap[r[1]]
      BY <3>1 DEF Free, Page
    <3>3. P.cap[r[1]] \in Nat \ {0} /\ rd[r[1]] \in Nat /\ cnt[r[1]] \in Nat
      <4>1. Disciplined(P)
        BY <1>1 DEF MachineInv, StateInv, ProgramsDisciplined, P
      <4> QED BY <1>1, <3>1, <4>1, OneGrain DEF MachineInv, StateInv
    <3>4. rd[r[1]] + d \in Int
      BY <3>2, <3>3
    <3> QED BY <3>1, <3>2, <3>3, <3>4, DivMod
  <2> QED BY <1>1, <2>1, <2>2 DEF MachineInv, StateInv, TypeOK
<1>2. Init => MachineInv
  BY MachineInit
<1>3. MachineInv /\ [Next]_vars => MachineInv'
  BY MachineStep
<1>4. MachineInv => TypeOK
  BY <1>1
<1> QED BY <1>2, <1>3, <1>4, PTL DEF Spec

\* No chunk of a disciplined program wraps around its ring.
THEOREM DisciplinedChunks == ProgramsDisciplined /\ Spec => []ChunksWhole
<1> SUFFICES ASSUME ProgramsDisciplined PROVE Spec => []ChunksWhole
  OBVIOUS
<1>1. ASSUME MachineInv PROVE ChunksWhole
  BY <1>1, ChunkFits DEF ChunksWhole, Runs, Chunk
<1>2. Init => MachineInv
  BY MachineInit
<1>3. MachineInv /\ [Next]_vars => MachineInv'
  BY MachineStep
<1>4. MachineInv => ChunksWhole
  BY <1>1
<1> QED BY <1>2, <1>3, <1>4, PTL DEF Spec

\* No page of a disciplined program is published before its tile has arrived.
THEOREM DisciplinedLanded == ProgramsDisciplined /\ Spec => []PublishedLanded
<1> SUFFICES ASSUME ProgramsDisciplined PROVE Spec => []PublishedLanded
  OBVIOUS
<1>1. ASSUME MachineInv PROVE PublishedLanded
  BY <1>1, FreeUnpublished DEF MachineInv, FlightInv, PublishedLanded
<1>2. Init => MachineInv
  BY MachineInit
<1>3. MachineInv /\ [Next]_vars => MachineInv'
  BY MachineStep
<1>4. MachineInv => PublishedLanded
  BY <1>1
<1> QED BY <1>2, <1>3, <1>4, PTL DEF Spec

\* No page of a disciplined program changes between its push and its pop.
LEMMA StableStep ==
  ASSUME ProgramsDisciplined, MachineInv, NEW k \in Kernels, Kernel(k),
         NEW b \in Buffers, NEW i \in 0 .. cnt[b] - 1
  PROVE  ring'[b][Page(b, i)] = PageAt(b, i)
<1> DEFINE q == Page(b, i)
<1>1. ring[b][q] = PageAt(b, i)
  BY DEF PageAt
<1>2. /\ ring = [c \in Buffers |-> ring[c]]
      /\ \A c \in Buffers : ring[c] = [p \in 0 .. P.cap[c] - 1 |-> ring[c][p]]
  BY DEF MachineInv, StateInv
<1>3. Disciplined(P)
  BY DEF MachineInv, StateInv, ProgramsDisciplined, P
<1>4. P.cap[b] \in Nat \ {0} /\ rd[b] \in Nat /\ cnt[b] \in Nat
  BY <1>3, OneGrain DEF MachineInv, StateInv
<1>5. q \in 0 .. P.cap[b] - 1
  <2>1. rd[b] + i \in Int
    BY <1>4
  <2> QED BY <1>4, <2>1, DivMod DEF Page
<1>6. \A p : Free(b, p) => p # q
  BY FreeUnpublished DEF MachineInv
<1> HIDE DEF q
<1>7. CASE cb_reserve_back(k) \/ cb_push_back(k) \/ cb_wait_front(k) \/ cb_pop_front(k)
           \/ scatter_tile(k)
  <2>1. ring' = ring
    BY <1>7 DEF cb_reserve_back, cb_push_back, cb_wait_front, cb_pop_front, scatter_tile
  <2> QED BY <1>1, <2>1 DEF q
<1>8. CASE noc_async_read_barrier(k)
  <2>1. ring'[b][q] = IF \E r \in reads : r[1] = b /\ r[2] = q
                      THEN (CHOOSE r \in reads : r[1] = b /\ r[2] = q)[3] ELSE ring[b][q]
    <3>1. ring'[b] = [p \in DOMAIN ring[b] |->
                        IF \E r \in reads : r[1] = b /\ r[2] = p
                        THEN (CHOOSE r \in reads : r[1] = b /\ r[2] = p)[3] ELSE ring[b][p]]
      BY <1>8 DEF noc_async_read_barrier
    <3>2. q \in DOMAIN ring[b]
      BY <1>2, <1>5
    <3> QED BY <3>1, <3>2
  <2>2. \A r \in reads : r[1] = b => r[2] # q
    BY <1>6 DEF MachineInv, FlightInv
  <2> QED BY <1>1, <2>1, <2>2 DEF q
<1>9. CASE noc_async_read(k)
  <2> DEFINE c == Instr(k).cb
             tiles == Instr(k).tiles
             page(j) == (wr(c) + j - 1) % P.cap[c]
  <2>1. pc[k] <= Len(P[k]) /\ Instr(k).do = "gather"
    BY <1>9 DEF noc_async_read, Runs
  <2>2. ring' = [ring EXCEPT ![c] = [p \in DOMAIN @ |->
                   IF \E j \in DOMAIN tiles : p = page(j) THEN JunkTile ELSE @[p]]]
    BY <1>9 DEF noc_async_read
  <2>3. \A j \in DOMAIN tiles : Free(c, page(j))
    BY <2>1, GatheredPage DEF Free
  <2>4. q \in DOMAIN ring[b]
    BY <1>2, <1>5
  <2>5. CASE b = c
    <3>1. \A j \in DOMAIN tiles : q # page(j)
      BY <1>6, <2>3, <2>5
    <3>2. ring'[b] = [p \in DOMAIN ring[b] |->
                       IF \E j \in DOMAIN tiles : p = page(j) THEN JunkTile ELSE ring[b][p]]
      <4> HIDE DEF c, page, tiles
      <4> QED BY <1>2, <2>2, <2>5
    <3> HIDE DEF c, page, tiles
    <3>3. ring'[b][q] = ring[b][q]
      BY <2>4, <3>1, <3>2
    <3> QED BY <1>1, <3>3 DEF q
  <2>6. CASE b # c
    <3> HIDE DEF c, page, tiles
    <3>1. ring'[b] = ring[b]
      BY <1>2, <2>2, <2>6
    <3> QED BY <1>1, <3>1 DEF q
  <2> QED BY <2>5, <2>6
<1>10. CASE store(k)
  <2> DEFINE c == Instr(k).cb
             w == wr(c)
  <2>1. pc[k] <= Len(P[k]) /\ Instr(k).do = "fill"
    BY <1>10 DEF store, Runs
  <2>2. PICK t : ring' = [ring EXCEPT ![c][w] = t]
    BY <1>10 DEF store
  <2>3. c \in Buffers /\ cnt[c] + 1 <= P.cap[c]
    BY <2>1, Reserved DEF Chunk
  <2>4. Free(c, w)
    <3>1. w = Page(c, cnt[c])
      BY DEF wr, Page
    <3>2. cnt[c] \in Nat /\ P.cap[c] \in Nat
      BY <1>3, <2>3, OneGrain DEF MachineInv, StateInv
    <3>3. cnt[c] \in cnt[c] .. P.cap[c] - 1
      BY <2>3, <3>2
    <3> QED BY <3>1, <3>3 DEF Free
  <2>5. b = c => q # w
    BY <1>6, <2>4
  <2> HIDE DEF c, w
  <2>6. ring'[b][q] = ring[b][q]
    BY <1>2, <1>5, <2>2, <2>3, <2>5
  <2> QED BY <1>1, <2>6 DEF q
<1>11. CASE emitN(k)
  <2> DEFINE c == Instr(k).cb
             n == Instr(k).n
             tile(p) == Dest(k, (p - wr(c)) % P.cap[c]).tile
  <2>1. pc[k] <= Len(P[k]) /\ Instr(k).do = "emit"
    BY <1>11 DEF emitN, Runs
  <2>2. /\ cnt[c] + n <= P.cap[c]
        /\ ring' = [ring EXCEPT ![c] = [p \in DOMAIN @ |->
             IF \E j \in 0 .. n - 1 : p = (wr(c) + j) % P.cap[c] THEN tile(p) ELSE @[p]]]
    BY <1>11 DEF emitN
  <2>3. CASE b # c
    <3> HIDE DEF c, n, tile
    <3>1. ring'[b] = ring[b]
      BY <1>2, <2>2, <2>3
    <3> QED BY <1>1, <3>1 DEF q
  <2>4. CASE b = c
    <3>1. ASSUME NEW j \in 0 .. n - 1 PROVE Free(b, (wr(b) + j) % P.cap[b])
      <4>1. n \in Nat
        <5>1. n \in 1 .. P.cap[c]
          BY <2>1, CallFacts DEF MachineInv, Sized, Chunk, Filling
        <5> QED BY <1>4, <2>4, <5>1
      <4>2. wr(b) = (rd[b] + cnt[b]) % P.cap[b]
        BY DEF wr
      <4> HIDE DEF c, n
      <4>3. (((rd[b] + cnt[b]) % P.cap[b]) + j) % P.cap[b] = ((rd[b] + cnt[b]) + j) % P.cap[b]
        BY <1>4, <4>1, Lapped, rd[b] + cnt[b] \in Int, j \in Int
      <4>4. (rd[b] + cnt[b]) + j = rd[b] + (cnt[b] + j) /\ cnt[b] + j \in cnt[b] .. P.cap[b] - 1
        BY <1>4, <2>2, <2>4, <4>1
      <4>5. (wr(b) + j) % P.cap[b] = Page(b, cnt[b] + j)
        BY <4>2, <4>3, <4>4 DEF Page
      <4> QED BY <4>4, <4>5 DEF Free
    <3>2. \A j \in 0 .. n - 1 : q # (wr(b) + j) % P.cap[b]
      BY <1>6, <3>1
    <3>3. ring'[b] = [p \in DOMAIN ring[b] |->
             IF \E j \in 0 .. n - 1 : p = (wr(b) + j) % P.cap[b] THEN tile(p) ELSE ring[b][p]]
      <4> HIDE DEF c, n, tile
      <4> QED BY <1>2, <2>2, <2>4
    <3>4. q \in DOMAIN ring[b]
      BY <1>2, <1>5
    <3> HIDE DEF c, n, tile
    <3>5. ring'[b][q] = ring[b][q]
      BY <3>2, <3>3, <3>4
    <3> QED BY <1>1, <3>5 DEF q
  <2> QED BY <2>3, <2>4
<1> QED BY <1>7, <1>8, <1>9, <1>10, <1>11 DEF Kernel

\* The same programs never touch a published page: what is reserved is not yet
\* published and what is popped is published no more.
THEOREM DisciplinedStable == ProgramsDisciplined /\ Spec => PublishedStable
<1> DEFINE Stable ==
      \A b \in Buffers : \A i \in 0 .. cnt[b] - 1 : ring'[b][Page(b, i)] = PageAt(b, i)
<1> SUFFICES ASSUME ProgramsDisciplined PROVE Spec => PublishedStable
  OBVIOUS
<1>1. ASSUME MachineInv, [Next]_vars PROVE Stable \/ UNCHANGED vars
  BY <1>1, StableStep DEF Next, Terminated
<1>2. Spec => [][Stable]_vars
  <2>1. MachineInv /\ [Next]_vars => [Stable]_vars
    BY <1>1
  <2>2. Init => MachineInv
    BY MachineInit
  <2>3. MachineInv /\ [Next]_vars => MachineInv'
    BY MachineStep
  <2> HIDE DEF Stable
  <2> QED BY <2>1, <2>2, <2>3, PTL DEF Spec
<1> QED BY <1>2 DEF PublishedStable

-----------------------------------------------------------------------------
(***************************************************************************)
(* Sequences of calls and of tiles.                                        *)
(***************************************************************************)

\* Induction from one, by the least counterexample.
LEMMA Least ==
  ASSUME NEW S \in SUBSET Nat, S # {}
  PROVE  \E m \in S : \A k \in S : m <= k
<1> DEFINE R == OpToRel(<, Nat)
<1>1. IsWellFoundedOn(R, Nat)
  BY NatLessThanWellFounded, Zenon
<1>2. \A x, y \in Nat : x < y => <<x, y>> \in R
  BY DEF OpToRel
<1> HIDE DEF R
<1>3. PICK x \in S : \A y \in S : ~ (<<y, x>> \in R)
  BY <1>1, WFMin, Zenon
<1>4. \A y \in S : ~ (y < x)
  BY <1>2, <1>3
<1> QED BY <1>4

LEMMA Induction ==
  ASSUME NEW S, 1 \in S, \A n \in Nat \ {0} : n \in S => n + 1 \in S
  PROVE  \A n \in Nat \ {0} : n \in S
<1> DEFINE T == {n \in Nat \ {0} : n \notin S}
<1> SUFFICES ASSUME T # {} PROVE FALSE
  OBVIOUS
<1>1. PICK m \in T : \A k \in T : m <= k
  BY Least, T \in SUBSET Nat
<1>2. m \in Nat \ {0} /\ m # 1 /\ m \notin S
  OBVIOUS
<1>3. m - 1 \in Nat \ {0} /\ m - 1 \notin T
  BY <1>1, <1>2
<1>4. m - 1 \in S
  BY <1>3
<1>5. (m - 1) + 1 \in S
  BY <1>3, <1>4
<1> QED BY <1>2, <1>5

\* FlattenSeq joins its sequences one after the other.
JoinsUp(f, s, n) == f[1] = s[1] /\ \A i \in 2 .. n : f[i] = f[i - 1] \o s[i]
LEMMA FlattenSteps ==
  ASSUME NEW n \in Nat, NEW V, NEW s \in [1 .. n -> V]
  PROVE  /\ n = 0 => FlattenSeq(s) = <<>>
         /\ n # 0 => \E f : JoinsUp(f, s, n) /\ FlattenSeq(s) = f[n]
<1>1. Len(s) = n /\ s \in Seq({s[i] : i \in 1 .. n})
  OBVIOUS
<1>2. ASSUME n = 0 PROVE FlattenSeq(s) = <<>>
  BY <1>1, <1>2 DEF FlattenSeq
<1>3. ASSUME n # 0
      PROVE  \E f : JoinsUp(f, s, n) /\ FlattenSeq(s) = f[n]
  <2> DEFINE Joins(f, m) == f = [i \in 1 .. m |-> IF i = 1 THEN s[i] ELSE f[i - 1] \o s[i]]
             S == {m \in Nat \ {0} : \E f : Joins(f, m)}
  <2>1. 1 \in S
    <3> DEFINE f == [i \in 1 .. 1 |-> s[i]]
    <3>1. \A i \in 1 .. 1 : s[i] = IF i = 1 THEN s[i] ELSE f[i - 1] \o s[i]
      OBVIOUS
    <3>2. f = [i \in 1 .. 1 |-> IF i = 1 THEN s[i] ELSE f[i - 1] \o s[i]]
      BY <3>1
    <3> HIDE DEF f
    <3>3. 1 \in Nat \ {0} /\ Joins(f, 1)
      BY <3>2
    <3> QED BY <3>3
  <2>2. ASSUME NEW m \in Nat \ {0}, m \in S PROVE m + 1 \in S
    <3>1. PICK f : Joins(f, m)
      BY <2>2
    <3> DEFINE g == [i \in 1 .. m + 1 |-> IF i = m + 1 THEN f[m] \o s[i] ELSE f[i]]
    <3>2. \A i \in 1 .. m : g[i] = f[i]
      OBVIOUS
    <3>3. g = [i \in 1 .. m + 1 |-> IF i = 1 THEN s[i] ELSE g[i - 1] \o s[i]]
      <4>1. ASSUME NEW i \in 1 .. m + 1
            PROVE  g[i] = IF i = 1 THEN s[i] ELSE g[i - 1] \o s[i]
        <5>1. CASE i = m + 1
          <6>0. i # 1 /\ i - 1 = m
            BY <5>1
          <6>1. g[i] = f[m] \o s[i]
            BY <5>1, Zenon
          <6>2. g[m] = f[m]
            BY <3>2
          <6> HIDE DEF g
          <6> QED BY <6>0, <6>1, <6>2
        <5>2. CASE i # m + 1
          <6>1. i \in 1 .. m /\ g[i] = f[i]
            BY <3>2, <5>2
          <6>2. f[i] = IF i = 1 THEN s[i] ELSE f[i - 1] \o s[i]
            BY <3>1, <6>1
          <6>3. i # 1 => i - 1 \in 1 .. m
            BY <6>1
          <6>4. i # 1 => g[i - 1] = f[i - 1]
            BY <3>2, <6>3
          <6> HIDE DEF g
          <6> QED BY <6>1, <6>2, <6>4
        <5> QED BY <5>1, <5>2
      <4>2. g = [i \in 1 .. m + 1 |-> g[i]]
        OBVIOUS
      <4> HIDE DEF g
      <4>3. [i \in 1 .. m + 1 |-> g[i]]
              = [i \in 1 .. m + 1 |-> IF i = 1 THEN s[i] ELSE g[i - 1] \o s[i]]
        BY <4>1
      <4> QED BY <4>2, <4>3
    <3> HIDE DEF g
    <3>4. Joins(g, m + 1)
      BY <3>3, Zenon
    <3>5. m + 1 \in Nat \ {0}
      OBVIOUS
    <3> HIDE DEF Joins
    <3> QED BY <3>4, <3>5
  <2>3. n \in S
    <3> HIDE DEF S
    <3> QED BY <1>3, <2>1, <2>2, Induction
  <2> DEFINE f == CHOOSE h : Joins(h, n)
  <2>4. Joins(f, n)
    BY <2>3
  <2>5. FlattenSeq(s) = f[n]
    BY <1>1, <1>3 DEF FlattenSeq
  <2> HIDE DEF f
  <2>6. \A i \in 1 .. n : f[i] = IF i = 1 THEN s[i] ELSE f[i - 1] \o s[i]
    BY <2>4, Zenon
  <2>7. f[1] = s[1] /\ \A i \in 2 .. n : f[i] = f[i - 1] \o s[i]
    <3>1. 1 \in 1 .. n /\ \A i \in 2 .. n : i \in 1 .. n /\ i # 1
      BY <1>3
    <3> QED BY <2>6, <3>1, Zenon
  <2>8. JoinsUp(f, s, n)
    BY <2>7 DEF JoinsUp
  <2> QED BY <2>5, <2>8
<1> QED BY <1>2, <1>3

\* Sequences of one length, end to end.
LEMMA Concat ==
  ASSUME NEW U, NEW s \in Seq(U), NEW t \in Seq(U)
  PROVE  s \o t \in Seq(U) /\ Len(s \o t) = Len(s) + Len(t)
OBVIOUS

LEMMA FlattenLength ==
  ASSUME NEW n \in Nat, NEW U, NEW m \in Nat, NEW s \in [1 .. n -> Seq(U)],
         \A i \in 1 .. n : Len(s[i]) = m
  PROVE  FlattenSeq(s) \in Seq(U) /\ Len(FlattenSeq(s)) = n * m
<1>1. CASE n = 0
  <2>1. FlattenSeq(s) = <<>>
    BY <1>1, FlattenSteps
  <2> QED BY <1>1, <2>1
<1>2. CASE n # 0
  <2>0. PICK f : JoinsUp(f, s, n) /\ FlattenSeq(s) = f[n]
    BY <1>2, FlattenSteps
  <2>1. /\ f[1] = s[1] /\ FlattenSeq(s) = f[n]
        /\ \A i \in 2 .. n : f[i] = f[i - 1] \o s[i]
    BY <2>0 DEF JoinsUp
  <2> DEFINE S == {k \in Nat \ {0} : k <= n => f[k] \in Seq(U) /\ Len(f[k]) = k * m}
  <2>2. 1 \in S
    <3>1. 1 \in 1 .. n /\ 1 * m = m
      BY <1>2
    <3>2. s[1] \in Seq(U) /\ Len(s[1]) = m
      BY <3>1
    <3> QED BY <2>1, <3>1, <3>2
  <2>3. ASSUME NEW k \in Nat \ {0}, k \in S PROVE k + 1 \in S
    <3> SUFFICES ASSUME k + 1 <= n PROVE f[k + 1] \in Seq(U) /\ Len(f[k + 1]) = (k + 1) * m
      OBVIOUS
    <3>1. k + 1 \in 2 .. n /\ k + 1 \in 1 .. n /\ (k + 1) - 1 = k /\ k <= n
      OBVIOUS
    <3>2. f[k] \in Seq(U) /\ Len(f[k]) = k * m /\ f[k + 1] = f[k] \o s[k + 1]
      BY <2>1, <2>3, <3>1
    <3>3. s[k + 1] \in Seq(U) /\ Len(s[k + 1]) = m
      BY <3>1
    <3>4. f[k + 1] \in Seq(U) /\ Len(f[k + 1]) = k * m + m
      <4> DEFINE j == k * m
      <4>1. j \in Nat /\ f[k] \in Seq(U) /\ Len(f[k]) = j
        BY <3>2
      <4> HIDE DEF j
      <4>2. f[k] \o s[k + 1] \in Seq(U) /\ Len(f[k] \o s[k + 1]) = j + m
        BY <3>3, <4>1, Concat
      <4> QED BY <3>2, <4>2 DEF j
    <3>5. (k + 1) * m = k * m + m
      OBVIOUS
    <3> QED BY <3>4, <3>5
  <2>4. n \in S
    <3> HIDE DEF S
    <3> QED BY <1>2, <2>2, <2>3, Induction
  <2> QED BY <2>1, <2>4
<1> QED BY <1>1, <1>2

\* t is a sequence of m tiles.
Tiled(t, m) == Len(t) = m /\ \E U : t \in Seq(U)

\* A gathered row's tiles.
LEMMA CeilFacts ==
  ASSUME NEW a \in Nat, NEW b \in Nat \ {0}
  PROVE  ceil(a, b) \in Nat /\ (a # 0 => ceil(a, b) # 0)
<1> DEFINE s == a + b - 1
<1>1. s \in Nat /\ s \div b \in Nat
  OBVIOUS
<1>2. ASSUME a # 0 PROVE s \div b # 0
  BY <1>2
<1> QED BY <1>1, <1>2 DEF ceil

LEMMA Singletons ==
  ASSUME NEW n \in Nat, NEW U, NEW s \in [1 .. n -> Seq(U)], \A i \in 1 .. n : Len(s[i]) = 1
  PROVE  Tiled(FlattenSeq(s), n)
<1>1. FlattenSeq(s) \in Seq(U) /\ Len(FlattenSeq(s)) = n * 1
  BY FlattenLength
<1> QED BY <1>1 DEF Tiled

LEMMA TilesOf ==
  ASSUME NEW v, Len(v) \in Nat, NEW w \in Nat \ {0}
  PROVE  Tiled(Tiles(v, w), ceil(Len(v), w))
<1> DEFINE n == ceil(Len(v), w)
           lanes == [j \in 1 .. n * w |-> IF j <= Len(v) THEN Lane(v[j]) ELSE Lane(0)]
           f == [i \in 1 .. n |-> SubSeq(lanes, (i - 1) * w + 1, ((i - 1) + 1) * w)]
           s == [i \in 1 .. n |-> <<f[i]>>]
<1>1. n \in Nat
  BY CeilFacts
<1>2. Tiles(v, w) = FlattenSeq(s)
  BY DEF Tiles, Flatten
<1> HIDE DEF n, f
<1> DEFINE U == {f[i] : i \in 1 .. n}
<1>3. s \in [1 .. n -> Seq(U)] /\ \A i \in 1 .. n : Len(s[i]) = 1
  OBVIOUS
<1> HIDE DEF s, U
<1>4. Tiled(FlattenSeq(s), n)
  BY <1>1, <1>3, Singletons
<1> QED BY <1>2, <1>4 DEF n

-----------------------------------------------------------------------------
(***************************************************************************)
(* An outline of a kernel.  The discipline speaks of all the calls before a *)
(* call; an outline carries forward only what they leave behind, so that it *)
(* can be shown piece by piece in the order the kernels are written in.    *)
(***************************************************************************)

\* Where a kernel stands: the buffers it has reserved and not published, those
\* it may be gathering into, and those it has awaited and not released.
Idle == [held |-> {}, due |-> {}, seen |-> {}]

\* The call in, allowed where c, leaves d; q has the buffers the kernel fills
\* and empties and the sizes of their chunks.
Allowed(q, c, in, d) ==
  /\ in.do \in Filling => in.cb \in q.fills /\ Chunk(in) = q.size[in.cb]
  /\ in.do \in Emptying => in.cb \in q.empties
  /\ in.do \in {"wait", "pop"} => in.n = q.take[in.cb]
  /\ in.do = "gather" => DOMAIN in.tiles = 1 .. Len(in.tiles)
  /\ in.do \in {"push", "gather", "fill"} => in.cb \in c.held
  /\ in.do = "pop" => in.cb \in c.seen
  /\ in.do \in Publishing => in.cb \notin c.due
  /\ \A b \in d.held : ~Publishes(in, b) /\ (b \in c.held \/ (in.do = "reserve" /\ in.cb = b))
  /\ \A b \in d.seen : ~Releases(in, b) /\ (b \in c.seen \/ (in.do = "wait" /\ in.cb = b))
  /\ in.do # "barrier" => c.due \subseteq d.due
  /\ in.do = "gather" => in.cb \in d.due

\* The calls s are allowed one after the other, from c to d.
Leads(q, c, s, d) ==
  \E U, h : /\ s \in Seq(U) /\ h[1] = c /\ h[Len(s) + 1] = d
            /\ \A i \in 1 .. Len(s) : Allowed(q, h[i], s[i], h[i + 1])

\* Calls in sequence, perhaps none, in a loop, or one by one.
LEMMA NoCalls == ASSUME NEW q, NEW c PROVE Leads(q, c, <<>>, c)
<1> DEFINE h == [i \in {1} |-> c]
<1>1. <<>> \in Seq({}) /\ Len(<<>>) = 0 /\ h[1] = c
  OBVIOUS
<1> HIDE DEF h
<1> QED BY <1>1 DEF Leads

LEMMA Joined ==
  ASSUME NEW q, NEW c, NEW d, NEW e, NEW s, NEW t, Leads(q, c, s, d), Leads(q, d, t, e)
  PROVE  Leads(q, c, s \o t, e)
<1>1. PICK U, h : /\ s \in Seq(U) /\ h[1] = c /\ h[Len(s) + 1] = d
                  /\ \A i \in 1 .. Len(s) : Allowed(q, h[i], s[i], h[i + 1])
  BY DEF Leads
<1>2. PICK V, g : /\ t \in Seq(V) /\ g[1] = d /\ g[Len(t) + 1] = e
                  /\ \A i \in 1 .. Len(t) : Allowed(q, g[i], t[i], g[i + 1])
  BY DEF Leads
<1> DEFINE m == Len(s)
           n == Len(t)
           r == s \o t
           f == [i \in 1 .. m + n + 1 |-> IF i <= m THEN h[i] ELSE g[i - m]]
<1>3. s \in Seq(U \cup V) /\ t \in Seq(U \cup V) /\ m \in Nat /\ n \in Nat
  BY <1>1, <1>2
<1>4. /\ r \in Seq(U \cup V) /\ Len(r) = m + n
      /\ \A i \in 1 .. m : r[i] = s[i]
      /\ \A i \in 1 .. n : r[m + i] = t[i]
  BY <1>3
<1> HIDE DEF r, m, n
<1>5. \A i \in 1 .. m + 1 : f[i] = h[i]
  BY <1>1, <1>2, <1>3 DEF m
<1>6. \A i \in 1 .. n + 1 : f[m + i] = g[i]
  BY <1>3
<1> HIDE DEF f
<1>7. ASSUME NEW i \in 1 .. m + n PROVE Allowed(q, f[i], r[i], f[i + 1])
  <2>1. CASE i <= m
    <3>1. i \in 1 .. m /\ i \in 1 .. m + 1 /\ i + 1 \in 1 .. m + 1
      BY <1>3, <2>1
    <3>2. Allowed(q, h[i], s[i], h[i + 1])
      BY <1>1, <3>1 DEF m
    <3> QED BY <1>4, <1>5, <3>1, <3>2
  <2>2. CASE i > m
    <3> DEFINE j == i - m
    <3>1. j \in 1 .. n /\ j + 1 \in 1 .. n + 1 /\ j \in 1 .. n + 1 /\ m + j = i /\ m + (j + 1) = i + 1
      BY <1>3, <2>2
    <3> HIDE DEF j
    <3>2. Allowed(q, g[j], t[j], g[j + 1])
      BY <1>2, <3>1 DEF n
    <3>3. f[i] = g[j] /\ f[i + 1] = g[j + 1] /\ r[i] = t[j]
      BY <1>4, <1>6, <3>1
    <3> QED BY <3>2, <3>3
  <2> QED BY <1>3, <2>1, <2>2
<1>8. f[1] = c /\ f[m + n + 1] = e
  <2>1. 1 \in 1 .. m + 1 /\ n + 1 \in 1 .. n + 1 /\ m + n + 1 = m + (n + 1)
    BY <1>3
  <2>2. f[1] = h[1] /\ f[m + (n + 1)] = g[n + 1]
    BY <1>5, <1>6, <2>1
  <2> QED BY <1>1, <1>2, <2>1, <2>2 DEF n
<1>9. Leads(q, c, r, e)
  BY <1>4, <1>7, <1>8 DEF Leads
<1> QED BY <1>9 DEF r

LEMMA Maybe ==
  ASSUME NEW q, NEW c, NEW b \in BOOLEAN, NEW s, b => Leads(q, c, s, c)
  PROVE  Leads(q, c, When(b, s), c)
BY NoCalls DEF When

LEMMA Looped ==
  ASSUME NEW q, NEW c, NEW n \in Nat, NEW V, NEW s \in [1 .. n -> V],
         \A i \in 1 .. n : Leads(q, c, s[i], c)
  PROVE  Leads(q, c, FlattenSeq(s), c)
<1>1. CASE n = 0
  <2>1. FlattenSeq(s) = <<>>
    BY <1>1, FlattenSteps
  <2> QED BY <2>1, NoCalls
<1>2. CASE n # 0
  <2>0. PICK f : JoinsUp(f, s, n) /\ FlattenSeq(s) = f[n]
    BY <1>2, FlattenSteps
  <2>1. /\ f[1] = s[1] /\ FlattenSeq(s) = f[n]
        /\ \A i \in 2 .. n : f[i] = f[i - 1] \o s[i]
    BY <2>0 DEF JoinsUp
  <2> DEFINE S == {m \in Nat \ {0} : m <= n => Leads(q, c, f[m], c)}
  <2>2. 1 \in S
    BY <1>2, <2>1
  <2>3. ASSUME NEW m \in Nat \ {0}, m \in S PROVE m + 1 \in S
    <3> SUFFICES ASSUME m + 1 <= n PROVE Leads(q, c, f[m + 1], c)
      OBVIOUS
    <3>1. m + 1 \in 2 .. n /\ m + 1 \in 1 .. n /\ (m + 1) - 1 = m /\ m <= n
      OBVIOUS
    <3>2. Leads(q, c, f[m], c) /\ Leads(q, c, s[m + 1], c) /\ f[m + 1] = f[m] \o s[m + 1]
      BY <2>1, <2>3, <3>1
    <3> QED BY <3>2, Joined
  <2>4. n \in S
    <3> HIDE DEF S
    <3> QED BY <1>2, <2>2, <2>3, Induction
  <2> QED BY <2>1, <2>4
<1> QED BY <1>1, <1>2

LEMMA Calls1 ==
  ASSUME NEW q, NEW c0, NEW c1, NEW a1,
         Allowed(q, c0, a1, c1)
  PROVE  Leads(q, c0, <<a1>>, c1)
<1> DEFINE s == <<a1>>
           h == <<c0, c1>>
<1>1. s \in Seq({a1}) /\ Len(s) = 1 /\ h[1] = c0 /\ h[1 + 1] = c1
  OBVIOUS
<1>2. \A i \in 1 .. 1 : Allowed(q, h[i], s[i], h[i + 1])
  OBVIOUS
<1> HIDE DEF s, h
<1>3. Leads(q, c0, s, c1)
  BY <1>1, <1>2 DEF Leads
<1> QED BY <1>3 DEF s

LEMMA Calls2 ==
  ASSUME NEW q, NEW c0, NEW c1, NEW c2, NEW a1, NEW a2,
         Allowed(q, c0, a1, c1), Allowed(q, c1, a2, c2)
  PROVE  Leads(q, c0, <<a1, a2>>, c2)
<1> DEFINE s == <<a1, a2>>
           h == <<c0, c1, c2>>
<1>1. s \in Seq({a1, a2}) /\ Len(s) = 2 /\ h[1] = c0 /\ h[2 + 1] = c2
  OBVIOUS
<1>2. \A i \in 1 .. 2 : Allowed(q, h[i], s[i], h[i + 1])
  OBVIOUS
<1> HIDE DEF s, h
<1>3. Leads(q, c0, s, c2)
  BY <1>1, <1>2 DEF Leads
<1> QED BY <1>3 DEF s

LEMMA Calls3 ==
  ASSUME NEW q, NEW c0, NEW c1, NEW c2, NEW c3, NEW a1, NEW a2, NEW a3,
         Allowed(q, c0, a1, c1), Allowed(q, c1, a2, c2), Allowed(q, c2, a3, c3)
  PROVE  Leads(q, c0, <<a1, a2, a3>>, c3)
<1> DEFINE s == <<a1, a2, a3>>
           h == <<c0, c1, c2, c3>>
<1>1. s \in Seq({a1, a2, a3}) /\ Len(s) = 3 /\ h[1] = c0 /\ h[3 + 1] = c3
  OBVIOUS
<1>2. \A i \in 1 .. 3 : Allowed(q, h[i], s[i], h[i + 1])
  OBVIOUS
<1> HIDE DEF s, h
<1>3. Leads(q, c0, s, c3)
  BY <1>1, <1>2 DEF Leads
<1> QED BY <1>3 DEF s

LEMMA Calls4 ==
  ASSUME NEW q, NEW c0, NEW c1, NEW c2, NEW c3, NEW c4, NEW a1, NEW a2, NEW a3, NEW a4,
         Allowed(q, c0, a1, c1), Allowed(q, c1, a2, c2), Allowed(q, c2, a3, c3), Allowed(q,
         c3, a4, c4)
  PROVE  Leads(q, c0, <<a1, a2, a3, a4>>, c4)
<1> DEFINE s == <<a1, a2, a3, a4>>
           h == <<c0, c1, c2, c3, c4>>
<1>1. s \in Seq({a1, a2, a3, a4}) /\ Len(s) = 4 /\ h[1] = c0 /\ h[4 + 1] = c4
  OBVIOUS
<1>2. \A i \in 1 .. 4 : Allowed(q, h[i], s[i], h[i + 1])
  OBVIOUS
<1> HIDE DEF s, h
<1>3. Leads(q, c0, s, c4)
  BY <1>1, <1>2 DEF Leads
<1> QED BY <1>3 DEF s

LEMMA Calls5 ==
  ASSUME NEW q, NEW c0, NEW c1, NEW c2, NEW c3, NEW c4, NEW c5, NEW a1, NEW a2, NEW a3, NEW
         a4, NEW a5,
         Allowed(q, c0, a1, c1), Allowed(q, c1, a2, c2), Allowed(q, c2, a3, c3), Allowed(q,
         c3, a4, c4), Allowed(q, c4, a5, c5)
  PROVE  Leads(q, c0, <<a1, a2, a3, a4, a5>>, c5)
<1> DEFINE s == <<a1, a2, a3, a4, a5>>
           h == <<c0, c1, c2, c3, c4, c5>>
<1>1. s \in Seq({a1, a2, a3, a4, a5}) /\ Len(s) = 5 /\ h[1] = c0 /\ h[5 + 1] = c5
  OBVIOUS
<1>2. \A i \in 1 .. 5 : Allowed(q, h[i], s[i], h[i + 1])
  OBVIOUS
<1> HIDE DEF s, h
<1>3. Leads(q, c0, s, c5)
  BY <1>1, <1>2 DEF Leads
<1> QED BY <1>3 DEF s

LEMMA Calls6 ==
  ASSUME NEW q, NEW c0, NEW c1, NEW c2, NEW c3, NEW c4, NEW c5, NEW c6, NEW a1, NEW a2, NEW
         a3, NEW a4, NEW a5, NEW a6,
         Allowed(q, c0, a1, c1), Allowed(q, c1, a2, c2), Allowed(q, c2, a3, c3), Allowed(q,
         c3, a4, c4), Allowed(q, c4, a5, c5), Allowed(q, c5, a6, c6)
  PROVE  Leads(q, c0, <<a1, a2, a3, a4, a5, a6>>, c6)
<1> DEFINE s == <<a1, a2, a3, a4, a5, a6>>
           h == <<c0, c1, c2, c3, c4, c5, c6>>
<1>1. s \in Seq({a1, a2, a3, a4, a5, a6}) /\ Len(s) = 6 /\ h[1] = c0 /\ h[6 + 1] = c6
  OBVIOUS
<1>2. \A i \in 1 .. 6 : Allowed(q, h[i], s[i], h[i + 1])
  OBVIOUS
<1> HIDE DEF s, h
<1>3. Leads(q, c0, s, c6)
  BY <1>1, <1>2 DEF Leads
<1> QED BY <1>3 DEF s

LEMMA Calls7 ==
  ASSUME NEW q, NEW c0, NEW c1, NEW c2, NEW c3, NEW c4, NEW c5, NEW c6, NEW c7, NEW a1, NEW
         a2, NEW a3, NEW a4, NEW a5, NEW a6, NEW a7,
         Allowed(q, c0, a1, c1), Allowed(q, c1, a2, c2), Allowed(q, c2, a3, c3), Allowed(q,
         c3, a4, c4), Allowed(q, c4, a5, c5), Allowed(q, c5, a6, c6), Allowed(q, c6,
         a7, c7)
  PROVE  Leads(q, c0, <<a1, a2, a3, a4, a5, a6, a7>>, c7)
<1> DEFINE s == <<a1, a2, a3, a4, a5, a6, a7>>
           h == <<c0, c1, c2, c3, c4, c5, c6, c7>>
<1>1. s \in Seq({a1, a2, a3, a4, a5, a6, a7}) /\ Len(s) = 7 /\ h[1] = c0 /\ h[7 + 1] = c7
  OBVIOUS
<1>2. \A i \in 1 .. 7 : Allowed(q, h[i], s[i], h[i + 1])
  OBVIOUS
<1> HIDE DEF s, h
<1>3. Leads(q, c0, s, c7)
  BY <1>1, <1>2 DEF Leads
<1> QED BY <1>3 DEF s

LEMMA Calls8 ==
  ASSUME NEW q, NEW c0, NEW c1, NEW c2, NEW c3, NEW c4, NEW c5, NEW c6, NEW c7, NEW c8, NEW
         a1, NEW a2, NEW a3, NEW a4, NEW a5, NEW a6, NEW a7, NEW a8,
         Allowed(q, c0, a1, c1), Allowed(q, c1, a2, c2), Allowed(q, c2, a3, c3), Allowed(q,
         c3, a4, c4), Allowed(q, c4, a5, c5), Allowed(q, c5, a6, c6), Allowed(q, c6,
         a7, c7), Allowed(q, c7, a8, c8)
  PROVE  Leads(q, c0, <<a1, a2, a3, a4, a5, a6, a7, a8>>, c8)
<1> DEFINE s == <<a1, a2, a3, a4, a5, a6, a7, a8>>
           h == <<c0, c1, c2, c3, c4, c5, c6, c7, c8>>
<1>1. s \in Seq({a1, a2, a3, a4, a5, a6, a7, a8}) /\ Len(s) = 8 /\ h[1] = c0 /\ h[8 + 1] = c8
  OBVIOUS
<1>2. \A i \in 1 .. 8 : Allowed(q, h[i], s[i], h[i + 1])
  OBVIOUS
<1> HIDE DEF s, h
<1>3. Leads(q, c0, s, c8)
  BY <1>1, <1>2 DEF Leads
<1> QED BY <1>3 DEF s

LEMMA Calls10 ==
  ASSUME NEW q, NEW c0, NEW c1, NEW c2, NEW c3, NEW c4, NEW c5, NEW c6, NEW c7, NEW c8, NEW
         c9, NEW c10, NEW a1, NEW a2, NEW a3, NEW a4, NEW a5, NEW a6, NEW a7, NEW
         a8, NEW a9, NEW a10,
         Allowed(q, c0, a1, c1), Allowed(q, c1, a2, c2), Allowed(q, c2, a3, c3), Allowed(q,
         c3, a4, c4), Allowed(q, c4, a5, c5), Allowed(q, c5, a6, c6), Allowed(q, c6,
         a7, c7), Allowed(q, c7, a8, c8), Allowed(q, c8, a9, c9), Allowed(q, c9,
         a10, c10)
  PROVE  Leads(q, c0, <<a1, a2, a3, a4, a5, a6, a7, a8, a9, a10>>, c10)
<1> DEFINE s == <<a1, a2, a3, a4, a5, a6, a7, a8, a9, a10>>
           h == <<c0, c1, c2, c3, c4, c5, c6, c7, c8, c9, c10>>
<1>1. s \in Seq({a1, a2, a3, a4, a5, a6, a7, a8, a9, a10}) /\ Len(s) = 10 /\ h[1] = c0 /\ h[10 + 1] = c10
  OBVIOUS
<1>2. \A i \in 1 .. 10 : Allowed(q, h[i], s[i], h[i + 1])
  OBVIOUS
<1> HIDE DEF s, h
<1>3. Leads(q, c0, s, c10)
  BY <1>1, <1>2 DEF Leads
<1> QED BY <1>3 DEF s

LEMMA Joined3 ==
  ASSUME NEW q, NEW c, NEW d, NEW e, NEW f, NEW s, NEW t, NEW u,
         Leads(q, c, s, d), Leads(q, d, t, e), Leads(q, e, u, f)
  PROVE  Leads(q, c, s \o t \o u, f)
<1>1. Leads(q, c, s \o t, e)
  BY Joined
<1> QED BY <1>1, Joined

LEMMA Joined4 ==
  ASSUME NEW q, NEW c, NEW d, NEW e, NEW f, NEW g, NEW s, NEW t, NEW u, NEW v,
         Leads(q, c, s, d), Leads(q, d, t, e), Leads(q, e, u, f), Leads(q, f, v, g)
  PROVE  Leads(q, c, s \o t \o u \o v, g)
<1>1. Leads(q, c, s \o t \o u, f)
  BY Joined3
<1> QED BY <1>1, Joined

LEMMA Joined5 ==
  ASSUME NEW q, NEW c, NEW d, NEW e, NEW f, NEW g, NEW h, NEW s, NEW t, NEW u, NEW v, NEW w,
         Leads(q, c, s, d), Leads(q, d, t, e), Leads(q, e, u, f), Leads(q, f, v, g), Leads(q, g, w, h)
  PROVE  Leads(q, c, s \o t \o u \o v \o w, h)
<1>1. Leads(q, c, s \o t \o u \o v, g)
  BY Joined4
<1> QED BY <1>1, Joined

LEMMA Joined6 ==
  ASSUME NEW q, NEW c, NEW d, NEW e, NEW f, NEW g, NEW h, NEW i,
         NEW s, NEW t, NEW u, NEW v, NEW w, NEW x,
         Leads(q, c, s, d), Leads(q, d, t, e), Leads(q, e, u, f), Leads(q, f, v, g),
         Leads(q, g, w, h), Leads(q, h, x, i)
  PROVE  Leads(q, c, s \o t \o u \o v \o w \o x, i)
<1>1. Leads(q, c, s \o t \o u \o v \o w, h)
  BY Joined5
<1> QED BY <1>1, Joined

\* The sequences of a loop.
LEMMA Loop ==
  ASSUME NEW q, NEW d, NEW n \in Nat, NEW s, DOMAIN s = 1 .. n, s = [i \in 1 .. n |-> s[i]],
         \A i \in 1 .. n : Leads(q, d, s[i], d)
  PROVE  Leads(q, d, FlattenSeq(s), d)
<1>1. s \in [1 .. n -> {s[i] : i \in 1 .. n}]
  OBVIOUS
<1> QED BY <1>1, Looped

\* What a kernel's calls lead to is what the discipline asks of them.
LEMMA LeadsOrderly ==
  ASSUME NEW q, NEW s, NEW d, NEW cap, Leads(q, Idle, s, d),
         q.fills \subseteq DOMAIN cap, q.empties \subseteq DOMAIN cap,
         \A b \in DOMAIN cap : q.size[b] \in 1 .. cap[b] /\ q.take[b] \in 1 .. cap[b]
  PROVE  /\ Orderly(s, cap)
         /\ \A b : /\ Handles(s, Filling, b) => b \in q.fills
                   /\ Handles(s, Emptying, b) => b \in q.empties
                   /\ Grain(s, {"push", "gather", "emit"}, b, q.size[b])
                   /\ Grain(s, {"wait", "pop"}, b, q.take[b])
<1>1. PICK U, h : /\ s \in Seq(U) /\ h[1] = Idle /\ h[Len(s) + 1] = d
                  /\ \A i \in 1 .. Len(s) : Allowed(q, h[i], s[i], h[i + 1])
  BY DEF Leads
<1>2. Len(s) \in Nat
  BY <1>1
<1> DEFINE Due(e) == \A b : \A j \in 1 .. e - 1 : Fetches(s, j, e, b) => b \in h[e].due
           Held(e) == \A b \in h[e].held : \E j \in 1 .. e - 1 : Reserves(s, j, e, b)
           Seen(e) == \A b \in h[e].seen : \E j \in 1 .. e - 1 : Awaits(s, j, e, b)
           S == {e \in Nat \ {0} : e <= Len(s) => Due(e) /\ Held(e) /\ Seen(e)}
<1>3. 1 \in S
  BY <1>1 DEF Idle
<1>4. ASSUME NEW e \in Nat \ {0}, e \in S PROVE e + 1 \in S
  <2>0. e + 1 \in Nat \ {0}
    OBVIOUS
  <2> SUFFICES ASSUME e + 1 <= Len(s) PROVE Due(e + 1) /\ Held(e + 1) /\ Seen(e + 1)
    BY <2>0, Zenon
  <2>1. Due(e) /\ Held(e) /\ Seen(e) /\ Allowed(q, h[e], s[e], h[e + 1])
    <3>1. e \in 1 .. Len(s) /\ e <= Len(s)
      BY <1>2
    <3> QED BY <1>1, <1>4, <3>1
  <2>2. Due(e + 1)
    <3> SUFFICES ASSUME NEW b, NEW j \in 1 .. (e + 1) - 1, Fetches(s, j, e + 1, b)
                 PROVE  b \in h[e + 1].due
      BY Zenon
    <3>1. CASE j = e
      BY <2>1, <3>1 DEF Fetches, Allowed
    <3>2. CASE j # e
      <4>1. j \in 1 .. e - 1 /\ e \in j + 1 .. (e + 1) - 1 /\ \A l \in j + 1 .. e - 1 : l \in j + 1 .. (e + 1) - 1
        BY <3>2
      <4>2. Fetches(s, j, e, b) /\ s[e].do # "barrier"
        BY <4>1 DEF Fetches
      <4> QED BY <2>1, <4>1, <4>2 DEF Allowed
    <3> QED BY <3>1, <3>2
  <2>3. Held(e + 1)
    <3> SUFFICES ASSUME NEW b \in h[e + 1].held
                 PROVE  \E j \in 1 .. (e + 1) - 1 : Reserves(s, j, e + 1, b)
      BY Zenon
    <3>1. ~Publishes(s[e], b) /\ (b \in h[e].held \/ (s[e].do = "reserve" /\ s[e].cb = b))
      BY <2>1 DEF Allowed
    <3>2. CASE s[e].do = "reserve" /\ s[e].cb = b
      BY <3>2 DEF Reserves
    <3>3. CASE b \in h[e].held
      <4>1. PICK j \in 1 .. e - 1 : Reserves(s, j, e, b)
        BY <2>1, <3>3
      <4>2. j \in 1 .. (e + 1) - 1 /\ \A l \in j + 1 .. (e + 1) - 1 : l = e \/ l \in j + 1 .. e - 1
        OBVIOUS
      <4> QED BY <3>1, <4>1, <4>2 DEF Reserves
    <3> QED BY <3>1, <3>2, <3>3
  <2>4. Seen(e + 1)
    <3> SUFFICES ASSUME NEW b \in h[e + 1].seen
                 PROVE  \E j \in 1 .. (e + 1) - 1 : Awaits(s, j, e + 1, b)
      BY Zenon
    <3>1. ~Releases(s[e], b) /\ (b \in h[e].seen \/ (s[e].do = "wait" /\ s[e].cb = b))
      BY <2>1 DEF Allowed
    <3>2. CASE s[e].do = "wait" /\ s[e].cb = b
      BY <3>2 DEF Awaits
    <3>3. CASE b \in h[e].seen
      <4>1. PICK j \in 1 .. e - 1 : Awaits(s, j, e, b)
        BY <2>1, <3>3
      <4>2. j \in 1 .. (e + 1) - 1 /\ \A l \in j + 1 .. (e + 1) - 1 : l = e \/ l \in j + 1 .. e - 1
        OBVIOUS
      <4> QED BY <3>1, <4>1, <4>2 DEF Awaits
    <3> QED BY <3>1, <3>2, <3>3
  <2> QED BY <2>2, <2>3, <2>4
<1>5. \A e \in 1 .. Len(s) : Due(e) /\ Held(e) /\ Seen(e)
  <2>1. \A e \in Nat \ {0} : e \in S
    <3> HIDE DEF S
    <3> QED BY <1>3, <1>4, Induction
  <2>2. \A e \in 1 .. Len(s) : e \in Nat \ {0} /\ e <= Len(s)
    BY <1>2
  <2> QED BY <2>1, <2>2
<1>6. ASSUME NEW i \in 1 .. Len(s) PROVE Covered(s, i)
  <2>1. Due(i) /\ Held(i) /\ Seen(i) /\ Allowed(q, h[i], s[i], h[i + 1])
    BY <1>1, <1>5
  <2> DEFINE b == s[i].cb
  <2>2. ASSUME s[i].do \in {"push", "gather", "fill"}
        PROVE  \E j \in 1 .. i - 1 : Reserves(s, j, i, b) /\ Chunk(s[i]) <= s[j].n
    <3>1. b \in h[i].held /\ Chunk(s[i]) = q.size[b] /\ b \in q.fills
      BY <2>1, <2>2 DEF Allowed, Filling
    <3>2. PICK j \in 1 .. i - 1 : Reserves(s, j, i, b)
      BY <2>1, <3>1
    <3>3. j \in 1 .. Len(s) /\ s[j].do = "reserve" /\ s[j].cb = b
      BY <1>2, <3>2 DEF Reserves
    <3>4. s[j].n = q.size[b]
      BY <1>1, <3>3 DEF Allowed, Filling, Chunk
    <3>5. q.size[b] \in Int
      BY <3>1
    <3> QED BY <3>1, <3>2, <3>4, <3>5
  <2>3. ASSUME s[i].do = "pop"
        PROVE  \E j \in 1 .. i - 1 : Awaits(s, j, i, b) /\ s[i].n <= s[j].n
    <3>1. b \in h[i].seen /\ s[i].n = q.take[b] /\ b \in q.empties
      BY <2>1, <2>3 DEF Allowed, Emptying
    <3>2. PICK j \in 1 .. i - 1 : Awaits(s, j, i, b)
      BY <2>1, <3>1
    <3>3. j \in 1 .. Len(s) /\ s[j].do = "wait" /\ s[j].cb = b
      BY <1>2, <3>2 DEF Awaits
    <3>4. s[j].n = q.take[b]
      BY <1>1, <3>3 DEF Allowed
    <3>5. q.take[b] \in Int
      BY <3>1
    <3> QED BY <3>1, <3>2, <3>4, <3>5
  <2>4. ASSUME s[i].do \in Publishing PROVE \A j \in 1 .. i - 1 : ~Fetches(s, j, i, b)
    BY <2>1, <2>4 DEF Allowed
  <2> QED BY <2>2, <2>3, <2>4 DEF Covered
<1>7. ASSUME NEW i \in 1 .. Len(s) PROVE Sized(s[i], cap)
  BY <1>1 DEF Allowed, Sized, Filling, Emptying, Chunk
<1>8. Orderly(s, cap)
  BY <1>2, <1>6, <1>7 DEF Orderly
<1>9. ASSUME NEW b
      PROVE  /\ Handles(s, Filling, b) => b \in q.fills
             /\ Handles(s, Emptying, b) => b \in q.empties
  BY <1>1 DEF Handles, Allowed
<1>10. ASSUME NEW b
       PROVE  /\ Grain(s, {"push", "gather", "emit"}, b, q.size[b])
              /\ Grain(s, {"wait", "pop"}, b, q.take[b])
  BY <1>1 DEF Grain, Allowed, Filling, Chunk
<1> QED BY <1>8, <1>9, <1>10

-----------------------------------------------------------------------------
(***************************************************************************)
(* Compute kernels.                                                        *)
(***************************************************************************)

\* Computing and writing: only what has been awaited matters.
Seen(A) == [held |-> {}, due |-> {}, seen |-> A]

LEMMA Waiting ==
  ASSUME NEW q, NEW b \in q.empties, NEW n, n = q.take[b], NEW A, NEW B, B \subseteq A \cup {b}
  PROVE  Allowed(q, Seen(A), Wait(b, n), Seen(B))
BY DEF Allowed, Seen, Wait, Filling, Emptying, Publishing, Publishes, Releases

LEMMA Popping ==
  ASSUME NEW q, NEW b \in q.empties, NEW n, n = q.take[b], NEW A, b \in A,
         NEW B, B \subseteq A \ {b}
  PROVE  Allowed(q, Seen(A), Pop(b, n), Seen(B))
BY DEF Allowed, Seen, Pop, Filling, Emptying, Publishing, Publishes, Releases

LEMMA Emitting ==
  ASSUME NEW q, NEW b \in q.fills, NEW n, n = q.size[b], NEW ops, NEW A
  PROVE  Allowed(q, Seen(A), Emit(b, n, ops), Seen(A))
BY DEF Allowed, Seen, Emit, Chunk, Filling, Emptying, Publishing, Publishes, Releases

\* All chunks are n tiles where filled in S or emptied in T, else one tile.
Grained(q, n, S, T) ==
  /\ \A b \in q.fills : q.size[b] = IF b \in S THEN n ELSE 1
  /\ \A b \in q.empties : q.take[b] = IF b \in T THEN n ELSE 1
RowBuffers == {"x", "y", "out", "gamma", "beta", "sq", "prod", "xmm", "norm", "tmp"}
Resident(q, n) == Grained(q, n, RowBuffers, RowBuffers \ {"out"})
Streams(q, n) == Grained(q, n, {"x"}, {"x", "sq"})

\* A statistic, its root, and rms_norm.
LEMMA RootLeads ==
  ASSUME NEW q, NEW n, Resident(q, n) \/ Streams(q, n), NEW stat \in {"msq", "var"},
         "rstd" \in q.fills, stat \in q.empties, NEW A, stat \notin A
  PROVE  Leads(q, Seen(A), RootOf(stat), Seen(A))
<1>1. q.size["rstd"] = 1 /\ q.take[stat] = 1
  BY DEF Resident, Streams, Grained, RowBuffers
<1>2. \A ops : /\ Allowed(q, Seen(A), Wait(stat, 1), Seen(A \cup {stat}))
      /\ Allowed(q, Seen(A \cup {stat}), Emit("rstd", 1, ops), Seen(A \cup {stat}))
      /\ Allowed(q, Seen(A \cup {stat}), Pop(stat, 1), Seen(A))
  BY <1>1, Waiting, Popping, Emitting
<1> QED BY <1>2, Calls3 DEF RootOf

LEMMA SquareSumLeads ==
  ASSUME NEW q, NEW n, Resident(q, n), NEW stat \in {"msq", "var"}, NEW src, NEW red,
         {"sq", stat} \subseteq q.fills, "sq" \in q.empties, NEW A, "sq" \notin A
  PROVE  Leads(q, Seen(A), SquareSum(src, n, red, stat), Seen(A))
<1>1. q.size["sq"] = n /\ q.take["sq"] = n /\ q.size[stat] = 1
  BY DEF Resident, Grained, RowBuffers
<1> DEFINE S == A \cup {"sq"}
<1>2. \A ops : /\ Allowed(q, Seen(A), Emit("sq", n, ops), Seen(A))
               /\ Allowed(q, Seen(A), Wait("sq", n), Seen(S))
               /\ Allowed(q, Seen(S), Emit(stat, 1, ops), Seen(S))
               /\ Allowed(q, Seen(S), Pop("sq", n), Seen(A))
  BY <1>1, Waiting, Popping, Emitting
<1> QED BY <1>2, Calls4 DEF SquareSum

LEMMA RmsLeads ==
  ASSUME NEW q, NEW n, Resident(q, n), NEW stat \in {"msq", "var"}, NEW c, NEW red, NEW cast, NEW lanes,
         c.mode \in {"l2", "rms"},
         {"sq", stat, "rstd", "norm", "out"} \subseteq q.fills,
         {"x", "sq", stat, "rstd", "norm"} \subseteq q.empties,
         NEW A \in SUBSET {"gamma", "beta"}
  PROVE  Leads(q, Seen(A \cup {"x"}), RmsRow(c, n, red, stat, cast, lanes), Seen(A))
<1> DEFINE X == A \cup {"x"}
           R == X \cup {"rstd"}
           scaled == c.mode = "rms" /\ has_scale(c)
           dst == IF scaled THEN "norm" ELSE "out"
           M == A \cup {"norm"}
<1>1. /\ q.size["norm"] = n /\ q.size["out"] = n /\ q.take["x"] = n /\ q.take["norm"] = n
      /\ q.take["rstd"] = 1
  BY DEF Resident, Grained, RowBuffers
<1>2. Leads(q, Seen(X), SquareSum("x", n, red, stat), Seen(X))
  BY SquareSumLeads
<1>3. Leads(q, Seen(X), RootOf(stat), Seen(X))
  BY RootLeads
<1>4. Leads(q, Seen(X), Scaled("x", n, cast, dst), Seen(R))
  <2>1. \A ops : /\ Allowed(q, Seen(X), Wait("rstd", 1), Seen(R))
                 /\ Allowed(q, Seen(R), Emit(dst, n, ops), Seen(R))
    BY <1>1, Waiting, Emitting
  <2> QED BY <2>1, Calls2 DEF Scaled
<1>5. Leads(q, Seen(R), <<Pop("rstd", 1), Pop("x", n)>>, Seen(A))
  <2>1. Allowed(q, Seen(R), Pop("rstd", 1), Seen(X)) /\ Allowed(q, Seen(X), Pop("x", n), Seen(A))
    BY <1>1, Popping
  <2> QED BY <2>1, Calls2
<1>6. \A ops : Leads(q, Seen(A), <<Wait("norm", n), Emit("out", n, ops), Pop("norm", n)>>, Seen(A))
  <2>1. \A ops : /\ Allowed(q, Seen(A), Wait("norm", n), Seen(M))
                 /\ Allowed(q, Seen(M), Emit("out", n, ops), Seen(M))
                 /\ Allowed(q, Seen(M), Pop("norm", n), Seen(A))
    BY <1>1, Waiting, Emitting, Popping
  <2> QED BY <2>1, Calls3
<1>7. scaled \in BOOLEAN
  BY DEF has_scale
<1> DEFINE last == When(scaled, <<Wait("norm", n),
                     Emit("out", n, <<Op("mul", lanes, each("norm"), each("gamma"))>>), Pop("norm", n)>>)
<1>8. Leads(q, Seen(A), last, Seen(A))
  BY <1>6, <1>7, Maybe
<1>9. RmsRow(c, n, red, stat, cast, lanes)
        = SquareSum("x", n, red, stat) \o RootOf(stat) \o Scaled("x", n, cast, dst)
          \o <<Pop("rstd", 1), Pop("x", n)>> \o last
  BY DEF RmsRow
<1> HIDE DEF X, R, scaled, dst, last
<1>10. Leads(q, Seen(X), RmsRow(c, n, red, stat, cast, lanes), Seen(A))
  BY <1>2, <1>3, <1>4, <1>5, <1>8, <1>9, Joined5
<1> QED BY <1>10 DEF X

\* layer_norm, and what follows a normalised row.
LEMMA LayerLeads ==
  ASSUME NEW q, NEW n, Resident(q, n), NEW c, NEW red, NEW cast,
         {"mean", "xmm", "sq", "var", "rstd", "norm", "out"} \subseteq q.fills,
         {"x", "mean", "xmm", "sq", "var", "rstd"} \subseteq q.empties,
         NEW A \in SUBSET {"gamma", "beta"}
  PROVE  Leads(q, Seen(A \cup {"x"}), LayerRow(c, n, red, cast), Seen(A))
<1> DEFINE X == A \cup {"x"}
           XM == A \cup {"x", "mean"}
           D == A \cup {"xmm"}
           DR == A \cup {"xmm", "rstd"}
           R == A \cup {"rstd"}
           dst == IF has_scale(c) THEN "norm" ELSE "out"
           first == <<Emit("mean", 1, <<Sum(red, "x", n)>>), Wait("mean", 1),
                      Emit("xmm", n, <<Op("sub", cast, each("x"), one("mean"))>>),
                      Pop("mean", 1), Pop("x", n), Wait("xmm", n)>>
<1>1. /\ q.size["mean"] = 1 /\ q.take["mean"] = 1 /\ q.size["xmm"] = n /\ q.take["xmm"] = n
      /\ q.take["x"] = n /\ q.size["norm"] = n /\ q.size["out"] = n /\ q.take["rstd"] = 1
  BY DEF Resident, Grained, RowBuffers
<1>2. Leads(q, Seen(X), first, Seen(D))
  <2>1. \A ops : /\ Allowed(q, Seen(X), Emit("mean", 1, ops), Seen(X))
                 /\ Allowed(q, Seen(X), Wait("mean", 1), Seen(XM))
                 /\ Allowed(q, Seen(XM), Emit("xmm", n, ops), Seen(XM))
    BY <1>1, Waiting, Emitting
  <2>2. /\ Allowed(q, Seen(XM), Pop("mean", 1), Seen(X))
        /\ Allowed(q, Seen(X), Pop("x", n), Seen(A))
        /\ Allowed(q, Seen(A), Wait("xmm", n), Seen(D))
    BY <1>1, Waiting, Popping
  <2> QED BY <2>1, <2>2, Calls6
<1>3. Leads(q, Seen(D), SquareSum("xmm", n, red, "var"), Seen(D))
  BY SquareSumLeads
<1>4. Leads(q, Seen(D), RootOf("var"), Seen(D))
  BY RootLeads
<1>5. Leads(q, Seen(D), Scaled("xmm", n, cast, dst), Seen(DR))
  <2>1. \A ops : /\ Allowed(q, Seen(D), Wait("rstd", 1), Seen(DR))
                 /\ Allowed(q, Seen(DR), Emit(dst, n, ops), Seen(DR))
    BY <1>1, Waiting, Emitting
  <2> QED BY <2>1, Calls2 DEF Scaled
<1>6. Leads(q, Seen(DR), <<Pop("xmm", n), Pop("rstd", 1)>>, Seen(A))
  <2>1. Allowed(q, Seen(DR), Pop("xmm", n), Seen(R)) /\ Allowed(q, Seen(R), Pop("rstd", 1), Seen(A))
    BY <1>1, Popping
  <2> QED BY <2>1, Calls2
<1>7. LayerRow(c, n, red, cast)
        = first \o SquareSum("xmm", n, red, "var") \o RootOf("var") \o Scaled("xmm", n, cast, dst)
          \o <<Pop("xmm", n), Pop("rstd", 1)>>
  BY DEF LayerRow
<1> HIDE DEF X, D, DR, dst, first
<1>8. Leads(q, Seen(X), LayerRow(c, n, red, cast), Seen(A))
  BY <1>2, <1>3, <1>4, <1>5, <1>6, <1>7, Joined5
<1> QED BY <1>8 DEF X

LEMMA NarrowAffineLeads ==
  ASSUME NEW q, NEW n, Resident(q, n), {"tmp", "out"} \subseteq q.fills,
         {"norm", "tmp"} \subseteq q.empties, NEW A \in SUBSET {"gamma", "beta"}
  PROVE  Leads(q, Seen(A), NarrowAffine(n), Seen(A))
<1> DEFINE N1 == A \cup {"norm"}
           T1 == A \cup {"tmp"}
<1>1. q.size["tmp"] = n /\ q.size["out"] = n /\ q.take["norm"] = n /\ q.take["tmp"] = n
  BY DEF Resident, Grained, RowBuffers
<1>2. \A ops : /\ Allowed(q, Seen(A), Wait("norm", n), Seen(N1))
               /\ Allowed(q, Seen(N1), Emit("tmp", n, ops), Seen(N1))
               /\ Allowed(q, Seen(N1), Pop("norm", n), Seen(A))
  BY <1>1, Waiting, Emitting, Popping
<1>3. \A ops : /\ Allowed(q, Seen(A), Wait("tmp", n), Seen(T1))
               /\ Allowed(q, Seen(T1), Emit("out", n, ops), Seen(T1))
               /\ Allowed(q, Seen(T1), Pop("tmp", n), Seen(A))
  BY <1>1, Waiting, Emitting, Popping
<1> QED BY <1>2, <1>3, Calls6 DEF NarrowAffine

LEMMA GlobalAffineLeads ==
  ASSUME NEW q, NEW n, Resident(q, n), "out" \in q.fills, "norm" \in q.empties, NEW c,
         NEW A \in SUBSET {"gamma", "beta"}
  PROVE  Leads(q, Seen(A), GlobalAffine(c, n), Seen(A))
<1> DEFINE M == A \cup {"norm"}
<1>1. q.size["out"] = n /\ q.take["norm"] = n
  BY DEF Resident, Grained, RowBuffers
<1>2. \A ops : /\ Allowed(q, Seen(A), Wait("norm", n), Seen(M))
               /\ Allowed(q, Seen(M), Emit("out", n, ops), Seen(M))
               /\ Allowed(q, Seen(M), Pop("norm", n), Seen(A))
  BY <1>1, Waiting, Emitting, Popping
<1> QED BY <1>2, Calls3 DEF GlobalAffine

LEMMA ConstantsLead ==
  ASSUME NEW q, NEW n, Resident(q, n), {"zero", "eps", "scaler"} \subseteq q.fills,
         {"eps", "scaler"} \subseteq q.empties, NEW c
  PROVE  Leads(q, Seen({}), Constants(c), Seen({}))
<1>1. /\ q.size["zero"] = 1 /\ q.size["eps"] = 1 /\ q.size["scaler"] = 1
      /\ q.take["eps"] = 1 /\ q.take["scaler"] = 1
  BY DEF Resident, Grained, RowBuffers
<1>2. \A ops : /\ Allowed(q, Seen({}), Emit("zero", 1, ops), Seen({}))
               /\ Allowed(q, Seen({}), Emit("eps", 1, ops), Seen({}))
               /\ Allowed(q, Seen({}), Emit("scaler", 1, ops), Seen({}))
               /\ Allowed(q, Seen({}), Wait("scaler", 1), Seen({}))
               /\ Allowed(q, Seen({}), Wait("eps", 1), Seen({}))
  BY <1>1, Waiting, Emitting
<1> QED BY <1>2, Calls5 DEF Constants

\* Scale and bias are awaited before the rows and popped after them.
AffineBuffers(c) ==
  (IF has_scale(c) THEN {"gamma"} ELSE {}) \cup (IF has_bias(c) THEN {"beta"} ELSE {})

LEMMA AffineWaitsLead ==
  ASSUME NEW q, NEW c, Resident(q, ctiles(c)), {"gamma", "beta"} \subseteq q.empties,
         NEW A \in SUBSET {"x"}
  PROVE  /\ Leads(q, Seen(A), AffineWaits(c), Seen(AffineBuffers(c) \cup A))
         /\ Leads(q, Seen(AffineBuffers(c)), LastPops(c), Seen({}))
<1> DEFINE n == ctiles(c)
           G == IF has_scale(c) THEN {"gamma"} ELSE {}
           B == IF has_bias(c) THEN {"beta"} ELSE {}
<1>1. q.take["gamma"] = n /\ q.take["beta"] = n
  BY DEF Resident, Grained, RowBuffers
<1>2. Leads(q, Seen(A), When(has_scale(c), <<Wait("gamma", n)>>), Seen(G \cup A))
  <2>1. CASE has_scale(c)
    <3>1. Allowed(q, Seen(A), Wait("gamma", n), Seen(G \cup A))
      BY <1>1, <2>1, Waiting
    <3> QED BY <2>1, <3>1, Calls1 DEF When
  <2>2. CASE ~has_scale(c)
    <3>1. G \cup A = A
      BY <2>2
    <3> QED BY <2>2, <3>1, NoCalls DEF When
  <2> QED BY <2>1, <2>2
<1>3. Leads(q, Seen(G \cup A), When(has_bias(c), <<Wait("beta", n)>>), Seen((G \cup B) \cup A))
  <2>1. CASE has_bias(c)
    <3>1. Allowed(q, Seen(G \cup A), Wait("beta", n), Seen((G \cup B) \cup A))
      BY <1>1, <2>1, Waiting
    <3> QED BY <2>1, <3>1, Calls1 DEF When
  <2>2. CASE ~has_bias(c)
    <3>1. (G \cup B) \cup A = G \cup A
      BY <2>2
    <3> QED BY <2>2, <3>1, NoCalls DEF When
  <2> QED BY <2>1, <2>2
<1>4. Leads(q, Seen(G \cup B), When(has_scale(c), <<Pop("gamma", n)>>), Seen(B))
  <2>1. CASE has_scale(c)
    <3>1. Allowed(q, Seen(G \cup B), Pop("gamma", n), Seen(B))
      BY <1>1, <2>1, Popping
    <3> QED BY <2>1, <3>1, Calls1 DEF When
  <2>2. CASE ~has_scale(c)
    <3>1. G \cup B = B
      BY <2>2
    <3> QED BY <2>2, <3>1, NoCalls DEF When
  <2> QED BY <2>1, <2>2
<1>5. Leads(q, Seen(B), When(has_bias(c), <<Pop("beta", n)>>), Seen({}))
  <2>1. Allowed(q, Seen({"beta"}), Pop("beta", n), Seen({}))
    BY <1>1, Popping
  <2> QED BY <2>1, Calls1, NoCalls DEF When
<1>6. G \cup B = AffineBuffers(c)
  BY DEF AffineBuffers
<1> HIDE DEF G, B
<1> QED BY <1>2, <1>3, <1>4, <1>5, <1>6, Joined DEF AffineWaits, LastPops

\* Narrow rows.
LEMMA NarrowComputeLeads ==
  ASSUME NEW q, NEW c, Resident(q, ctiles(c)), n_rb(c) \in Nat, c.mode \in {"l2", "rms", "layer"},
         {"zero", "eps", "scaler", "mean", "xmm", "sq", "msq", "var", "rstd", "norm", "tmp", "out"}
           \subseteq q.fills,
         {"eps", "scaler", "x", "gamma", "beta", "mean", "xmm", "sq", "msq", "var", "rstd", "norm", "tmp"}
           \subseteq q.empties
  PROVE  Leads(q, Seen({}), NarrowCompute(c), Seen({}))
<1> DEFINE n == ctiles(c)
           A == AffineBuffers(c)
           row == <<Wait("x", n)>>
                  \o IF c.mode = "layer"
                     THEN LayerRow(c, n, "row", "cols") \o When(has_scale(c), NarrowAffine(n))
                     ELSE RmsRow(c, n, "row", "msq", "cols", "rows")
           s == [i \in 1 .. n_rb(c) |-> row]
<1>1. A \in SUBSET {"gamma", "beta"}
  BY DEF AffineBuffers
<1>2. Leads(q, Seen({}), Constants(c), Seen({}))
  BY ConstantsLead
<1>3. Leads(q, Seen({}), AffineWaits(c), Seen(A)) /\ Leads(q, Seen(A), LastPops(c), Seen({}))
  <2>1. A \cup {} = A
    OBVIOUS
  <2> HIDE DEF A
  <2> QED BY <2>1, AffineWaitsLead DEF A
<1> HIDE DEF A
<1>4. Leads(q, Seen(A), row, Seen(A))
  <2>1. Leads(q, Seen(A), <<Wait("x", n)>>, Seen(A \cup {"x"}))
    <3>1. q.take["x"] = n
      BY DEF Resident, Grained, RowBuffers
    <3>2. Allowed(q, Seen(A), Wait("x", n), Seen(A \cup {"x"}))
      BY <3>1, Waiting
    <3> QED BY <3>2, Calls1
  <2>2. CASE c.mode = "layer"
    <3>1. Leads(q, Seen(A \cup {"x"}), LayerRow(c, n, "row", "cols"), Seen(A))
      BY <1>1, LayerLeads
    <3>2. Leads(q, Seen(A), When(has_scale(c), NarrowAffine(n)), Seen(A))
      <4>1. has_scale(c) \in BOOLEAN
        BY DEF has_scale
      <4>2. Leads(q, Seen(A), NarrowAffine(n), Seen(A))
        BY <1>1, NarrowAffineLeads
      <4> QED BY <4>1, <4>2, Maybe
    <3>3. Leads(q, Seen(A \cup {"x"}), LayerRow(c, n, "row", "cols") \o When(has_scale(c), NarrowAffine(n)), Seen(A))
      BY <3>1, <3>2, Joined
    <3> HIDE DEF n
    <3> QED BY <2>1, <2>2, <3>3, Joined
  <2>3. CASE c.mode # "layer"
    <3>1. Leads(q, Seen(A \cup {"x"}), RmsRow(c, n, "row", "msq", "cols", "rows"), Seen(A))
      BY <1>1, <2>3, RmsLeads
    <3> HIDE DEF n
    <3> QED BY <2>1, <2>3, <3>1, Joined
  <2> QED BY <2>2, <2>3
<1>5. Leads(q, Seen(A), FlattenSeq(s), Seen(A))
  <2> HIDE DEF row
  <2> QED BY <1>4, Loop
<1>6. NarrowCompute(c) = Constants(c) \o AffineWaits(c) \o FlattenSeq(s) \o LastPops(c)
  BY DEF NarrowCompute, Flatten
<1> HIDE DEF s
<1> QED BY <1>2, <1>3, <1>5, <1>6, Joined4

\* The folded row, and the product.
LEMMA GlobalComputeLeads ==
  ASSUME NEW q, NEW c, Resident(q, ctiles(c)), c.mode \in {"l2", "rms", "layer"},
         {"zero", "eps", "scaler", "mean", "xmm", "sq", "var", "rstd", "norm", "out"} \subseteq q.fills,
         {"eps", "scaler", "x", "gamma", "beta", "mean", "xmm", "sq", "var", "rstd", "norm"}
           \subseteq q.empties
  PROVE  Leads(q, Seen({}), GlobalCompute(c), Seen({}))
<1> DEFINE n == ctiles(c)
           A == AffineBuffers(c)
           row == IF c.mode = "layer"
                  THEN LayerRow(c, n, "scalar", "scalar") \o When(has_scale(c), GlobalAffine(c, n))
                  ELSE RmsRow(c, n, "scalar", "var", "scalar", "tiles")
           X == A \cup {"x"}
<1>1. A \in SUBSET {"gamma", "beta"}
  BY DEF AffineBuffers
<1>2. Leads(q, Seen({}), Constants(c), Seen({}))
  BY ConstantsLead
<1>3. /\ Leads(q, Seen({}), <<Wait("x", n)>>, Seen({"x"}))
      /\ Leads(q, Seen({"x"}), AffineWaits(c), Seen(X)) /\ Leads(q, Seen(A), LastPops(c), Seen({}))
  <2>1. Allowed(q, Seen({}), Wait("x", n), Seen({"x"}))
    <3>1. q.take["x"] = n
      BY DEF Resident, Grained, RowBuffers
    <3> QED BY <3>1, Waiting
  <2>2. Leads(q, Seen({"x"}), AffineWaits(c), Seen(X)) /\ Leads(q, Seen(A), LastPops(c), Seen({}))
    BY AffineWaitsLead
  <2> QED BY <2>1, <2>2, Calls1
<1> HIDE DEF A
<1>4. Leads(q, Seen(X), row, Seen(A))
  <2>2. CASE c.mode = "layer"
    <3>1. Leads(q, Seen(A \cup {"x"}), LayerRow(c, n, "scalar", "scalar"), Seen(A))
      BY <1>1, LayerLeads
    <3>2. Leads(q, Seen(A), When(has_scale(c), GlobalAffine(c, n)), Seen(A))
      <4>1. has_scale(c) \in BOOLEAN
        BY DEF has_scale
      <4>2. Leads(q, Seen(A), GlobalAffine(c, n), Seen(A))
        BY <1>1, GlobalAffineLeads
      <4> QED BY <4>1, <4>2, Maybe
    <3> HIDE DEF n
    <3> QED BY <2>2, <3>1, <3>2, Joined
  <2>3. CASE c.mode # "layer"
    <3>1. Leads(q, Seen(A \cup {"x"}), RmsRow(c, n, "scalar", "var", "scalar", "tiles"), Seen(A))
      BY <1>1, <2>3, RmsLeads
    <3> HIDE DEF n
    <3> QED BY <2>3, <3>1
  <2> QED BY <2>2, <2>3
<1>6. GlobalCompute(c) = Constants(c) \o <<Wait("x", n)>> \o AffineWaits(c) \o row \o LastPops(c)
  BY DEF GlobalCompute
<1> HIDE DEF row, n, X
<1> QED BY <1>2, <1>3, <1>4, <1>6, Joined5

LEMMA MulComputeLeads ==
  ASSUME NEW q, NEW c, Resident(q, ctiles(c)), n_rb(c) \in Nat,
         {"zero", "eps", "scaler", "prod", "sq", "msq", "rstd", "out"} \subseteq q.fills,
         {"eps", "scaler", "x", "y", "prod", "sq", "msq", "rstd"} \subseteq q.empties
  PROVE  Leads(q, Seen({}), MulCompute(c), Seen({}))
<1> DEFINE n == ctiles(c)
           first == <<Wait("x", n), Wait("y", n),
                      Emit("prod", n, <<Op("mul", "tiles", each("x"), each("y"))>>),
                      Pop("x", n), Pop("y", n), Wait("prod", n)>>
           row == first \o SquareSum("prod", n, "row", "msq") \o RootOf("msq")
                  \o Scaled("prod", n, "cols", "out") \o <<Pop("rstd", 1), Pop("prod", n)>>
           s == [i \in 1 .. n_rb(c) |-> row]
<1>1. /\ q.take["x"] = n /\ q.take["y"] = n /\ q.size["prod"] = n /\ q.take["prod"] = n
      /\ q.size["out"] = n /\ q.take["rstd"] = 1
  BY DEF Resident, Grained, RowBuffers
<1>2. Leads(q, Seen({}), Constants(c), Seen({}))
  BY ConstantsLead
<1>3. Leads(q, Seen({}), first, Seen({"prod"}))
  <2>1. \A ops : /\ Allowed(q, Seen({}), Wait("x", n), Seen({"x"}))
                 /\ Allowed(q, Seen({"x"}), Wait("y", n), Seen({"x", "y"}))
                 /\ Allowed(q, Seen({"x", "y"}), Emit("prod", n, ops), Seen({"x", "y"}))
    BY <1>1, Waiting, Emitting
  <2>2. /\ Allowed(q, Seen({"x", "y"}), Pop("x", n), Seen({"y"}))
        /\ Allowed(q, Seen({"y"}), Pop("y", n), Seen({}))
        /\ Allowed(q, Seen({}), Wait("prod", n), Seen({"prod"}))
    BY <1>1, Waiting, Popping
  <2> QED BY <2>1, <2>2, Calls6
<1>4. Leads(q, Seen({"prod"}), SquareSum("prod", n, "row", "msq"), Seen({"prod"}))
  BY SquareSumLeads
<1>5. Leads(q, Seen({"prod"}), RootOf("msq"), Seen({"prod"}))
  BY RootLeads
<1>6. Leads(q, Seen({"prod"}), Scaled("prod", n, "cols", "out"), Seen({"prod", "rstd"}))
  <2>1. \A ops : /\ Allowed(q, Seen({"prod"}), Wait("rstd", 1), Seen({"prod", "rstd"}))
                 /\ Allowed(q, Seen({"prod", "rstd"}), Emit("out", n, ops), Seen({"prod", "rstd"}))
    BY <1>1, Waiting, Emitting
  <2> QED BY <2>1, Calls2 DEF Scaled
<1>7. Leads(q, Seen({"prod", "rstd"}), <<Pop("rstd", 1), Pop("prod", n)>>, Seen({}))
  <2>1. /\ Allowed(q, Seen({"prod", "rstd"}), Pop("rstd", 1), Seen({"prod"}))
        /\ Allowed(q, Seen({"prod"}), Pop("prod", n), Seen({}))
    BY <1>1, Popping
  <2> QED BY <2>1, Calls2
<1>8. Leads(q, Seen({}), row, Seen({}))
  <2> HIDE DEF first, n
  <2> QED BY <1>3, <1>4, <1>5, <1>6, <1>7, Joined5
<1>9. Leads(q, Seen({}), FlattenSeq(s), Seen({}))
  <2> HIDE DEF row
  <2> QED BY <1>8, Loop
<1>10. MulCompute(c) = Constants(c) \o FlattenSeq(s)
  BY DEF MulCompute, Flatten
<1> HIDE DEF s
<1> QED BY <1>2, <1>9, <1>10, Joined

-----------------------------------------------------------------------------
\* Wide rows.
LEMMA WideSquaresLead ==
  ASSUME NEW q, NEW n \in Nat, Streams(q, n), {"sq", "msq"} \subseteq q.fills, "sq" \in q.empties,
         NEW A, "sq" \notin A
  PROVE  Leads(q, Seen(A), WideSquares(n), Seen(A))
<1> DEFINE square(i) == Op("mul", "tiles", nth("x", i), nth("x", i))
           s == [i \in 1 .. n |->
                   <<Emit("sq", 1, <<IF i - 1 = 0 THEN square(i - 1) ELSE NoInit(square(i - 1))>>)>>]
           S == A \cup {"sq"}
<1>1. q.size["sq"] = 1 /\ q.take["sq"] = n /\ q.size["msq"] = 1
  BY DEF Streams, Grained
<1>2. \A ops : /\ Allowed(q, Seen(A), Emit("sq", 1, ops), Seen(A))
               /\ Allowed(q, Seen(A), Wait("sq", n), Seen(S))
               /\ Allowed(q, Seen(S), Emit("msq", 1, ops), Seen(S))
               /\ Allowed(q, Seen(S), Pop("sq", n), Seen(A))
  BY <1>1, Waiting, Popping, Emitting
<1>3. Leads(q, Seen(A), FlattenSeq(s), Seen(A))
  <2>1. \A i \in 1 .. n : Leads(q, Seen(A), s[i], Seen(A))
    BY <1>2, Calls1
  <2>2. DOMAIN s = 1 .. n /\ s = [i \in 1 .. n |-> s[i]]
    OBVIOUS
  <2> HIDE DEF s
  <2> QED BY <2>1, <2>2, Loop
<1>4. \A ops : Leads(q, Seen(A), <<Wait("sq", n), Emit("msq", 1, ops), Pop("sq", n)>>, Seen(A))
  BY <1>2, Calls3
<1>5. WideSquares(n) = FlattenSeq(s) \o <<Wait("sq", n), Emit("msq", 1, <<Sum("row", "sq", n)>>), Pop("sq", n)>>
  BY DEF WideSquares, Flatten
<1> HIDE DEF s
<1> QED BY <1>3, <1>4, <1>5, Joined

LEMMA WideRmsLeads ==
  ASSUME NEW q, NEW n \in Nat, Streams(q, n), NEW c,
         {"rstd", "norm", "out"} \subseteq q.fills,
         {"x", "msq", "rstd", "norm", "gamma"} \subseteq q.empties
  PROVE  Leads(q, Seen({"x"}), WideRms(c, n), Seen({}))
<1> DEFINE R == {"x", "rstd"}
           scaled == c.mode = "rms" /\ has_scale(c)
           dst == IF scaled THEN "norm" ELSE "out"
           last == <<Wait("norm", 1), Wait("gamma", 1),
                     Emit("out", 1, <<Op("mul", "rows", one("norm"), one("gamma"))>>),
                     Pop("norm", 1), Pop("gamma", 1)>>
           s == [i \in 1 .. n |-> <<Emit(dst, 1, <<TimesRstd(i - 1)>>)>> \o When(scaled, last)]
<1>1. /\ q.size["norm"] = 1 /\ q.size["out"] = 1 /\ q.take["x"] = n /\ q.take["norm"] = 1
      /\ q.take["rstd"] = 1 /\ q.take["gamma"] = 1
  BY DEF Streams, Grained
<1>2. Leads(q, Seen({"x"}), RootOf("msq"), Seen({"x"}))
  BY RootLeads
<1>3. Leads(q, Seen({"x"}), <<Wait("rstd", 1)>>, Seen(R))
  <2>1. Allowed(q, Seen({"x"}), Wait("rstd", 1), Seen(R))
    BY <1>1, Waiting
  <2> QED BY <2>1, Calls1
<1>4. Leads(q, Seen(R), last, Seen(R))
  <2>1. \A ops : /\ Allowed(q, Seen(R), Wait("norm", 1), Seen(R \cup {"norm"}))
                 /\ Allowed(q, Seen(R \cup {"norm"}), Wait("gamma", 1), Seen(R \cup {"norm", "gamma"}))
                 /\ Allowed(q, Seen(R \cup {"norm", "gamma"}), Emit("out", 1, ops), Seen(R \cup {"norm", "gamma"}))
    BY <1>1, Waiting, Emitting
  <2>2. /\ Allowed(q, Seen(R \cup {"norm", "gamma"}), Pop("norm", 1), Seen(R \cup {"gamma"}))
        /\ Allowed(q, Seen(R \cup {"gamma"}), Pop("gamma", 1), Seen(R))
    BY <1>1, Popping
  <2> QED BY <2>1, <2>2, Calls5
<1>5. ASSUME NEW i \in 1 .. n PROVE Leads(q, Seen(R), s[i], Seen(R))
  <2>1. \A ops : Allowed(q, Seen(R), Emit(dst, 1, ops), Seen(R))
    BY <1>1, Emitting
  <2>2. Leads(q, Seen(R), <<Emit(dst, 1, <<TimesRstd(i - 1)>>)>>, Seen(R))
    BY <2>1, Calls1
  <2>3. scaled \in BOOLEAN
    BY DEF has_scale
  <2>4. Leads(q, Seen(R), When(scaled, last), Seen(R))
    <3> HIDE DEF scaled, last
    <3> QED BY <1>4, <2>3, Maybe
  <2>5. s[i] = <<Emit(dst, 1, <<TimesRstd(i - 1)>>)>> \o When(scaled, last)
    OBVIOUS
  <2> HIDE DEF s, scaled, last, dst, R
  <2> QED BY <2>2, <2>4, <2>5, Joined
<1>6. Leads(q, Seen(R), FlattenSeq(s), Seen(R))
  <2>1. DOMAIN s = 1 .. n /\ s = [i \in 1 .. n |-> s[i]]
    OBVIOUS
  <2> HIDE DEF s
  <2> QED BY <1>5, <2>1, Loop
<1>7. Leads(q, Seen(R), <<Pop("rstd", 1), Pop("x", n)>>, Seen({}))
  <2>1. Allowed(q, Seen(R), Pop("rstd", 1), Seen({"x"})) /\ Allowed(q, Seen({"x"}), Pop("x", n), Seen({}))
    BY <1>1, Popping
  <2> QED BY <2>1, Calls2
<1>8. WideRms(c, n) = RootOf("msq") \o <<Wait("rstd", 1)>> \o FlattenSeq(s) \o <<Pop("rstd", 1), Pop("x", n)>>
  BY DEF WideRms, Flatten
<1> HIDE DEF s, R
<1> QED BY <1>2, <1>3, <1>6, <1>7, <1>8, Joined4

LEMMA WideVarianceLeads ==
  ASSUME NEW q, NEW n \in Nat, Streams(q, n),
         {"mean", "m2", "var"} \subseteq q.fills, {"mean", "msq", "m2"} \subseteq q.empties
  PROVE  Leads(q, Seen({"x"}), WideVariance(n), Seen({"x", "mean"}))
<1> DEFINE M == {"x", "mean"}
           Q == {"x", "mean", "msq"}
           V == {"x", "mean", "msq", "m2"}
<1>1. /\ q.size["mean"] = 1 /\ q.size["m2"] = 1 /\ q.size["var"] = 1
      /\ q.take["mean"] = 1 /\ q.take["msq"] = 1 /\ q.take["m2"] = 1
  BY DEF Streams, Grained
<1>2. \A ops : /\ Allowed(q, Seen({"x"}), Emit("mean", 1, ops), Seen({"x"}))
               /\ Allowed(q, Seen({"x"}), Wait("mean", 1), Seen(M))
               /\ Allowed(q, Seen(M), Wait("msq", 1), Seen(Q))
               /\ Allowed(q, Seen(Q), Emit("m2", 1, ops), Seen(Q))
  BY <1>1, Waiting, Emitting
<1>3. \A ops : /\ Allowed(q, Seen(Q), Wait("m2", 1), Seen(V))
               /\ Allowed(q, Seen(V), Emit("var", 1, ops), Seen(V))
               /\ Allowed(q, Seen(V), Pop("m2", 1), Seen(Q))
               /\ Allowed(q, Seen(Q), Pop("msq", 1), Seen(M))
  BY <1>1, Waiting, Emitting, Popping
<1> QED BY <1>2, <1>3, Calls8 DEF WideVariance

LEMMA WideAffineLeads ==
  ASSUME NEW q, NEW n, Streams(q, n), NEW c, NEW A \in SUBSET {"x", "mean", "rstd"},
         {"tmp", "out"} \subseteq q.fills, {"norm", "gamma", "beta", "tmp"} \subseteq q.empties
  PROVE  Leads(q, Seen(A), WideAffine(c), Seen(A))
<1> DEFINE N1 == A \cup {"norm"}
           G == A \cup {"norm", "gamma"}
           B == IF has_bias(c) THEN {"beta"} ELSE {}
           GB == A \cup B \cup {"norm", "gamma"}
           G1 == A \cup B \cup {"gamma"}
           T1 == A \cup B \cup {"gamma", "tmp"}
           B1 == A \cup B
<1>1. /\ q.size["tmp"] = 1 /\ q.size["out"] = 1 /\ q.take["norm"] = 1 /\ q.take["gamma"] = 1
      /\ q.take["beta"] = 1 /\ q.take["tmp"] = 1
  BY DEF Streams, Grained
<1>2. Leads(q, Seen(A), <<Wait("norm", 1), Wait("gamma", 1)>>, Seen(G))
  <2>1. Allowed(q, Seen(A), Wait("norm", 1), Seen(N1)) /\ Allowed(q, Seen(N1), Wait("gamma", 1), Seen(G))
    BY <1>1, Waiting
  <2> QED BY <2>1, Calls2
<1>3. Leads(q, Seen(G), When(has_bias(c), <<Wait("beta", 1)>>), Seen(GB))
  <2>1. CASE has_bias(c)
    <3>1. Allowed(q, Seen(G), Wait("beta", 1), Seen(GB))
      BY <1>1, <2>1, Waiting
    <3> QED BY <2>1, <3>1, Calls1 DEF When
  <2>2. CASE ~has_bias(c)
    <3>1. GB = G
      BY <2>2
    <3> QED BY <2>2, <3>1, NoCalls DEF When
  <2> QED BY <2>1, <2>2
<1>4. \A o1, o2 : Leads(q, Seen(GB), <<Emit("tmp", 1, o1), Pop("norm", 1), Wait("tmp", 1),
                                      Emit("out", 1, o2), Pop("tmp", 1), Pop("gamma", 1)>>, Seen(B1))
  <2>1. \A ops : /\ Allowed(q, Seen(GB), Emit("tmp", 1, ops), Seen(GB))
                 /\ Allowed(q, Seen(GB), Pop("norm", 1), Seen(G1))
                 /\ Allowed(q, Seen(G1), Wait("tmp", 1), Seen(T1))
    BY <1>1, Waiting, Emitting, Popping
  <2>2. \A ops : /\ Allowed(q, Seen(T1), Emit("out", 1, ops), Seen(T1))
                 /\ Allowed(q, Seen(T1), Pop("tmp", 1), Seen(G1))
                 /\ Allowed(q, Seen(G1), Pop("gamma", 1), Seen(B1))
    BY <1>1, Emitting, Popping
  <2> QED BY <2>1, <2>2, Calls6
<1>5. Leads(q, Seen(B1), When(has_bias(c), <<Pop("beta", 1)>>), Seen(A))
  <2>1. CASE has_bias(c)
    <3>1. Allowed(q, Seen(B1), Pop("beta", 1), Seen(A))
      BY <1>1, <2>1, Popping
    <3> QED BY <2>1, <3>1, Calls1 DEF When
  <2>2. CASE ~has_bias(c)
    <3>1. B1 = A
      BY <2>2
    <3> QED BY <2>2, <3>1, NoCalls DEF When
  <2> QED BY <2>1, <2>2
<1> HIDE DEF G, GB, B1
<1> QED BY <1>2, <1>3, <1>4, <1>5, Joined4 DEF WideAffine

LEMMA WideLayerLeads ==
  ASSUME NEW q, NEW n \in Nat, Streams(q, n), NEW c,
         {"mean", "m2", "var", "rstd", "xmm", "norm", "tmp", "out"} \subseteq q.fills,
         {"x", "mean", "msq", "m2", "var", "rstd", "xmm", "norm", "gamma", "beta", "tmp"} \subseteq q.empties
  PROVE  Leads(q, Seen({"x"}), WideLayer(c, n), Seen({}))
<1> DEFINE M == {"x", "mean"}
           R == {"x", "mean", "rstd"}
           D == {"x", "mean", "rstd", "xmm"}
           dst == IF has_scale(c) THEN "norm" ELSE "out"
           tile(i) == <<Emit("xmm", 1, <<Op("sub", "cols", nth("x", i), one("mean"))>>), Wait("xmm", 1),
                        Emit(dst, 1, <<Op("mul", "cols", one("xmm"), one("rstd"))>>), Pop("xmm", 1)>>
           s == [i \in 1 .. n |-> tile(i - 1) \o When(has_scale(c), WideAffine(c))]
<1>1. /\ q.size["xmm"] = 1 /\ q.take["xmm"] = 1 /\ q.size["norm"] = 1 /\ q.size["out"] = 1
      /\ q.take["x"] = n /\ q.take["mean"] = 1 /\ q.take["rstd"] = 1
  BY DEF Streams, Grained
<1>2. Leads(q, Seen({"x"}), WideVariance(n), Seen(M)) /\ Leads(q, Seen(M), RootOf("var"), Seen(M))
  BY WideVarianceLeads, RootLeads
<1>3. Leads(q, Seen(M), <<Wait("rstd", 1), Wait("mean", 1)>>, Seen(R))
  <2>1. Allowed(q, Seen(M), Wait("rstd", 1), Seen(R)) /\ Allowed(q, Seen(R), Wait("mean", 1), Seen(R))
    BY <1>1, Waiting
  <2> QED BY <2>1, Calls2
<1>4. ASSUME NEW i \in 1 .. n PROVE Leads(q, Seen(R), s[i], Seen(R))
  <2>1. \A ops : /\ Allowed(q, Seen(R), Emit("xmm", 1, ops), Seen(R))
                 /\ Allowed(q, Seen(R), Wait("xmm", 1), Seen(D))
                 /\ Allowed(q, Seen(D), Emit(dst, 1, ops), Seen(D))
                 /\ Allowed(q, Seen(D), Pop("xmm", 1), Seen(R))
    BY <1>1, Waiting, Emitting, Popping
  <2>2. Leads(q, Seen(R), tile(i - 1), Seen(R))
    BY <2>1, Calls4
  <2>3. Leads(q, Seen(R), When(has_scale(c), WideAffine(c)), Seen(R))
    <3>1. has_scale(c) \in BOOLEAN
      BY DEF has_scale
    <3>2. Leads(q, Seen(R), WideAffine(c), Seen(R))
      BY WideAffineLeads
    <3> QED BY <3>1, <3>2, Maybe
  <2>4. s[i] = tile(i - 1) \o When(has_scale(c), WideAffine(c))
    OBVIOUS
  <2> HIDE DEF s, tile, R
  <2> QED BY <2>2, <2>3, <2>4, Joined
<1>5. Leads(q, Seen(R), FlattenSeq(s), Seen(R))
  <2>1. DOMAIN s = 1 .. n /\ s = [i \in 1 .. n |-> s[i]]
    OBVIOUS
  <2> HIDE DEF s
  <2> QED BY <1>4, <2>1, Loop
<1>6. Leads(q, Seen(R), <<Pop("mean", 1), Pop("rstd", 1), Pop("x", n)>>, Seen({}))
  <2>1. /\ Allowed(q, Seen(R), Pop("mean", 1), Seen({"x", "rstd"}))
        /\ Allowed(q, Seen({"x", "rstd"}), Pop("rstd", 1), Seen({"x"}))
        /\ Allowed(q, Seen({"x"}), Pop("x", n), Seen({}))
    BY <1>1, Popping
  <2> QED BY <2>1, Calls3
<1>7. WideLayer(c, n) = WideVariance(n) \o RootOf("var") \o <<Wait("rstd", 1), Wait("mean", 1)>>
                        \o FlattenSeq(s) \o <<Pop("mean", 1), Pop("rstd", 1), Pop("x", n)>>
  BY DEF WideLayer, Flatten
<1> HIDE DEF s, R, M
<1> QED BY <1>2, <1>3, <1>5, <1>6, <1>7, Joined5

LEMMA WideComputeLeads ==
  ASSUME NEW q, NEW c, ctiles(c) \in Nat, Streams(q, ctiles(c)), n_rb(c) \in Nat,
         {"zero", "sq", "mean", "msq", "m2", "var", "rstd", "xmm", "norm", "tmp", "out"} \subseteq q.fills,
         {"scaler", "eps", "x", "sq", "mean", "msq", "m2", "var", "rstd", "xmm", "norm", "gamma", "beta",
          "tmp"} \subseteq q.empties
  PROVE  Leads(q, Seen({}), WideCompute(c), Seen({}))
<1> DEFINE n == ctiles(c)
           row == <<Wait("x", n)>> \o WideSquares(n)
                  \o IF c.mode = "layer" THEN WideLayer(c, n) ELSE WideRms(c, n)
           s == [i \in 1 .. n_rb(c) |-> row]
           first == <<Emit("zero", 1, <<Const(0)>>), Wait("scaler", 1), Wait("eps", 1)>>
<1>1. /\ q.size["zero"] = 1 /\ q.take["scaler"] = 1 /\ q.take["eps"] = 1 /\ q.take["x"] = n
  BY DEF Streams, Grained
<1>2. Leads(q, Seen({}), first, Seen({}))
  <2>1. \A ops : /\ Allowed(q, Seen({}), Emit("zero", 1, ops), Seen({}))
                 /\ Allowed(q, Seen({}), Wait("scaler", 1), Seen({}))
                 /\ Allowed(q, Seen({}), Wait("eps", 1), Seen({}))
    BY <1>1, Waiting, Emitting
  <2> QED BY <2>1, Calls3
<1>3. Leads(q, Seen({}), <<Wait("x", n)>>, Seen({"x"}))
  <2>1. Allowed(q, Seen({}), Wait("x", n), Seen({"x"}))
    BY <1>1, Waiting
  <2> QED BY <2>1, Calls1
<1>4. Leads(q, Seen({"x"}), WideSquares(n), Seen({"x"}))
  BY WideSquaresLead
<1>5. Leads(q, Seen({"x"}), IF c.mode = "layer" THEN WideLayer(c, n) ELSE WideRms(c, n), Seen({}))
  BY WideLayerLeads, WideRmsLeads
<1>6. Leads(q, Seen({}), row, Seen({}))
  <2> DEFINE form == IF c.mode = "layer" THEN WideLayer(c, n) ELSE WideRms(c, n)
  <2> HIDE DEF form, n
  <2> QED BY <1>3, <1>4, <1>5, Joined3 DEF form
<1>7. Leads(q, Seen({}), FlattenSeq(s), Seen({}))
  <2> HIDE DEF row
  <2> QED BY <1>6, Loop
<1>8. WideCompute(c) = first \o FlattenSeq(s)
  BY DEF WideCompute, Flatten
<1> HIDE DEF s, first
<1> QED BY <1>2, <1>7, <1>8, Joined

\* The fused rk update.
RkRows == {"x", "k", "v", "cur", "out", "pw"}
RkChunk(c, b) ==
  IF b \in RkRows THEN ctiles(c)
  ELSE IF b = "w" THEN IF resident(c) THEN rbs_per_group(c) * ctiles(c) ELSE ctiles(c) ELSE 1
RkGrained(q, c) ==
  /\ \A b \in q.fills : q.size[b] = RkChunk(c, b)
  /\ \A b \in q.empties : q.take[b] = IF b = "out" THEN 1 ELSE RkChunk(c, b)

LEMMA RkComputeLeads ==
  ASSUME NEW q, NEW c, RkGrained(q, c), n_rb(c) \in Nat,
         {"zero", "scaler", "pw", "ss", "out"} \subseteq q.fills,
         {"scaler", "x", "k", "w", "v", "cur", "pw", "ss"} \subseteq q.empties
  PROVE  Leads(q, Seen({}), RkCompute(c), Seen({}))
<1> DEFINE n == ctiles(c)
           group == rbs_per_group(c) * n
           at(rb) == IF resident(c) THEN ((w_phase0(c) + rb) % rbs_per_group(c)) * n ELSE 0
           W == IF resident(c) THEN {"w"} ELSE {}
           XK == W \cup {"x", "k"}
           XKW == {"w", "x", "k"}
           m == IF resident(c) THEN group ELSE n
           product(rb) == <<Emit("pw", n, <<Op("mul", "tiles", each("x"), each("k")),
                                            Op("mul", "dest", DEST, past("w", at(rb)))>>),
                            Pop("x", n), Pop("k", n)>>
           update == <<Wait("pw", n), Emit("ss", 1, <<Sum("row", "pw", n)>>), Pop("pw", n),
                       Wait("ss", 1), Wait("v", n), Wait("cur", n),
                       Emit("out", n, <<Op("mul", "cols", each("v"), one("ss")),
                                        Op("add", "dest", DEST, each("cur"))>>),
                       Pop("v", n), Pop("ss", 1), Pop("cur", n)>>
           row(rb) == <<Wait("x", n), Wait("k", n)>> \o When(~resident(c), <<Wait("w", n)>>)
                      \o product(rb) \o When(~resident(c), <<Pop("w", n)>>) \o update
           s == [i \in 1 .. n_rb(c) |-> row(i - 1)]
           first == <<Emit("zero", 1, <<Const(0)>>), Emit("scaler", 1, <<Const(1)>>), Wait("scaler", 1)>>
<1>0. resident(c) \in BOOLEAN
  BY DEF resident, bcast
<1>1. /\ q.size["zero"] = 1 /\ q.size["scaler"] = 1 /\ q.take["scaler"] = 1
      /\ q.take["x"] = n /\ q.take["k"] = n /\ q.take["v"] = n /\ q.take["cur"] = n
      /\ q.size["pw"] = n /\ q.take["pw"] = n /\ q.size["ss"] = 1 /\ q.take["ss"] = 1
      /\ q.size["out"] = n /\ q.take["w"] = m
  BY DEF RkGrained, RkChunk, RkRows
<1>2. Leads(q, Seen({}), first, Seen({}))
  <2>1. \A ops : /\ Allowed(q, Seen({}), Emit("zero", 1, ops), Seen({}))
                 /\ Allowed(q, Seen({}), Emit("scaler", 1, ops), Seen({}))
                 /\ Allowed(q, Seen({}), Wait("scaler", 1), Seen({}))
    BY <1>1, Waiting, Emitting
  <2> QED BY <2>1, Calls3
<1>3. /\ Leads(q, Seen({}), When(resident(c), <<Wait("w", group)>>), Seen(W))
      /\ Leads(q, Seen(W), When(resident(c), <<Pop("w", group)>>), Seen({}))
  <2>1. CASE resident(c)
    <3>1. q.take["w"] = group
      BY <1>1, <2>1
    <3>2. /\ Allowed(q, Seen({}), Wait("w", group), Seen({"w"}))
          /\ Allowed(q, Seen({"w"}), Pop("w", group), Seen({}))
      BY <3>1, Waiting, Popping
    <3> HIDE DEF group
    <3> QED BY <2>1, <3>2, Calls1 DEF When
  <2>2. CASE ~resident(c)
    BY <2>2, NoCalls DEF When
  <2> QED BY <2>1, <2>2
<1>4. Leads(q, Seen(W), <<Wait("x", n), Wait("k", n)>>, Seen(XK))
  <2>1. /\ Allowed(q, Seen(W), Wait("x", n), Seen(W \cup {"x"}))
        /\ Allowed(q, Seen(W \cup {"x"}), Wait("k", n), Seen(XK))
    BY <1>1, Waiting
  <2> QED BY <2>1, Calls2
<1>5. Leads(q, Seen(XK), When(~resident(c), <<Wait("w", n)>>), Seen(XKW))
  <2>1. CASE resident(c)
    <3>1. XK = XKW
      BY <2>1
    <3> HIDE DEF XK, XKW
    <3> QED BY <2>1, <3>1, NoCalls DEF When
  <2>2. CASE ~resident(c)
    <3>1. Allowed(q, Seen(XK), Wait("w", n), Seen(XKW))
      BY <1>1, <2>2, Waiting
    <3> QED BY <2>2, <3>1, Calls1 DEF When
  <2> QED BY <2>1, <2>2
<1>6. ASSUME NEW rb PROVE Leads(q, Seen(XKW), product(rb), Seen({"w"}))
  <2>1. \A ops : /\ Allowed(q, Seen(XKW), Emit("pw", n, ops), Seen(XKW))
                 /\ Allowed(q, Seen(XKW), Pop("x", n), Seen({"w", "k"}))
                 /\ Allowed(q, Seen({"w", "k"}), Pop("k", n), Seen({"w"}))
    BY <1>1, Emitting, Popping
  <2> QED BY <2>1, Calls3
<1>7. Leads(q, Seen({"w"}), When(~resident(c), <<Pop("w", n)>>), Seen(W))
  <2>1. CASE resident(c)
    BY <2>1, NoCalls DEF When
  <2>2. CASE ~resident(c)
    <3>1. Allowed(q, Seen({"w"}), Pop("w", n), Seen({}))
      BY <1>1, <2>2, Popping
    <3> QED BY <2>2, <3>1, Calls1 DEF When
  <2> QED BY <2>1, <2>2
<1>8. Leads(q, Seen(W), update, Seen(W))
  <2> DEFINE C1 == W \cup {"ss"}
             C2 == W \cup {"ss", "v"}
             C3 == W \cup {"ss", "v", "cur"}
             C4 == W \cup {"ss", "cur"}
             C5 == W \cup {"cur"}
  <2>1. \A ops : /\ Allowed(q, Seen(W), Wait("pw", n), Seen(W \cup {"pw"}))
                 /\ Allowed(q, Seen(W \cup {"pw"}), Emit("ss", 1, ops), Seen(W \cup {"pw"}))
                 /\ Allowed(q, Seen(W \cup {"pw"}), Pop("pw", n), Seen(W))
    BY <1>1, Waiting, Emitting, Popping
  <2>2. \A ops : /\ Allowed(q, Seen(W), Wait("ss", 1), Seen(C1))
                 /\ Allowed(q, Seen(C1), Wait("v", n), Seen(C2))
                 /\ Allowed(q, Seen(C2), Wait("cur", n), Seen(C3))
                 /\ Allowed(q, Seen(C3), Emit("out", n, ops), Seen(C3))
    BY <1>1, Waiting, Emitting
  <2>3. /\ Allowed(q, Seen(C3), Pop("v", n), Seen(C4))
        /\ Allowed(q, Seen(C4), Pop("ss", 1), Seen(C5))
        /\ Allowed(q, Seen(C5), Pop("cur", n), Seen(W))
    BY <1>1, Popping
  <2> HIDE DEF C1, C2, C3, C4, C5, W
  <2> QED BY <2>1, <2>2, <2>3, Calls10
<1>9. ASSUME NEW rb PROVE Leads(q, Seen(W), row(rb), Seen(W))
  <2> HIDE DEF product, update, W, XK, XKW
  <2> QED BY <1>4, <1>5, <1>6, <1>7, <1>8, Joined5
<1>10. Leads(q, Seen(W), FlattenSeq(s), Seen(W))
  <2>1. DOMAIN s = 1 .. n_rb(c) /\ s = [i \in 1 .. n_rb(c) |-> s[i]]
    OBVIOUS
  <2>2. \A i \in 1 .. n_rb(c) : s[i] = row(i - 1)
    OBVIOUS
  <2> HIDE DEF s, row, W
  <2>3. \A i \in 1 .. n_rb(c) : Leads(q, Seen(W), s[i], Seen(W))
    BY <1>9, <2>2
  <2> QED BY <2>1, <2>3, Loop
<1>11. RkCompute(c) = first \o When(resident(c), <<Wait("w", group)>>) \o FlattenSeq(s)
                      \o When(resident(c), <<Pop("w", group)>>)
  BY DEF RkCompute, Flatten
<1> HIDE DEF s, first, W
<1> QED BY <1>2, <1>3, <1>10, <1>11, Joined4

-----------------------------------------------------------------------------
\* Writing.
LEMMA Scattering ==
  ASSUME NEW q, NEW b \in q.empties, NEW t, NEW A
  PROVE  Allowed(q, Seen(A), Scatter(b, t), Seen(A))
BY DEF Allowed, Seen, Scatter, Filling, Emptying, Publishing, Publishes, Releases

LEMMA WriterLeads ==
  ASSUME NEW q, NEW c, ctiles(c) \in Nat, n_rb(c) \in Nat, "out" \in q.empties, q.take["out"] = 1
  PROVE  Leads(q, Seen({}), Writer(c), Seen({}))
<1> DEFINE s == [i \in 1 .. n_rb(c) * ctiles(c) |->
                   <<Wait("out", 1), Scatter("out", rb0(c) * ctiles(c) + (i - 1)), Pop("out", 1)>>]
           m == n_rb(c) * ctiles(c)
<1>1. m \in Nat
  OBVIOUS
<1>2. ASSUME NEW i \in 1 .. m PROVE Leads(q, Seen({}), s[i], Seen({}))
  <2>1. \A t : /\ Allowed(q, Seen({}), Wait("out", 1), Seen({"out"}))
               /\ Allowed(q, Seen({"out"}), Scatter("out", t), Seen({"out"}))
               /\ Allowed(q, Seen({"out"}), Pop("out", 1), Seen({}))
    BY Waiting, Scattering, Popping
  <2> QED BY <2>1, Calls3
<1>3. DOMAIN s = 1 .. m /\ s = [i \in 1 .. m |-> s[i]]
  OBVIOUS
<1>4. Writer(c) = FlattenSeq(s)
  BY DEF Writer, Flatten
<1> HIDE DEF s, m
<1> QED BY <1>1, <1>2, <1>3, <1>4, Loop

-----------------------------------------------------------------------------
(***************************************************************************)
(* Reader kernels.                                                         *)
(***************************************************************************)

\* Reading: what has been reserved and what is in flight.
Reading(H, D) == [held |-> H, due |-> D, seen |-> {}]

LEMMA Reserving ==
  ASSUME NEW q, NEW b \in q.fills, NEW n, n = q.size[b], NEW H, NEW D
  PROVE  Allowed(q, Reading(H, D), Reserve(b, n), Reading(H \cup {b}, D))
BY DEF Allowed, Reading, Reserve, Chunk, Filling, Emptying, Publishing, Publishes, Releases

LEMMA Gathering ==
  ASSUME NEW q, NEW b \in q.fills, NEW t, Tiled(t, q.size[b]), NEW H, b \in H, NEW D
  PROVE  Allowed(q, Reading(H, D), Gather(b, t), Reading(H, D \cup {b}))
<1>1. DOMAIN t = 1 .. Len(t) /\ Len(t) = q.size[b]
  BY DEF Tiled
<1> QED
  BY <1>1 DEF Allowed, Reading, Gather, Chunk, Filling, Emptying, Publishing, Publishes, Releases

LEMMA Landing ==
  ASSUME NEW q, NEW H, NEW D
  PROVE  Allowed(q, Reading(H, D), Barrier, Reading(H, {}))
BY DEF Allowed, Reading, Barrier, Filling, Emptying, Publishing, Publishes, Releases

LEMMA Pushing ==
  ASSUME NEW q, NEW b \in q.fills, NEW n, n = q.size[b], NEW H, b \in H
  PROVE  Allowed(q, Reading(H, {}), Push(b, n), Reading(H \ {b}, {}))
BY DEF Allowed, Reading, Push, Chunk, Filling, Emptying, Publishing, Publishes, Releases

LEMMA Storing ==
  ASSUME NEW q, NEW b \in q.fills, q.size[b] = 1, NEW v, NEW H, b \in H
  PROVE  Allowed(q, Reading(H, {}), Fill(b, v), Reading(H, {}))
BY DEF Allowed, Reading, Fill, Chunk, Filling, Emptying, Publishing, Publishes, Releases

Rest == Reading({}, {})

\* The pieces readers are built from.
LEMMA SeedLeads ==
  ASSUME NEW q, NEW c, c.dense \in BOOLEAN, "zero" \in q.empties, q.take["zero"] = 1
  PROVE  Leads(q, Rest, Seed(c), Rest)
<1>1. Allowed(q, Rest, Wait("zero", 1), Rest)
  BY DEF Allowed, Rest, Reading, Wait, Filling, Emptying, Publishing, Publishes, Releases
<1> QED BY <1>1, Calls1, Maybe DEF Seed

LEMMA BlockLeads ==
  ASSUME NEW q, NEW b \in q.fills, NEW t, Tiled(t, q.size[b])
  PROVE  Leads(q, Rest, Block(b, t), Rest)
<1> DEFINE B == {b}
<1>1. {} \cup {b} = B /\ B \ {b} = {}
  OBVIOUS
<1>2. Len(t) = q.size[b] /\ b \in B
  BY DEF Tiled
<1> HIDE DEF B
<1>3. /\ Allowed(q, Rest, Reserve(b, Len(t)), Reading(B, {}))
      /\ Allowed(q, Reading(B, {}), Gather(b, t), Reading(B, {} \cup {b}))
      /\ Allowed(q, Reading(B, {} \cup {b}), Barrier, Reading(B, {}))
      /\ Allowed(q, Reading(B, {}), Push(b, Len(t)), Rest)
  BY <1>1, <1>2, Reserving, Gathering, Landing, Pushing DEF Rest
<1> QED BY <1>3, Calls4 DEF Block

-----------------------------------------------------------------------------
\* The host's split: a core's row-blocks are rows of the call.
LEMMA SplitFacts ==
  ASSUME NEW U \in Nat, NEW C \in Nat \ {0}, NEW k \in 0 .. C - 1
  PROVE  /\ SplitFirst(U, C, k) \in Nat /\ SplitCount(U, C, k) \in Nat
         /\ SplitFirst(U, C, k) + SplitCount(U, C, k) <= U
<1> DEFINE q == U \div C
           r == U % C
<1>1. q \in Nat /\ r \in 0 .. C - 1 /\ U = q * C + r
  OBVIOUS
<1>2. /\ SplitFirst(U, C, k) = k * q + (IF k < r THEN k ELSE r)
      /\ SplitCount(U, C, k) = q + (IF k < r THEN 1 ELSE 0)
  BY DEF SplitFirst, SplitCount
<1> HIDE DEF q, r
<1>3. k * q \in Nat /\ (k + 1) * q = k * q + q /\ (C - (k + 1)) * q = q * C - (k + 1) * q
  BY <1>1
<1>4. (C - (k + 1)) * q >= 0
  BY <1>1, C - (k + 1) \in Nat
<1>5. (k + 1) * q \in Int /\ q * C \in Int
  BY <1>1
<1>6. k * q + q <= q * C
  BY <1>3, <1>4, <1>5
<1> QED BY <1>1, <1>2, <1>3, <1>5, <1>6

\* A core's row-blocks are rows of the call, n tiles each.
LEMMA RowFacts ==
  ASSUME NEW c, OnCore(c)
  PROVE  /\ width(c) \in Nat \ {0} /\ ctiles(c) \in Nat \ {0}
         /\ n_otr(c) \in Nat \ {0} /\ rb0(c) \in Nat /\ n_rb(c) \in Nat
         /\ rb0(c) + n_rb(c) <= n_otr(c)
         /\ ~global(c) => width(c) = TILE /\ ctiles(c) = ceil(N(c), TILE)
<1>1. width(c) \in Nat \ {0}
  BY NormAssumption DEF width
<1>2. ctiles(c) \in Nat \ {0}
  BY <1>1, CeilFacts DEF ctiles, OnCore
<1>3. n_otr(c) \in Nat \ {0}
  BY DEF OnCore, RowsOf, n_otr
<1>4. rb0(c) \in Nat /\ n_rb(c) \in Nat /\ rb0(c) + n_rb(c) <= n_otr(c)
  <2> DEFINE U == n_otr(c)
             F == SplitFirst(U, c.cores, c.core)
             R == SplitCount(U, c.cores, c.core)
  <2>1. F \in Nat /\ R \in Nat /\ F + R <= U
    <3> HIDE DEF U
    <3>1. U \in Nat
      BY <1>3 DEF U
    <3> QED BY <3>1, SplitFacts DEF OnCore
  <2>2. rb0(c) = IF global(c) THEN 0 ELSE F
    BY DEF rb0
  <2>3. n_rb(c) = IF global(c) THEN 1 ELSE R
    BY DEF n_rb
  <2> HIDE DEF F, R
  <2> QED BY <1>3, <2>1, <2>2, <2>3
<1>5. ~global(c) => width(c) = TILE /\ ctiles(c) = ceil(N(c), TILE)
  BY DEF width, ctiles
<1> QED BY <1>1, <1>2, <1>3, <1>4, <1>5

LEMMA RowTiled ==
  ASSUME NEW c, OnCore(c), NEW v, RowsOf(v, N(c)), NEW r \in 1 .. Len(v)
  PROVE  Tiled(Tiles(v[r], width(c)), ctiles(c))
<1>1. Len(v[r]) = N(c) /\ N(c) \in Nat /\ width(c) \in Nat \ {0}
  BY RowFacts DEF RowsOf, OnCore
<1>2. Tiled(Tiles(v[r], width(c)), ceil(Len(v[r]), width(c)))
  BY <1>1, TilesOf
<1> QED BY <1>1, <1>2 DEF ctiles

LEMMA XBlockLeads ==
  ASSUME NEW q, NEW c, OnCore(c), "x" \in q.fills, q.size["x"] = ctiles(c), NEW rb \in 0 .. n_rb(c) - 1
  PROVE  Leads(q, Rest, XBlock(c, rb), Rest)
<1>1. rb0(c) + rb + 1 \in 1 .. Len(c.x)
  BY RowFacts DEF n_otr
<1>2. Tiled(Tiles(c.x[rb0(c) + rb + 1], width(c)), q.size["x"])
  BY <1>1, RowTiled DEF OnCore
<1> QED BY <1>2, BlockLeads DEF XBlock

\* A reader that gathers a scale, then perhaps a bias, behind one barrier.
LEMMA PairLeads ==
  ASSUME NEW q, NEW t, NEW u, NEW both \in BOOLEAN, NEW m,
         {"gamma", "beta"} \subseteq q.fills, q.size["gamma"] = m, Tiled(t, m),
         both => q.size["beta"] = m /\ Tiled(u, m)
  PROVE  \E d, e, f :
           /\ Leads(q, Rest, <<Reserve("gamma", m), Gather("gamma", t)>>, d)
           /\ Leads(q, d, When(both, <<Reserve("beta", m), Gather("beta", u)>>), e)
           /\ Leads(q, e, <<Barrier, Push("gamma", m)>>, f)
           /\ Leads(q, f, When(both, <<Push("beta", m)>>), Rest)
<1> DEFINE G == {"gamma"}
           B == IF both THEN {"beta"} ELSE {}
           GB == G \cup B
<1>1. {} \cup {"gamma"} = G /\ GB \ {"gamma"} = B
  OBVIOUS
<1>2. Leads(q, Rest, <<Reserve("gamma", m), Gather("gamma", t)>>, Reading(G, G))
  <2>1. /\ Allowed(q, Rest, Reserve("gamma", m), Reading({} \cup {"gamma"}, {}))
        /\ Allowed(q, Reading({"gamma"}, {}), Gather("gamma", t), Reading({"gamma"}, {} \cup {"gamma"}))
    BY Reserving, Gathering DEF Rest
  <2> QED BY <1>1, <2>1, Calls2
<1>3. Leads(q, Reading(G, G), When(both, <<Reserve("beta", m), Gather("beta", u)>>), Reading(GB, GB))
  <2>1. CASE both
    <3>1. G \cup {"beta"} = GB
      BY <2>1
    <3>2. /\ Allowed(q, Reading(G, G), Reserve("beta", m), Reading(G \cup {"beta"}, G))
          /\ Allowed(q, Reading(GB, G), Gather("beta", u), Reading(GB, G \cup {"beta"}))
      BY <2>1, Reserving, Gathering
    <3> HIDE DEF G, GB
    <3> QED BY <2>1, <3>1, <3>2, Calls2 DEF When
  <2>2. CASE ~both
    <3>1. GB = G
      BY <2>2
    <3> HIDE DEF G, GB
    <3> QED BY <2>2, <3>1, NoCalls DEF When
  <2> QED BY <2>1, <2>2
<1>4. Leads(q, Reading(GB, GB), <<Barrier, Push("gamma", m)>>, Reading(B, {}))
  <2>1. /\ Allowed(q, Reading(GB, GB), Barrier, Reading(GB, {}))
        /\ Allowed(q, Reading(GB, {}), Push("gamma", m), Reading(GB \ {"gamma"}, {}))
    BY Landing, Pushing
  <2> HIDE DEF GB, B
  <2> QED BY <1>1, <2>1, Calls2
<1>5. Leads(q, Reading(B, {}), When(both, <<Push("beta", m)>>), Rest)
  <2>1. CASE both
    <3>1. {"beta"} \ {"beta"} = {} /\ B = {"beta"}
      BY <2>1
    <3>2. Allowed(q, Reading(B, {}), Push("beta", m), Rest)
      BY <2>1, <3>1, Pushing DEF Rest
    <3> QED BY <2>1, <3>2, Calls1 DEF When
  <2>2. CASE ~both
    BY <2>2, NoCalls DEF When, Rest
  <2> QED BY <2>1, <2>2
<1> HIDE DEF G, B, GB
<1> QED BY <1>2, <1>3, <1>4, <1>5

LEMMA AffineTiled ==
  ASSUME NEW c, NormCall(c), ~global(c)
  PROVE  /\ has_scale(c) => Tiled(Tiles(c.gamma, TILE), ctiles(c))
         /\ has_bias(c) => Tiled(Tiles(c.beta, TILE), ctiles(c)) /\ has_scale(c)
<1>1. OnCore(c) /\ N(c) \in Nat /\ TILE \in Nat \ {0} /\ ctiles(c) = ceil(N(c), TILE)
  BY NormAssumption, RowFacts DEF NormCall, OnCore
<1>2. has_bias(c) => has_scale(c)
  BY DEF NormCall, Accepted, has_bias, has_scale
<1> QED BY <1>1, <1>2, TilesOf DEF NormCall

\* The readers of the norms.
LEMMA NarrowReaderLeads ==
  ASSUME NEW q, NEW c, NormCall(c), ~global(c), Resident(q, ctiles(c)),
         {"x", "gamma", "beta"} \subseteq q.fills, "zero" \in q.empties
  PROVE  Leads(q, Rest, NarrowReader(c), Rest)
<1> DEFINE n == ctiles(c)
           scale == has_scale(c)
           bias == has_bias(c)
           a == <<Reserve("gamma", n), Gather("gamma", Tiles(c.gamma, TILE))>>
           b == When(bias, <<Reserve("beta", n), Gather("beta", Tiles(c.beta, TILE))>>)
           p == <<Barrier, Push("gamma", n)>>
           r == When(bias, <<Push("beta", n)>>)
           s == [i \in 1 .. n_rb(c) |-> XBlock(c, i - 1)]
<1>1. /\ q.size["x"] = n /\ q.size["gamma"] = n /\ q.size["beta"] = n /\ q.take["zero"] = 1
  BY DEF Resident, Grained, RowBuffers
<1>2. OnCore(c) /\ n_rb(c) \in Nat /\ c.dense \in BOOLEAN /\ scale \in BOOLEAN /\ bias \in BOOLEAN
  BY RowFacts DEF NormCall, OnCore, has_scale, has_bias
<1>3. Leads(q, Rest, Seed(c), Rest)
  BY <1>1, <1>2, SeedLeads
<1>4. Leads(q, Rest, FlattenSeq(s), Rest)
  <2>1. \A i \in 1 .. n_rb(c) : Leads(q, Rest, s[i], Rest)
    <3> SUFFICES ASSUME NEW i \in 1 .. n_rb(c) PROVE Leads(q, Rest, XBlock(c, i - 1), Rest)
      OBVIOUS
    <3>1. i - 1 \in 0 .. n_rb(c) - 1
      BY <1>2
    <3> QED BY <1>1, <1>2, <3>1, XBlockLeads
  <2>2. DOMAIN s = 1 .. n_rb(c) /\ s = [i \in 1 .. n_rb(c) |-> s[i]]
    OBVIOUS
  <2> HIDE DEF s
  <2> QED BY <1>2, <2>1, <2>2, Loop
<1>5. NarrowReader(c) = Seed(c) \o When(scale, a) \o b \o When(scale, p) \o r \o FlattenSeq(s)
  BY DEF NarrowReader, Flatten
<1>6. CASE scale
  <2>1. Tiled(Tiles(c.gamma, TILE), n) /\ (bias => Tiled(Tiles(c.beta, TILE), n))
    BY <1>6, AffineTiled
  <2>2. \E d, e, f : /\ Leads(q, Rest, a, d) /\ Leads(q, d, b, e)
                     /\ Leads(q, e, p, f) /\ Leads(q, f, r, Rest)
    <3> HIDE DEF n, bias
    <3> QED BY <1>1, <1>2, <2>1, PairLeads
  <2>3. When(scale, a) = a /\ When(scale, p) = p
    BY <1>6 DEF When
  <2> HIDE DEF a, b, p, r, s
  <2> QED BY <1>3, <1>4, <1>5, <2>2, <2>3, Joined6
<1>7. CASE ~scale
  <2>1. ~bias
    BY <1>7, AffineTiled
  <2>2. When(scale, a) = <<>> /\ b = <<>> /\ When(scale, p) = <<>> /\ r = <<>>
    BY <1>7, <2>1 DEF When
  <2> DEFINE A == When(scale, a)
             C == When(scale, p)
  <2>3. Leads(q, Rest, A, Rest) /\ Leads(q, Rest, b, Rest) /\ Leads(q, Rest, C, Rest) /\ Leads(q, Rest, r, Rest)
    BY <2>2, NoCalls
  <2>4. NarrowReader(c) = Seed(c) \o A \o b \o C \o r \o FlattenSeq(s)
    BY <1>5
  <2> HIDE DEF A, C, a, b, p, r, s
  <2> QED BY <1>3, <1>4, <2>3, <2>4, Joined6
<1> QED BY <1>6, <1>7

LEMMA StreamedLeads ==
  ASSUME NEW q, NEW c, Streams(q, ctiles(c)), {"gamma", "beta"} \subseteq q.fills, NEW i
  PROVE  Leads(q, Rest, Streamed(c, i), Rest)
<1> DEFINE t == <<Tiles(c.gamma, TILE)[i + 1]>>
           u == <<Tiles(c.beta, TILE)[i + 1]>>
           bias == has_bias(c)
           a == <<Reserve("gamma", 1), Gather("gamma", t)>>
           b == When(bias, <<Reserve("beta", 1), Gather("beta", u)>>)
           p == <<Barrier, Push("gamma", 1)>>
           r == When(bias, <<Push("beta", 1)>>)
<1>1. q.size["gamma"] = 1 /\ q.size["beta"] = 1 /\ bias \in BOOLEAN
  BY DEF Streams, Grained, has_bias
<1>2. ASSUME NEW v PROVE Tiled(<<v>>, 1)
  <2>1. Len(<<v>>) = 1 /\ <<v>> \in Seq({v})
    OBVIOUS
  <2> QED BY <2>1 DEF Tiled
<1>3. Tiled(t, 1) /\ Tiled(u, 1)
  BY <1>2
<1>4. \E d, e, f : /\ Leads(q, Rest, a, d) /\ Leads(q, d, b, e)
                   /\ Leads(q, e, p, f) /\ Leads(q, f, r, Rest)
  <2> HIDE DEF bias, t, u
  <2> QED BY <1>1, <1>3, PairLeads
<1>5. Streamed(c, i) = a \o b \o p \o r
  BY DEF Streamed
<1> HIDE DEF a, b, p, r
<1> QED BY <1>4, <1>5, Joined4

LEMMA WideReaderLeads ==
  ASSUME NEW q, NEW c, NormCall(c), Streams(q, ctiles(c)),
         {"x", "gamma", "beta", "scaler", "eps"} \subseteq q.fills, "zero" \in q.empties
  PROVE  Leads(q, Rest, WideReader(c), Rest)
<1> DEFINE n == ctiles(c)
           tiles == [i \in 1 .. n |-> Streamed(c, i - 1)]
           row(rb) == XBlock(c, rb) \o When(has_scale(c), FlattenSeq(tiles))
           s == [i \in 1 .. n_rb(c) |-> row(i - 1)]
           first == <<Reserve("scaler", 1), Fill("scaler", rscale(c)), Push("scaler", 1),
                      Reserve("eps", 1), Fill("eps", EPS), Push("eps", 1)>>
<1>1. /\ q.size["x"] = n /\ q.size["scaler"] = 1 /\ q.size["eps"] = 1 /\ q.take["zero"] = 1
  BY DEF Streams, Grained
<1>2. OnCore(c) /\ n_rb(c) \in Nat /\ n \in Nat /\ c.dense \in BOOLEAN /\ has_scale(c) \in BOOLEAN
  BY RowFacts DEF NormCall, OnCore, has_scale
<1>3. Leads(q, Rest, Seed(c), Rest)
  BY <1>1, <1>2, SeedLeads
<1>4. Leads(q, Rest, first, Rest)
  <2> DEFINE S == {"scaler"}
             E == {"eps"}
  <2>1. /\ {} \cup {"scaler"} = S /\ S \ {"scaler"} = {}
        /\ {} \cup {"eps"} = E /\ E \ {"eps"} = {} /\ "scaler" \in S /\ "eps" \in E
    OBVIOUS
  <2> HIDE DEF S, E
  <2>2. \A v : /\ Allowed(q, Rest, Reserve("scaler", 1), Reading(S, {}))
               /\ Allowed(q, Reading(S, {}), Fill("scaler", v), Reading(S, {}))
               /\ Allowed(q, Reading(S, {}), Push("scaler", 1), Rest)
    BY <1>1, <2>1, Reserving, Storing, Pushing DEF Rest
  <2>3. \A v : /\ Allowed(q, Rest, Reserve("eps", 1), Reading(E, {}))
               /\ Allowed(q, Reading(E, {}), Fill("eps", v), Reading(E, {}))
               /\ Allowed(q, Reading(E, {}), Push("eps", 1), Rest)
    BY <1>1, <2>1, Reserving, Storing, Pushing DEF Rest
  <2> QED BY <2>2, <2>3, Calls6
<1>5. Leads(q, Rest, FlattenSeq(tiles), Rest)
  <2>1. \A i \in 1 .. n : Leads(q, Rest, tiles[i], Rest)
    BY StreamedLeads
  <2>2. DOMAIN tiles = 1 .. n /\ tiles = [i \in 1 .. n |-> tiles[i]]
    OBVIOUS
  <2> HIDE DEF tiles, n
  <2> QED BY <1>2, <2>1, <2>2, Loop
<1> HIDE DEF tiles
<1>6. ASSUME NEW rb \in 0 .. n_rb(c) - 1 PROVE Leads(q, Rest, row(rb), Rest)
  <2>1. Leads(q, Rest, When(has_scale(c), FlattenSeq(tiles)), Rest)
    BY <1>2, <1>5, Maybe
  <2>2. Leads(q, Rest, XBlock(c, rb), Rest)
    BY <1>1, <1>2, XBlockLeads
  <2> QED BY <2>1, <2>2, Joined
<1>7. Leads(q, Rest, FlattenSeq(s), Rest)
  <2>1. \A i \in 1 .. n_rb(c) : s[i] = row(i - 1) /\ i - 1 \in 0 .. n_rb(c) - 1
    BY <1>2
  <2>2. DOMAIN s = 1 .. n_rb(c) /\ s = [i \in 1 .. n_rb(c) |-> s[i]]
    OBVIOUS
  <2> HIDE DEF s, row
  <2>3. \A i \in 1 .. n_rb(c) : Leads(q, Rest, s[i], Rest)
    BY <1>6, <2>1
  <2> QED BY <1>2, <2>2, <2>3, Loop
<1>8. WideReader(c) = first \o Seed(c) \o FlattenSeq(s)
  BY DEF WideReader, Flatten, tiles
<1> HIDE DEF s, first
<1> QED BY <1>3, <1>4, <1>7, <1>8, Joined3

LEMMA ThroughTiled ==
  ASSUME NEW c, NEW v, ctiles(c) \in Nat
  PROVE  Tiled(ThroughX(c, v), ctiles(c))
<1> DEFINE n == ctiles(c)
           lanes == [j \in DOMAIN v |-> IF c.at + j <= Len(v) THEN Lane(v[c.at + j]) ELSE JunkLane]
           f == [i \in 1 .. n |-> SubSeq(lanes, (i - 1) * width(c) + 1, ((i - 1) + 1) * width(c))]
           s == [i \in 1 .. n |-> <<f[i]>>]
           U == {f[i] : i \in 1 .. n}
<1>1. ThroughX(c, v) = FlattenSeq(s)
  BY DEF ThroughX, Flatten
<1> HIDE DEF f, n
<1>2. s \in [1 .. n -> Seq(U)] /\ \A i \in 1 .. n : Len(s[i]) = 1
  OBVIOUS
<1> HIDE DEF s, U
<1>3. n \in Nat
  BY DEF n
<1>4. Tiled(FlattenSeq(s), n)
  BY <1>2, <1>3, Singletons
<1> QED BY <1>1, <1>4 DEF n

LEMMA GlobalReaderLeads ==
  ASSUME NEW q, NEW c, NormCall(c), global(c), Resident(q, ctiles(c)),
         {"x", "gamma", "beta"} \subseteq q.fills, "zero" \in q.empties
  PROVE  Leads(q, Rest, GlobalReader(c), Rest)
<1> DEFINE n == ctiles(c)
<1>1. /\ q.size["x"] = n /\ q.size["gamma"] = n /\ q.size["beta"] = n /\ q.take["zero"] = 1
  BY DEF Resident, Grained, RowBuffers
<1>2. /\ OnCore(c) /\ n_rb(c) = 1 /\ n \in Nat /\ c.dense \in BOOLEAN
      /\ has_scale(c) \in BOOLEAN /\ has_bias(c) \in BOOLEAN
  BY RowFacts DEF NormCall, OnCore, has_scale, has_bias, n_rb
<1>3. Leads(q, Rest, Seed(c), Rest)
  BY <1>1, <1>2, SeedLeads
<1>4. Leads(q, Rest, XBlock(c, 0), Rest)
  BY <1>1, <1>2, XBlockLeads
<1>5. /\ Leads(q, Rest, Block("gamma", ThroughX(c, c.gamma)), Rest)
      /\ Leads(q, Rest, Block("beta", ThroughX(c, c.beta)), Rest)
  BY <1>1, <1>2, ThroughTiled, BlockLeads
<1>6. /\ Leads(q, Rest, When(has_scale(c), Block("gamma", ThroughX(c, c.gamma))), Rest)
      /\ Leads(q, Rest, When(has_bias(c), Block("beta", ThroughX(c, c.beta))), Rest)
  BY <1>2, <1>5, Maybe
<1> QED BY <1>3, <1>4, <1>6, Joined4 DEF GlobalReader

LEMMA MulReaderLeads ==
  ASSUME NEW q, NEW c, NormCall(c), c.mode = "mul_l2", Resident(q, ctiles(c)),
         {"x", "y"} \subseteq q.fills, "zero" \in q.empties
  PROVE  Leads(q, Rest, MulReader(c), Rest)
<1> DEFINE n == ctiles(c)
           row(rb) == <<Reserve("x", n), Reserve("y", n),
                        Gather("x", Tiles(c.x[rb0(c) + rb + 1], TILE)),
                        Gather("y", Tiles(Repeated(c, rb), TILE)),
                        Barrier, Push("x", n), Push("y", n)>>
           s == [i \in 1 .. n_rb(c) |-> row(i - 1)]
<1>1. /\ q.size["x"] = n /\ q.size["y"] = n /\ q.take["zero"] = 1
  BY DEF Resident, Grained, RowBuffers
<1>2. /\ OnCore(c) /\ n_rb(c) \in Nat /\ rb0(c) \in Nat /\ c.dense \in BOOLEAN
      /\ width(c) = TILE /\ rb0(c) + n_rb(c) <= Len(c.x) /\ Len(c.x) \in Nat
  <2>1. ~global(c)
    BY DEF global
  <2> QED BY <2>1, RowFacts DEF NormCall, OnCore, n_otr
<1>3. Leads(q, Rest, Seed(c), Rest)
  BY <1>1, <1>2, SeedLeads
<1>4. ASSUME NEW rb \in 0 .. n_rb(c) - 1
      PROVE  /\ Tiled(Tiles(c.x[rb0(c) + rb + 1], TILE), n)
             /\ Tiled(Tiles(Repeated(c, rb), TILE), n)
  <2>1. rb0(c) + rb + 1 \in 1 .. Len(c.x)
    BY <1>2
  <2>2. ((rb0(c) + rb) % Len(c.y)) + 1 \in 1 .. Len(c.y)
    <3> DEFINE L == Len(c.y)
               r == rb0(c) + rb
    <3>1. L \in Nat \ {0} /\ r \in Nat
      BY <1>2 DEF NormCall, RowsOf
    <3> HIDE DEF L, r
    <3>2. r % L \in 0 .. L - 1
      BY <3>1
    <3> QED BY <3>1, <3>2 DEF L, r
  <2> QED BY <1>2, <2>1, <2>2, RowTiled DEF NormCall, OnCore, Repeated
<1>5. ASSUME NEW rb \in 0 .. n_rb(c) - 1 PROVE Leads(q, Rest, row(rb), Rest)
  <2> DEFINE X == {"x"}
             Y == {"y"}
             XY == {"x", "y"}
  <2>1. {} \cup {"x"} = X /\ X \cup {"y"} = XY /\ XY \ {"x"} = Y /\ Y \ {"y"} = {}
    OBVIOUS
  <2>2. "x" \in X /\ "x" \in XY /\ "y" \in XY /\ "y" \in Y
    OBVIOUS
  <2> HIDE DEF X, Y, XY, n
  <2>3. /\ Allowed(q, Rest, Reserve("x", n), Reading(X, {}))
        /\ Allowed(q, Reading(X, {}), Reserve("y", n), Reading(XY, {}))
    BY <1>1, <2>1, Reserving DEF Rest
  <2>4. /\ Allowed(q, Reading(XY, {}), Gather("x", Tiles(c.x[rb0(c) + rb + 1], TILE)), Reading(XY, X))
        /\ Allowed(q, Reading(XY, X), Gather("y", Tiles(Repeated(c, rb), TILE)), Reading(XY, XY))
    BY <1>1, <1>4, <2>1, <2>2, Gathering
  <2>5. /\ Allowed(q, Reading(XY, XY), Barrier, Reading(XY, {}))
        /\ Allowed(q, Reading(XY, {}), Push("x", n), Reading(Y, {}))
        /\ Allowed(q, Reading(Y, {}), Push("y", n), Rest)
    BY <1>1, <2>1, <2>2, Landing, Pushing DEF Rest
  <2> QED BY <2>3, <2>4, <2>5, Calls7
<1>6. Leads(q, Rest, FlattenSeq(s), Rest)
  <2>1. \A i \in 1 .. n_rb(c) : s[i] = row(i - 1) /\ i - 1 \in 0 .. n_rb(c) - 1
    BY <1>2
  <2>2. DOMAIN s = 1 .. n_rb(c) /\ s = [i \in 1 .. n_rb(c) |-> s[i]]
    OBVIOUS
  <2> HIDE DEF s, row
  <2>3. \A i \in 1 .. n_rb(c) : Leads(q, Rest, s[i], Rest)
    BY <1>5, <2>1
  <2> QED BY <1>2, <2>2, <2>3, Loop
<1>7. MulReader(c) = Seed(c) \o FlattenSeq(s)
  BY DEF MulReader, Flatten
<1> HIDE DEF s
<1> QED BY <1>3, <1>6, <1>7, Joined

\* The reader's rewinding walk stays in the group.
LEMMA RewindStep ==
  ASSUME NEW g \in Nat \ {0}, NEW a \in Nat
  PROVE  (a + 1) % g = IF (a % g) + 1 = g THEN 0 ELSE (a % g) + 1
<1> DEFINE q == a \div g
           r == a % g
<1>1. q \in Nat /\ r \in 0 .. g - 1 /\ a = q * g + r
  OBVIOUS
<1> HIDE DEF q, r
<1>2. CASE r + 1 = g
  <2>1. a + 1 = (q + 1) * g + 0
    BY <1>1, <1>2
  <2>2. 0 = (a + 1) % g
    BY <1>1, <2>1, DivModUnique, a + 1 \in Int, q + 1 \in Int
  <2> QED BY <1>2, <2>2 DEF r
<1>3. CASE r + 1 # g
  <2>1. a + 1 = q * g + (r + 1)
    BY <1>1
  <2>2. r + 1 \in Int /\ a + 1 \in Int /\ q \in Int /\ 0 <= r + 1 /\ r + 1 < g
    BY <1>1, <1>3
  <2>3. r + 1 = (a + 1) % g
    BY <2>1, <2>2, DivModUnique
  <2> QED BY <1>3, <2>3 DEF r
<1> QED BY <1>2, <1>3

\* It stays in the group it gathers from.
LEMMA WRowInGroup ==
  ASSUME NEW c, RkCall(c), NEW rb \in 0 .. n_rb(c) - 1
  PROVE  WRow(c)[rb] + 1 \in 1 .. Len(c.w)
<1> DEFINE g == rbs_per_group(c)
           m == n_rb(c)
           at(i) == IF bcast(c) THEN (w_phase0(c) + i) % g ELSE rb0(c) + i
           Next1(f, i) == IF i = 0 THEN IF bcast(c) THEN w_phase0(c) ELSE rb0(c) ELSE f[i - 1] + 1
           Walks(f) == f = [i \in 0 .. m - 1 |-> IF Rewinds(c, Next1(f, i)) THEN 0 ELSE Next1(f, i)]
           h == [i \in 0 .. m - 1 |-> at(i)]
<1>1. /\ g \in Nat \ {0} /\ m \in Nat /\ rb0(c) \in Nat /\ rb0(c) + m <= n_otr(c) /\ n_otr(c) \in Nat
      /\ (~bcast(c) => g = n_otr(c)) /\ bcast(c) \in BOOLEAN
  BY RowFacts DEF RkCall, RowsOf, rbs_per_group, bcast
<1>2. w_phase0(c) = IF bcast(c) THEN rb0(c) % g ELSE 0
  BY DEF w_phase0
<1> HIDE DEF g, m
<1>3. w_phase0(c) \in Nat /\ (bcast(c) => w_phase0(c) < g)
  BY <1>1, <1>2
<1>4. \A i \in 0 .. m - 1 : at(i) \in 0 .. g - 1
  <2> SUFFICES ASSUME NEW i \in 0 .. m - 1 PROVE at(i) \in 0 .. g - 1
    OBVIOUS
  <2>1. CASE bcast(c)
    <3> DEFINE a == w_phase0(c) + i
    <3>1. a \in Nat
      BY <1>1, <1>3
    <3> HIDE DEF a
    <3>2. a % g \in 0 .. g - 1
      BY <1>1, <3>1
    <3> QED BY <2>1, <3>2 DEF a
  <2>2. CASE ~bcast(c)
    BY <1>1, <2>2
  <2> QED BY <2>1, <2>2
<1>5. ASSUME NEW i \in 0 .. m - 1
      PROVE  h[i] = IF Rewinds(c, Next1(h, i)) THEN 0 ELSE Next1(h, i)
  <2>1. h[i] = at(i) /\ (i # 0 => h[i - 1] = at(i - 1))
    BY <1>1
  <2> HIDE DEF h
  <2>2. \A x : Rewinds(c, x) <=> bcast(c) /\ x = g
    BY DEF Rewinds, g
  <2>3. CASE bcast(c) /\ i = 0
    <3>1. w_phase0(c) + i = w_phase0(c) /\ w_phase0(c) % g = w_phase0(c) /\ w_phase0(c) # g
      BY <1>1, <1>3, <2>3
    <3>2. at(i) = w_phase0(c) /\ Next1(h, i) = w_phase0(c)
      BY <2>3, <3>1
    <3> HIDE DEF at, Next1
    <3> QED BY <2>1, <2>2, <3>1, <3>2
  <2>4. CASE bcast(c) /\ i # 0
    <3> DEFINE a == w_phase0(c) + (i - 1)
    <3>1. a \in Nat /\ a + 1 = w_phase0(c) + i
      BY <1>1, <1>3, <2>4
    <3>2. at(i - 1) = a % g /\ at(i) = (a + 1) % g
      BY <2>4, <3>1
    <3> HIDE DEF a
    <3>3. (a + 1) % g = IF (a % g) + 1 = g THEN 0 ELSE (a % g) + 1
      BY <1>1, <3>1, RewindStep
    <3>4. Next1(h, i) = (a % g) + 1
      BY <2>1, <2>4, <3>2
    <3> HIDE DEF at, Next1
    <3> QED BY <2>1, <2>2, <2>4, <3>2, <3>3, <3>4
  <2>5. CASE ~bcast(c)
    <3>1. Next1(h, i) = rb0(c) + i
      <4>1. i # 0 => at(i - 1) + 1 = rb0(c) + i
        BY <1>1, <2>5
      <4> QED BY <1>1, <2>1, <2>5, <4>1
    <3>2. at(i) = rb0(c) + i
      BY <2>5
    <3> HIDE DEF at, Next1
    <3> QED BY <2>1, <2>2, <2>5, <3>1, <3>2
  <2> QED BY <1>1, <2>3, <2>4, <2>5
<1>6. Walks(h)
  <2> DEFINE k == [i \in 0 .. m - 1 |-> IF Rewinds(c, Next1(h, i)) THEN 0 ELSE Next1(h, i)]
  <2>1. h = [i \in 0 .. m - 1 |-> h[i]]
    OBVIOUS
  <2> HIDE DEF h, Next1
  <2>2. [i \in 0 .. m - 1 |-> h[i]] = k
    BY <1>5
  <2> QED BY <2>1, <2>2
<1> DEFINE row == CHOOSE f : Walks(f)
<1>7. WRow(c) = row
  BY DEF WRow, m
<1>8. Walks(row)
  <2> HIDE DEF Walks, h
  <2> QED BY <1>6
<1> HIDE DEF row
<1>9. \A i \in 0 .. m - 1 : row[i] = IF Rewinds(c, Next1(row, i)) THEN 0 ELSE Next1(row, i)
  <2> HIDE DEF Next1, h, at
  <2> QED BY <1>8
<1> DEFINE S == {k \in Nat \ {0} : k <= m => row[k - 1] = at(k - 1)}
<1>10. 1 \in S
  <2> SUFFICES ASSUME 1 <= m PROVE row[0] = at(0)
    OBVIOUS
  <2>1. 0 \in 0 .. m - 1
    BY <1>1
  <2>2. row[0] = IF Rewinds(c, Next1(row, 0)) THEN 0 ELSE Next1(row, 0)
    BY <1>9, <2>1
  <2>3. h[0] = IF Rewinds(c, Next1(h, 0)) THEN 0 ELSE Next1(h, 0)
    BY <1>5, <2>1
  <2>4. Next1(row, 0) = Next1(h, 0)
    OBVIOUS
  <2>5. h[0] = at(0)
    BY <2>1
  <2> HIDE DEF Next1, h, at
  <2> QED BY <2>2, <2>3, <2>4, <2>5
<1>11. ASSUME NEW k \in Nat \ {0}, k \in S PROVE k + 1 \in S
  <2> SUFFICES ASSUME k + 1 <= m PROVE row[(k + 1) - 1] = at((k + 1) - 1)
    OBVIOUS
  <2>1. k \in 0 .. m - 1 /\ k - 1 \in 0 .. m - 1 /\ (k + 1) - 1 = k /\ k # 0 /\ k <= m
    BY <1>1
  <2>2. row[k] = IF Rewinds(c, Next1(row, k)) THEN 0 ELSE Next1(row, k)
    BY <1>9, <2>1
  <2>3. h[k] = IF Rewinds(c, Next1(h, k)) THEN 0 ELSE Next1(h, k)
    BY <1>5, <2>1
  <2>4. row[k - 1] = at(k - 1) /\ h[k - 1] = at(k - 1) /\ h[k] = at(k)
    BY <1>11, <2>1
  <2>5. Next1(row, k) = Next1(h, k)
    BY <2>1, <2>4
  <2> HIDE DEF Next1, h, at
  <2> QED BY <2>1, <2>2, <2>3, <2>4, <2>5
<1>12. row[rb] = at(rb)
  <2>1. rb + 1 \in Nat \ {0} /\ rb + 1 <= m /\ (rb + 1) - 1 = rb
    BY <1>1 DEF m
  <2>2. rb + 1 \in S
    <3> HIDE DEF S
    <3> QED BY <1>10, <1>11, <2>1, Induction
  <2> HIDE DEF at
  <2> QED BY <2>1, <2>2
<1>13. at(rb) \in 0 .. g - 1
  BY <1>4 DEF m
<1> HIDE DEF at
<1> QED BY <1>1, <1>7, <1>12, <1>13 DEF g, rbs_per_group

\* Gathers of two buffers, of a third between them where it is streamed.
LEMMA TripleLeads ==
  ASSUME NEW q, NEW n, NEW t, NEW u, NEW v, NEW too \in BOOLEAN,
         {"x", "k", "w"} \subseteq q.fills, q.size["x"] = n, q.size["k"] = n,
         Tiled(t, n), Tiled(u, n), too => q.size["w"] = n /\ Tiled(v, n)
  PROVE  Leads(q, Rest,
               <<Reserve("x", n), Reserve("k", n)>> \o When(too, <<Reserve("w", n)>>)
               \o <<Gather("x", t), Gather("k", u)>> \o When(too, <<Gather("w", v)>>)
               \o <<Barrier, Push("x", n), Push("k", n)>> \o When(too, <<Push("w", n)>>), Rest)
<1> DEFINE X == {"x"}
           XK == {"x", "k"}
           W == IF too THEN {"w"} ELSE {}
           KW == {"k"} \cup W
           XKW == XK \cup W
<1>1. /\ {} \cup {"x"} = X /\ X \cup {"k"} = XK /\ XKW \ {"x"} = KW /\ KW \ {"k"} = W
      /\ "x" \in XKW /\ "k" \in XKW /\ "k" \in KW /\ (too => "w" \in XKW)
  OBVIOUS
<1>2. Leads(q, Rest, <<Reserve("x", n), Reserve("k", n)>>, Reading(XK, {}))
  <2> HIDE DEF X, XK, XKW, KW, W
  <2>1. /\ Allowed(q, Rest, Reserve("x", n), Reading(X, {}))
        /\ Allowed(q, Reading(X, {}), Reserve("k", n), Reading(XK, {}))
    BY <1>1, Reserving DEF Rest
  <2> QED BY <2>1, Calls2
<1>3. Leads(q, Reading(XK, {}), When(too, <<Reserve("w", n)>>), Reading(XKW, {}))
  <2>1. CASE too
    <3>1. XK \cup {"w"} = XKW
      BY <2>1
    <3> HIDE DEF XK, XKW
    <3>2. Allowed(q, Reading(XK, {}), Reserve("w", n), Reading(XKW, {}))
      BY <2>1, <3>1, Reserving
    <3> QED BY <2>1, <3>2, Calls1 DEF When
  <2>2. CASE ~too
    <3>1. XK = XKW
      BY <2>2
    <3> HIDE DEF XK, XKW
    <3> QED BY <2>2, <3>1, NoCalls DEF When
  <2> QED BY <2>1, <2>2
<1>4. Leads(q, Reading(XKW, {}), <<Gather("x", t), Gather("k", u)>>, Reading(XKW, XK))
  <2> HIDE DEF X, XK, XKW, KW, W
  <2>1. /\ Allowed(q, Reading(XKW, {}), Gather("x", t), Reading(XKW, X))
        /\ Allowed(q, Reading(XKW, X), Gather("k", u), Reading(XKW, XK))
    BY <1>1, Gathering
  <2> QED BY <2>1, Calls2
<1>5. Leads(q, Reading(XKW, XK), When(too, <<Gather("w", v)>>), Reading(XKW, XKW))
  <2>1. CASE too
    <3>1. XK \cup {"w"} = XKW
      BY <2>1
    <3> HIDE DEF XK, XKW
    <3>2. Allowed(q, Reading(XKW, XK), Gather("w", v), Reading(XKW, XKW))
      BY <1>1, <2>1, <3>1, Gathering
    <3> QED BY <2>1, <3>2, Calls1 DEF When
  <2>2. CASE ~too
    <3>1. XK = XKW
      BY <2>2
    <3> HIDE DEF XK, XKW
    <3> QED BY <2>2, <3>1, NoCalls DEF When
  <2> QED BY <2>1, <2>2
<1>6. Leads(q, Reading(XKW, XKW), <<Barrier, Push("x", n), Push("k", n)>>, Reading(W, {}))
  <2> HIDE DEF X, XK, XKW, KW, W
  <2>1. /\ Allowed(q, Reading(XKW, XKW), Barrier, Reading(XKW, {}))
        /\ Allowed(q, Reading(XKW, {}), Push("x", n), Reading(KW, {}))
        /\ Allowed(q, Reading(KW, {}), Push("k", n), Reading(W, {}))
    BY <1>1, Landing, Pushing
  <2> QED BY <2>1, Calls3
<1>7. Leads(q, Reading(W, {}), When(too, <<Push("w", n)>>), Rest)
  <2>1. CASE too
    <3>1. W \ {"w"} = {} /\ "w" \in W
      BY <2>1
    <3> HIDE DEF W
    <3>2. Allowed(q, Reading(W, {}), Push("w", n), Rest)
      BY <2>1, <3>1, Pushing DEF Rest
    <3> QED BY <2>1, <3>2, Calls1 DEF When
  <2>2. CASE ~too
    BY <2>2, NoCalls DEF When, Rest
  <2> QED BY <2>1, <2>2
<1> HIDE DEF XK, XKW, W
<1> QED BY <1>2, <1>3, <1>4, <1>5, <1>6, <1>7, Joined6

\* Gathers of two buffers, reserved and pushed in the same order.
LEMMA UpdateLeads ==
  ASSUME NEW q, NEW n, NEW t, NEW u, {"v", "cur"} \subseteq q.fills,
         q.size["v"] = n, q.size["cur"] = n, Tiled(t, n), Tiled(u, n)
  PROVE  Leads(q, Rest, <<Reserve("v", n), Reserve("cur", n), Gather("v", t), Gather("cur", u),
                          Barrier, Push("v", n), Push("cur", n)>>, Rest)
<1> DEFINE V == {"v"}
           C == {"cur"}
           VC == {"v", "cur"}
<1>1. /\ {} \cup {"v"} = V /\ V \cup {"cur"} = VC /\ VC \ {"v"} = C /\ C \ {"cur"} = {}
      /\ "v" \in VC /\ "cur" \in VC /\ "cur" \in C
  OBVIOUS
<1> HIDE DEF V, C, VC
<1>2. /\ Allowed(q, Rest, Reserve("v", n), Reading(V, {}))
      /\ Allowed(q, Reading(V, {}), Reserve("cur", n), Reading(VC, {}))
      /\ Allowed(q, Reading(VC, {}), Gather("v", t), Reading(VC, V))
      /\ Allowed(q, Reading(VC, V), Gather("cur", u), Reading(VC, VC))
  BY <1>1, Reserving, Gathering DEF Rest
<1>3. /\ Allowed(q, Reading(VC, VC), Barrier, Reading(VC, {}))
      /\ Allowed(q, Reading(VC, {}), Push("v", n), Reading(C, {}))
      /\ Allowed(q, Reading(C, {}), Push("cur", n), Rest)
  BY <1>1, Landing, Pushing DEF Rest
<1> QED BY <1>2, <1>3, Calls7

\* The resident group: the rows of r_k end to end.
LEMMA GroupTiled ==
  ASSUME NEW c, RkCall(c)
  PROVE  Tiled(FlattenSeq([i \in 1 .. rbs_per_group(c) |-> Tiles(c.w[i], TILE)]),
               rbs_per_group(c) * ctiles(c))
<1> DEFINE g == rbs_per_group(c)
           n == ctiles(c)
           s == [i \in 1 .. g |-> Tiles(c.w[i], TILE)]
           U == UNION {{s[i][j] : j \in 1 .. n} : i \in 1 .. g}
<1>1. ~global(c) /\ OnCore(c) /\ RowsOf(c.w, N(c)) /\ g = Len(c.w) /\ g \in Nat /\ n \in Nat
  <2>1. ~global(c) /\ OnCore(c) /\ RowsOf(c.w, N(c))
    BY DEF RkCall, global
  <2> QED BY <2>1, RowFacts DEF rbs_per_group, RowsOf
<1>2. width(c) = TILE
  BY <1>1, RowFacts
<1>3. ASSUME NEW i \in 1 .. g PROVE s[i] \in Seq(U) /\ Len(s[i]) = n
  <2> DEFINE t == Tiles(c.w[i], TILE)
  <2>1. Tiled(t, n)
    BY <1>1, <1>2, RowTiled
  <2>2. s[i] = t
    OBVIOUS
  <2> HIDE DEF t
  <2>3. PICK V : t \in Seq(V)
    BY <2>1 DEF Tiled
  <2>4. Len(t) = n /\ \A j \in 1 .. n : t[j] \in U
    BY <2>1, <2>2 DEF Tiled
  <2> HIDE DEF U, s, n
  <2>5. t \in [1 .. n -> U]
    BY <2>3, <2>4
  <2>6. t \in Seq(U)
    BY <1>1, <2>5
  <2> QED BY <2>2, <2>4, <2>6
<1>4. DOMAIN s = 1 .. g /\ s = [i \in 1 .. g |-> s[i]]
  OBVIOUS
<1>5. s = [i \in 1 .. rbs_per_group(c) |-> Tiles(c.w[i], TILE)]
  OBVIOUS
<1> HIDE DEF s, U, g, n
<1>6. s \in [1 .. g -> Seq(U)]
  BY <1>3, <1>4
<1>7. g \in Nat /\ n \in Nat /\ \A i \in 1 .. g : Len(s[i]) = n
  BY <1>1, <1>3
<1>8. FlattenSeq(s) \in Seq(U) /\ Len(FlattenSeq(s)) = g * n
  BY <1>6, <1>7, FlattenLength
<1> QED BY <1>5, <1>8 DEF Tiled, g, n

\* The reader of the rk update.
LEMMA RkReaderLeads ==
  ASSUME NEW q, NEW c, RkCall(c), RkGrained(q, c),
         {"x", "k", "w", "v", "cur"} \subseteq q.fills, "zero" \in q.empties
  PROVE  Leads(q, Rest, RkReader(c), Rest)
<1> DEFINE n == ctiles(c)
           group == FlattenSeq([i \in 1 .. rbs_per_group(c) |-> Tiles(c.w[i], TILE)])
           streams == ~resident(c)
           x(rb) == RowTiles(c.x, rb0(c) + rb)
           k(rb) == RowTiles(c.k, rb0(c) + rb)
           v(rb) == RowTiles(c.v, rb0(c) + rb)
           cur(rb) == RowTiles(c.cur, rb0(c) + rb)
           w(rb) == RowTiles(c.w, WRow(c)[rb])
           first(rb) == <<Reserve("x", n), Reserve("k", n)>> \o When(streams, <<Reserve("w", n)>>)
                        \o <<Gather("x", x(rb)), Gather("k", k(rb))>> \o When(streams, <<Gather("w", w(rb))>>)
                        \o <<Barrier, Push("x", n), Push("k", n)>> \o When(streams, <<Push("w", n)>>)
           second(rb) == <<Reserve("v", n), Reserve("cur", n), Gather("v", v(rb)), Gather("cur", cur(rb)),
                           Barrier, Push("v", n), Push("cur", n)>>
           row(rb) == first(rb) \o second(rb)
           s == [i \in 1 .. n_rb(c) |-> row(i - 1)]
<1>1. /\ OnCore(c) /\ ~global(c) /\ c.dense \in BOOLEAN /\ resident(c) \in BOOLEAN /\ streams \in BOOLEAN
  BY DEF RkCall, OnCore, global, resident, bcast
<1>2. /\ width(c) = TILE /\ n_rb(c) \in Nat /\ rb0(c) \in Nat
      /\ rb0(c) + n_rb(c) <= n_otr(c) /\ n_otr(c) \in Nat
  BY <1>1, RowFacts
<1>3. /\ q.size["x"] = n /\ q.size["k"] = n /\ q.size["v"] = n /\ q.size["cur"] = n
      /\ q.take["zero"] = 1
      /\ q.size["w"] = IF resident(c) THEN rbs_per_group(c) * n ELSE n
  BY DEF RkGrained, RkChunk, RkRows
<1>4. Leads(q, Rest, Seed(c), Rest)
  BY <1>1, <1>3, SeedLeads
<1>5. Leads(q, Rest, When(resident(c), Block("w", group)), Rest)
  <2>1. CASE resident(c)
    <3>1. Tiled(group, q.size["w"])
      BY <1>3, <2>1, GroupTiled
    <3> HIDE DEF group
    <3> QED BY <2>1, <3>1, BlockLeads DEF When
  <2>2. CASE ~resident(c)
    BY <2>2, NoCalls DEF When
  <2> QED BY <2>1, <2>2
<1>6. ASSUME NEW rb \in 0 .. n_rb(c) - 1
      PROVE  Tiled(x(rb), n) /\ Tiled(k(rb), n) /\ Tiled(v(rb), n) /\ Tiled(cur(rb), n) /\ Tiled(w(rb), n)
  <2>1. /\ rb0(c) + rb + 1 \in 1 .. Len(c.x) /\ rb0(c) + rb + 1 \in 1 .. Len(c.k)
        /\ rb0(c) + rb + 1 \in 1 .. Len(c.v) /\ rb0(c) + rb + 1 \in 1 .. Len(c.cur)
    BY <1>2 DEF RkCall, n_otr
  <2>2. WRow(c)[rb] + 1 \in 1 .. Len(c.w)
    BY WRowInGroup
  <2>3. /\ RowsOf(c.x, N(c)) /\ RowsOf(c.k, N(c)) /\ RowsOf(c.v, N(c)) /\ RowsOf(c.cur, N(c))
        /\ RowsOf(c.w, N(c))
    BY DEF RkCall, OnCore
  <2>4. \A z, r : RowsOf(z, N(c)) /\ r + 1 \in 1 .. Len(z) => Tiled(RowTiles(z, r), n)
    BY <1>1, <1>2, RowTiled DEF RowTiles
  <2> QED BY <2>1, <2>2, <2>3, <2>4
<1>7. ASSUME NEW rb \in 0 .. n_rb(c) - 1 PROVE Leads(q, Rest, row(rb), Rest)
  <2>1. Leads(q, Rest, first(rb), Rest)
    <3>1. /\ Tiled(x(rb), n) /\ Tiled(k(rb), n) /\ Tiled(w(rb), n)
          /\ (streams => q.size["w"] = n)
      BY <1>3, <1>6
    <3> HIDE DEF x, k, w, n, streams
    <3> QED BY <1>1, <1>3, <3>1, TripleLeads
  <2>2. Leads(q, Rest, second(rb), Rest)
    <3> HIDE DEF v, cur, n
    <3> QED BY <1>3, <1>6, UpdateLeads
  <2> HIDE DEF first, second
  <2> QED BY <2>1, <2>2, Joined
<1>8. Leads(q, Rest, FlattenSeq(s), Rest)
  <2>1. \A i \in 1 .. n_rb(c) : s[i] = row(i - 1) /\ i - 1 \in 0 .. n_rb(c) - 1
    <3> HIDE DEF row
    <3> QED BY <1>2
  <2>2. DOMAIN s = 1 .. n_rb(c) /\ s = [i \in 1 .. n_rb(c) |-> s[i]]
    OBVIOUS
  <2> HIDE DEF s, row
  <2>3. \A i \in 1 .. n_rb(c) : Leads(q, Rest, s[i], Rest)
    BY <1>7, <2>1
  <2> QED BY <1>2, <2>2, <2>3, Loop
<1>9. RkReader(c) = Seed(c) \o When(resident(c), Block("w", group)) \o FlattenSeq(s)
  BY DEF RkReader, Flatten
<1> HIDE DEF s, group
<1> QED BY <1>4, <1>5, <1>8, <1>9, Joined3

-----------------------------------------------------------------------------
(***************************************************************************)
(* The kernels of one program, and the buffers its factory makes.          *)
(***************************************************************************)

\* Chunks of these sizes fit the buffers and divide them.
Fits(cap, size, take) ==
  \A b \in DOMAIN cap :
    /\ cap[b] \in Nat \ {0}
    /\ size[b] \in 1 .. cap[b] /\ cap[b] % size[b] = 0
    /\ take[b] \in 1 .. cap[b] /\ cap[b] % take[b] = 0

\* The kernels of p work with these chunks on their own buffers.
Works(p, size, take, q) ==
  \A k \in Kernels : /\ q[k].size = size /\ q[k].take = take
                     /\ q[k].fills \subseteq DOMAIN p.cap /\ q[k].empties \subseteq DOMAIN p.cap
                     /\ \E d : Leads(q[k], Idle, p[k], d)
Apart(q) ==
  \A j, k \in Kernels : /\ q[j].fills \cap q[k].fills # {} => j = k
                        /\ q[j].empties \cap q[k].empties # {} => j = k

LEMMA LeadsDisciplined ==
  ASSUME NEW p, NEW size, NEW take, Fits(p.cap, size, take), NEW q, Works(p, size, take, q), Apart(q)
  PROVE  Disciplined(p)
<1> DEFINE cap == p.cap
<1>1. ASSUME NEW k \in Kernels
      PROVE  /\ Orderly(p[k], cap)
             /\ \A b : /\ Handles(p[k], Filling, b) => b \in q[k].fills
                       /\ Handles(p[k], Emptying, b) => b \in q[k].empties
                       /\ Grain(p[k], {"push", "gather", "emit"}, b, size[b])
                       /\ Grain(p[k], {"wait", "pop"}, b, take[b])
  <2>1. PICK d : Leads(q[k], Idle, p[k], d)
    BY DEF Works
  <2>2. /\ q[k].fills \subseteq DOMAIN cap /\ q[k].empties \subseteq DOMAIN cap
        /\ q[k].size = size /\ q[k].take = take
    BY DEF Works
  <2>3. \A b \in DOMAIN cap : q[k].size[b] \in 1 .. cap[b] /\ q[k].take[b] \in 1 .. cap[b]
    BY <2>2 DEF Fits
  <2> DEFINE r == q[k]
             s == p[k]
  <2> HIDE DEF r, s, cap
  <2>4. /\ Orderly(s, cap)
        /\ \A b : /\ Handles(s, Filling, b) => b \in r.fills
                  /\ Handles(s, Emptying, b) => b \in r.empties
                  /\ Grain(s, {"push", "gather", "emit"}, b, r.size[b])
                  /\ Grain(s, {"wait", "pop"}, b, r.take[b])
    BY <2>1, <2>2, <2>3, LeadsOrderly DEF r, s
  <2> QED BY <2>2, <2>4 DEF r, s
<1>2. ASSUME NEW b \in DOMAIN cap
      PROVE  /\ \A j, k \in Kernels :
                  /\ Handles(p[j], Filling, b) /\ Handles(p[k], Filling, b) => j = k
                  /\ Handles(p[j], Emptying, b) /\ Handles(p[k], Emptying, b) => j = k
             /\ \E g \in 1 .. cap[b] :
                  /\ cap[b] % g = 0
                  /\ \A k \in Kernels : Grain(p[k], {"push", "gather", "emit"}, b, g)
             /\ \E g \in 1 .. cap[b] :
                  /\ cap[b] % g = 0
                  /\ \A k \in Kernels : Grain(p[k], {"wait", "pop"}, b, g)
  <2>1. ASSUME NEW j \in Kernels, NEW k \in Kernels
        PROVE  /\ Handles(p[j], Filling, b) /\ Handles(p[k], Filling, b) => j = k
               /\ Handles(p[j], Emptying, b) /\ Handles(p[k], Emptying, b) => j = k
    <3>1. /\ Handles(p[j], Filling, b) /\ Handles(p[k], Filling, b) => b \in q[j].fills \cap q[k].fills
          /\ Handles(p[j], Emptying, b) /\ Handles(p[k], Emptying, b) => b \in q[j].empties \cap q[k].empties
      BY <1>1
    <3> QED BY <3>1 DEF Apart
  <2>2. /\ size[b] \in 1 .. cap[b] /\ cap[b] % size[b] = 0
        /\ take[b] \in 1 .. cap[b] /\ cap[b] % take[b] = 0
    BY DEF Fits
  <2> QED BY <1>1, <2>1, <2>2
<1>3. \A b \in DOMAIN cap : cap[b] \in Nat \ {0}
  BY DEF Fits
<1> QED BY <1>1, <1>2, <1>3 DEF Disciplined

\* The three kernels' buffers, with the chunks of the whole program.
Role(F, E, size, take) == [fills |-> F, empties |-> E, size |-> size, take |-> take]

LEMMA RolesDisciplined ==
  ASSUME NEW c, ctiles(c) \in Nat, n_rb(c) \in Nat, NEW p, p.writer = Writer(c),
         NEW size, NEW take, Fits(p.cap, size, take), take["out"] = 1, NEW R, NEW Z, NEW C, NEW D,
         R \cup C \subseteq DOMAIN p.cap, Z \cup D \cup {"out"} \subseteq DOMAIN p.cap,
         R \cap C = {}, Z \cap D = {}, "out" \notin Z \cup D,
         Leads(Role(R, Z, size, take), Rest, p.reader, Rest),
         Leads(Role(C, D, size, take), Seen({}), p.compute, Seen({}))
  PROVE  Disciplined(p)
<1> DEFINE W == Role({}, {"out"}, size, take)
           q == [k \in Kernels |-> IF k = "reader" THEN Role(R, Z, size, take)
                                   ELSE IF k = "compute" THEN Role(C, D, size, take) ELSE W]
<1>1. /\ Kernels = {"reader", "compute", "writer"}
      /\ q["reader"] = Role(R, Z, size, take) /\ q["compute"] = Role(C, D, size, take) /\ q["writer"] = W
  BY DEF Kernels
<1> HIDE DEF q
<1>2. Leads(W, Seen({}), Writer(c), Seen({}))
  <2>1. "out" \in W.empties /\ W.take["out"] = 1
    BY DEF Role
  <2> HIDE DEF W
  <2> QED BY <2>1, WriterLeads
<1>3. Rest = Idle /\ Seen({}) = Idle
  BY DEF Rest, Reading, Seen, Idle
<1>4. \A k \in Kernels : \E d : Leads(q[k], Idle, p[k], d)
  <2> HIDE DEF W
  <2> QED BY <1>1, <1>2, <1>3
<1>5. \A k \in Kernels : q[k].size = size /\ q[k].take = take
  BY <1>1 DEF Role
<1>6. \A k \in Kernels : q[k].fills \subseteq DOMAIN p.cap /\ q[k].empties \subseteq DOMAIN p.cap
  BY <1>1 DEF Role
<1>7. Apart(q)
  BY <1>1 DEF Apart, Role
<1>8. Works(p, size, take, q)
  BY <1>4, <1>5, <1>6 DEF Works
<1> QED BY <1>7, <1>8, LeadsDisciplined

\* The chunks divide their buffers.
LEMMA Whole ==
  ASSUME NEW n \in Nat \ {0}
  PROVE  /\ n % n = 0 /\ n % 1 = 0 /\ (2 * n) % n = 0 /\ (2 * n) % 1 = 0 /\ 2 * n \in Nat \ {0}
         /\ 1 <= n /\ n <= 2 * n
<1>1. n = 1 * n /\ 2 * n = 2 * n /\ 2 * n \in Int
  OBVIOUS
<1>2. n % n = 0 /\ (2 * n) % n = 0
  BY <1>1, Multiple
<1> QED BY <1>2

\* The sizes of chunks: n on S, else one.
Chunks(cap, S, n) == [b \in DOMAIN cap |-> IF b \in S THEN n ELSE 1]

\* The norms' programs, form by form.
LEMMA GlobalDisciplined ==
  ASSUME NEW c, NormCall(c), global(c)
  PROVE  Disciplined(NormProgram(c))
<1> DEFINE n == ctiles(c)
           p == NormProgram(c)
           cap == Capacity(c)
           rows == {"x", "gamma", "beta", "out", "sq", "xmm", "norm", "tmp"}
           ones == Singles \cup {"mean", "var", "rstd"}
           size == Chunks(cap, RowBuffers, n)
           take == Chunks(cap, RowBuffers \ {"out"}, n)
           R == {"x", "gamma", "beta"}
           Z == {"zero"}
           C == {"zero", "eps", "scaler", "mean", "xmm", "sq", "var", "rstd", "norm", "out"}
           D == {"eps", "scaler", "x", "gamma", "beta", "mean", "xmm", "sq", "var", "rstd", "norm"}
           reader == Role(R, Z, size, take)
           compute == Role(C, D, size, take)
<1>1. n \in Nat \ {0} /\ n_rb(c) \in Nat
  BY RowFacts DEF NormCall
<1>2. c.mode \in {"l2", "rms", "layer"} /\ c.mode # "mul_l2" /\ ~wide(c)
  BY DEF NormCall, global, wide
<1>3. DOMAIN cap = rows \cup ones /\ \A b \in rows \cup ones : cap[b] = IF b \in rows THEN n ELSE 1
  BY DEF Capacity, Along, Sizes
<1>4. /\ p.cap = cap /\ p.reader = GlobalReader(c) /\ p.compute = GlobalCompute(c) /\ p.writer = Writer(c)
  BY <1>2 DEF NormProgram
<1> HIDE DEF n, cap, p
<1>5. Fits(cap, size, take) /\ take["out"] = 1
  BY <1>1, <1>3, Whole DEF Fits, Chunks, RowBuffers, Singles
<1>6. /\ R \cup C \subseteq DOMAIN cap /\ Z \cup D \cup {"out"} \subseteq DOMAIN cap
      /\ R \cap C = {} /\ Z \cap D = {} /\ "out" \notin Z \cup D
  BY <1>3 DEF Singles
<1>7. Resident(reader, n) /\ Resident(compute, n)
  BY <1>6 DEF Role, Resident, Grained, Chunks
<1>8. /\ reader.fills = R /\ reader.empties = Z /\ compute.fills = C /\ compute.empties = D
  BY DEF Role
<1> HIDE DEF reader, compute, size, take
<1>9. Leads(reader, Rest, GlobalReader(c), Rest)
  BY <1>7, <1>8, GlobalReaderLeads DEF n
<1>10. Leads(compute, Seen({}), GlobalCompute(c), Seen({}))
  BY <1>2, <1>7, <1>8, GlobalComputeLeads DEF n
<1> HIDE DEF R, Z, C, D
<1>11. Disciplined(p)
  BY <1>1, <1>4, <1>5, <1>6, <1>9, <1>10, RolesDisciplined DEF n, reader, compute
<1> QED BY <1>11 DEF p

LEMMA NarrowDisciplined ==
  ASSUME NEW c, NormCall(c), c.mode # "mul_l2", ~global(c), ~wide(c)
  PROVE  Disciplined(NormProgram(c))
<1> DEFINE n == ctiles(c)
           p == NormProgram(c)
           cap == Capacity(c)
           twice == {"x", "out"}
           once == {"gamma", "beta", "sq", "xmm", "norm", "tmp"}
           all == twice \cup once \cup Singles \cup Stats
           size == Chunks(cap, RowBuffers, n)
           take == Chunks(cap, RowBuffers \ {"out"}, n)
           R == {"x", "gamma", "beta"}
           Z == {"zero"}
           C == {"zero", "eps", "scaler", "mean", "xmm", "sq", "msq", "var", "rstd", "norm", "tmp", "out"}
           D == {"eps", "scaler", "x", "gamma", "beta", "mean", "xmm", "sq", "msq", "var", "rstd", "norm", "tmp"}
           reader == Role(R, Z, size, take)
           compute == Role(C, D, size, take)
<1>1. n \in Nat \ {0} /\ n_rb(c) \in Nat
  BY RowFacts DEF NormCall
<1>2. c.mode \in {"l2", "rms", "layer"}
  BY DEF NormCall
<1>3. /\ DOMAIN cap = all
      /\ \A b \in all : cap[b] = IF b \in twice THEN 2 * n ELSE IF b \in once THEN n
                                  ELSE IF b \in Singles THEN 1 ELSE 2
  BY <1>2 DEF Capacity, Along, Sizes, Twice
<1>4. /\ p.cap = cap /\ p.reader = NarrowReader(c) /\ p.compute = NarrowCompute(c) /\ p.writer = Writer(c)
  BY <1>2 DEF NormProgram
<1> HIDE DEF n, cap, p
<1>5. Fits(cap, size, take) /\ take["out"] = 1
  BY <1>1, <1>3, Whole DEF Fits, Chunks, RowBuffers, Singles, Stats
<1>6. /\ R \cup C \subseteq DOMAIN cap /\ Z \cup D \cup {"out"} \subseteq DOMAIN cap
      /\ R \cap C = {} /\ Z \cap D = {} /\ "out" \notin Z \cup D
  BY <1>3 DEF Singles, Stats
<1>7. Resident(reader, n) /\ Resident(compute, n)
  BY <1>6 DEF Role, Resident, Grained, Chunks
<1>8. /\ reader.fills = R /\ reader.empties = Z /\ compute.fills = C /\ compute.empties = D
  BY DEF Role
<1> HIDE DEF reader, compute, size, take
<1>9. Leads(reader, Rest, NarrowReader(c), Rest)
  BY <1>2, <1>7, <1>8, NarrowReaderLeads DEF n
<1>10. Leads(compute, Seen({}), NarrowCompute(c), Seen({}))
  BY <1>1, <1>2, <1>7, <1>8, NarrowComputeLeads DEF n
<1> HIDE DEF R, Z, C, D
<1>11. Disciplined(p)
  BY <1>1, <1>4, <1>5, <1>6, <1>9, <1>10, RolesDisciplined DEF n, reader, compute
<1> QED BY <1>11 DEF p

LEMMA WideDisciplined ==
  ASSUME NEW c, NormCall(c), wide(c)
  PROVE  Disciplined(NormProgram(c))
<1> DEFINE n == ctiles(c)
           p == NormProgram(c)
           cap == Capacity(c)
           rows == {"x", "sq"}
           streams == {"gamma", "beta", "out", "xmm", "norm", "tmp"}
           all == rows \cup streams \cup Singles \cup Stats
           size == Chunks(cap, {"x"}, n)
           take == Chunks(cap, {"x", "sq"}, n)
           R == {"x", "gamma", "beta", "scaler", "eps"}
           Z == {"zero"}
           C == {"zero", "sq", "mean", "msq", "m2", "var", "rstd", "xmm", "norm", "tmp", "out"}
           D == {"scaler", "eps", "x", "sq", "mean", "msq", "m2", "var", "rstd", "xmm", "norm", "gamma", "beta",
                  "tmp"}
           reader == Role(R, Z, size, take)
           compute == Role(C, D, size, take)
<1>1. n \in Nat \ {0} /\ n_rb(c) \in Nat
  BY RowFacts DEF NormCall
<1>2. c.mode # "mul_l2" /\ ~global(c)
  BY DEF wide
<1>3. /\ DOMAIN cap = all
      /\ \A b \in all : cap[b] = IF b \in rows THEN n ELSE IF b \in streams THEN STREAM
                                  ELSE IF b \in Singles THEN 1 ELSE 2
  BY <1>2 DEF Capacity, Along, Sizes, Twice
<1>4. /\ p.cap = cap /\ p.reader = WideReader(c) /\ p.compute = WideCompute(c) /\ p.writer = Writer(c)
  BY <1>2 DEF NormProgram
<1> HIDE DEF n, cap, p
<1>5. Fits(cap, size, take) /\ take["out"] = 1
  BY <1>1, <1>3, Whole, NormAssumption DEF Fits, Chunks, Singles, Stats
<1>6. /\ R \cup C \subseteq DOMAIN cap /\ Z \cup D \cup {"out"} \subseteq DOMAIN cap
      /\ R \cap C = {} /\ Z \cap D = {} /\ "out" \notin Z \cup D
  BY <1>3 DEF Singles, Stats
<1>7. Streams(reader, n) /\ Streams(compute, n)
  BY <1>6 DEF Role, Streams, Grained, Chunks
<1>8. /\ reader.fills = R /\ reader.empties = Z /\ compute.fills = C /\ compute.empties = D
  BY DEF Role
<1> HIDE DEF reader, compute, size, take
<1>9. Leads(reader, Rest, WideReader(c), Rest)
  BY <1>2, <1>7, <1>8, WideReaderLeads DEF n
<1>10. Leads(compute, Seen({}), WideCompute(c), Seen({}))
  BY <1>1, <1>2, <1>7, <1>8, WideComputeLeads DEF n
<1> HIDE DEF R, Z, C, D
<1>11. Disciplined(p)
  BY <1>1, <1>4, <1>5, <1>6, <1>9, <1>10, RolesDisciplined DEF n, reader, compute
<1> QED BY <1>11 DEF p

LEMMA MulDisciplined ==
  ASSUME NEW c, NormCall(c), c.mode = "mul_l2"
  PROVE  Disciplined(NormProgram(c))
<1> DEFINE n == ctiles(c)
           p == NormProgram(c)
           cap == Capacity(c)
           twice == {"x", "y", "out"}
           once == {"sq", "prod"}
           all == twice \cup once \cup Singles \cup Stats
           size == Chunks(cap, RowBuffers, n)
           take == Chunks(cap, RowBuffers \ {"out"}, n)
           R == {"x", "y"}
           Z == {"zero"}
           C == {"zero", "eps", "scaler", "prod", "sq", "msq", "rstd", "out"}
           D == {"eps", "scaler", "x", "y", "prod", "sq", "msq", "rstd"}
           reader == Role(R, Z, size, take)
           compute == Role(C, D, size, take)
<1>1. n \in Nat \ {0} /\ n_rb(c) \in Nat
  BY RowFacts DEF NormCall
<1>2. ~global(c) /\ ~wide(c)
  BY DEF global, wide
<1>3. /\ DOMAIN cap = all
      /\ \A b \in all : cap[b] = IF b \in twice THEN 2 * n ELSE IF b \in once THEN n
                                  ELSE IF b \in Singles THEN 1 ELSE 2
  BY <1>2 DEF Capacity, Along, Sizes, Twice
<1>4. /\ p.cap = cap /\ p.reader = MulReader(c) /\ p.compute = MulCompute(c) /\ p.writer = Writer(c)
  BY <1>2 DEF NormProgram
<1> HIDE DEF n, cap, p
<1>5. Fits(cap, size, take) /\ take["out"] = 1
  BY <1>1, <1>3, Whole DEF Fits, Chunks, RowBuffers, Singles, Stats
<1>6. /\ R \cup C \subseteq DOMAIN cap /\ Z \cup D \cup {"out"} \subseteq DOMAIN cap
      /\ R \cap C = {} /\ Z \cap D = {} /\ "out" \notin Z \cup D
  BY <1>3 DEF Singles, Stats
<1>7. Resident(reader, n) /\ Resident(compute, n)
  BY <1>6 DEF Role, Resident, Grained, Chunks
<1>8. /\ reader.fills = R /\ reader.empties = Z /\ compute.fills = C /\ compute.empties = D
  BY DEF Role
<1> HIDE DEF reader, compute, size, take
<1>9. Leads(reader, Rest, MulReader(c), Rest)
  BY <1>2, <1>7, <1>8, MulReaderLeads DEF n
<1>10. Leads(compute, Seen({}), MulCompute(c), Seen({}))
  BY <1>1, <1>2, <1>7, <1>8, MulComputeLeads DEF n
<1> HIDE DEF R, Z, C, D
<1>11. Disciplined(p)
  BY <1>1, <1>4, <1>5, <1>6, <1>9, <1>10, RolesDisciplined DEF n, reader, compute
<1> QED BY <1>11 DEF p

\* Every program the host builds for a norm.
LEMMA NormDisciplined ==
  ASSUME NEW c, NormCall(c)
  PROVE  Disciplined(NormProgram(c))
BY GlobalDisciplined, NarrowDisciplined, WideDisciplined, MulDisciplined

\* A group of more than two rows' tiles is a whole number of rows; one that is
\* resident in the double-buffered row is one row or two.
LEMMA GroupFits ==
  ASSUME NEW n \in Nat \ {0}, NEW g \in Nat \ {0}
  PROVE  /\ g * n \in Nat \ {0} /\ n <= g * n /\ (g * n) % n = 0
         /\ g * n <= 2 * n => (2 * n) % (g * n) = 0
<1>1. g * n \in Nat \ {0}
  OBVIOUS
<1>2. n <= g * n
  <2>1. g * n = (g - 1) * n + n /\ g - 1 \in Nat
    OBVIOUS
  <2>2. (g - 1) * n \in Nat
    BY <2>1
  <2> QED BY <2>1, <2>2
<1>3. (g * n) % n = 0
  BY <1>1, Multiple
<1>4. ASSUME g * n <= 2 * n PROVE (2 * n) % (g * n) = 0
  <2>1. g <= 2
    <3> SUFFICES ASSUME g >= 3 PROVE FALSE
      OBVIOUS
    <3>1. g * n = (g - 3) * n + 3 * n /\ g - 3 \in Nat
      OBVIOUS
    <3>2. (g - 3) * n \in Nat
      BY <3>1
    <3> QED BY <1>4, <3>1, <3>2
  <2>2. CASE g = 1
    BY <2>2, Whole
  <2>3. CASE g = 2
    <3>1. g * n = 2 * n /\ 2 * n \in Nat \ {0}
      BY <2>3
    <3> QED BY <3>1, Whole
  <2> QED BY <2>1, <2>2, <2>3
<1> QED BY <1>1, <1>2, <1>3, <1>4

\* Every program it builds for the rk update.
LEMMA RkDisciplined ==
  ASSUME NEW c, RkCall(c)
  PROVE  Disciplined(RkProgram(c))
<1> DEFINE n == ctiles(c)
           g == rbs_per_group(c)
           p == RkProgram(c)
           cap == RkCapacity(c)
           twice == {"x", "k", "v", "cur", "out"}
           ones == {"scaler", "zero"}
           all == twice \cup {"w", "pw", "ss"} \cup ones
           size == [b \in all |-> RkChunk(c, b)]
           take == [b \in all |-> IF b = "out" THEN 1 ELSE RkChunk(c, b)]
           R == {"x", "k", "w", "v", "cur"}
           Z == {"zero"}
           C == {"zero", "scaler", "pw", "ss", "out"}
           D == {"scaler", "x", "k", "w", "v", "cur", "pw", "ss"}
           reader == Role(R, Z, size, take)
           compute == Role(C, D, size, take)
<1>1. n \in Nat \ {0} /\ n_rb(c) \in Nat /\ g \in Nat \ {0}
  BY RowFacts DEF RkCall, RowsOf, rbs_per_group
<1>2. resident(c) => bcast(c)
  BY DEF resident
<1>3. /\ DOMAIN cap = all
      /\ \A b \in twice : cap[b] = 2 * n
      /\ cap["w"] = IF bcast(c) /\ g * n > 2 * n THEN g * n ELSE 2 * n
      /\ cap["pw"] = n /\ cap["ss"] = 2 /\ cap["scaler"] = 1 /\ cap["zero"] = 1
  BY DEF RkCapacity, Along, Sizes, Twice
<1>4. /\ p.cap = cap /\ p.reader = RkReader(c) /\ p.compute = RkCompute(c) /\ p.writer = Writer(c)
  BY DEF RkProgram
<1>5. /\ \A b \in all \ {"w"} : RkChunk(c, b) = IF b \in twice \cup {"pw"} THEN n ELSE 1
      /\ RkChunk(c, "w") = IF resident(c) THEN g * n ELSE n
  BY DEF RkChunk, RkRows
<1> HIDE DEF n, cap, p, g
<1>6. Fits(cap, size, take) /\ take["out"] = 1
  <2>1. \A b \in all : size[b] = RkChunk(c, b) /\ take[b] = IF b = "out" THEN 1 ELSE RkChunk(c, b)
    OBVIOUS
  <2> HIDE DEF size, take
  <2>2. ASSUME NEW b \in all \ {"w"}
        PROVE  /\ cap[b] \in Nat \ {0}
               /\ size[b] \in 1 .. cap[b] /\ cap[b] % size[b] = 0
               /\ take[b] \in 1 .. cap[b] /\ cap[b] % take[b] = 0
    BY <1>1, <1>3, <1>5, <2>1, Whole
  <2>3. /\ cap["w"] \in Nat \ {0}
        /\ size["w"] \in 1 .. cap["w"] /\ cap["w"] % size["w"] = 0 /\ take["w"] = size["w"]
    <3>1. /\ g * n \in Nat \ {0} /\ n <= g * n /\ (g * n) % n = 0 /\ (g * n) % (g * n) = 0
          /\ (g * n <= 2 * n => (2 * n) % (g * n) = 0)
          /\ 2 * n \in Nat \ {0} /\ n <= 2 * n /\ (2 * n) % n = 0
      BY <1>1, GroupFits, Whole
    <3>2. size["w"] = (IF resident(c) THEN g * n ELSE n) /\ take["w"] = size["w"]
      BY <1>5, <2>1
    <3> DEFINE gn == g * n
               nn == 2 * n
    <3>3. /\ gn \in Nat \ {0} /\ nn \in Nat \ {0} /\ n <= gn /\ n <= nn
          /\ gn % n = 0 /\ gn % gn = 0 /\ nn % n = 0 /\ (gn <= nn => nn % gn = 0)
          /\ size["w"] = (IF resident(c) THEN gn ELSE n)
          /\ cap["w"] = (IF bcast(c) /\ gn > nn THEN gn ELSE nn)
      BY <1>3, <3>1, <3>2
    <3> HIDE DEF gn, nn
    <3>4. n \in Nat \ {0}
      BY <1>1
    <3> QED BY <1>2, <3>2, <3>3, <3>4
  <2>4. take["out"] = 1
    BY <2>1
  <2> QED BY <1>3, <2>2, <2>3, <2>4 DEF Fits
<1>7. /\ R \cup C \subseteq DOMAIN cap /\ Z \cup D \cup {"out"} \subseteq DOMAIN cap
      /\ R \cap C = {} /\ Z \cap D = {} /\ "out" \notin Z \cup D
  BY <1>3
<1>8. RkGrained(reader, c) /\ RkGrained(compute, c)
  BY DEF Role, RkGrained
<1>9. /\ reader.fills = R /\ reader.empties = Z /\ compute.fills = C /\ compute.empties = D
  BY DEF Role
<1> HIDE DEF reader, compute, size, take
<1>10. Leads(reader, Rest, RkReader(c), Rest)
  BY <1>8, <1>9, RkReaderLeads
<1>11. Leads(compute, Seen({}), RkCompute(c), Seen({}))
  BY <1>1, <1>8, <1>9, RkComputeLeads
<1> HIDE DEF R, Z, C, D
<1>12. Disciplined(p)
  BY <1>1, <1>4, <1>6, <1>7, <1>10, <1>11, RolesDisciplined DEF n, reader, compute
<1> QED BY <1>12 DEF p

-----------------------------------------------------------------------------
(***************************************************************************)
(* The core is loaded with nothing but what the host builds for calls that *)
(* pass its checks: rows of any number and length, on any of any number of *)
(* cores.                                                                  *)
(***************************************************************************)
ReductionsLoaded ==
  \A i \in DOMAIN loaded :
    \/ \E c : NormCall(c) /\ loaded[i] = NormProgram(c)
    \/ \E c : RkCall(c) /\ loaded[i] = RkProgram(c)

\* Every norm, mul_l2_norm and rk program keeps the discipline: the reader, the
\* compute and the writer kernel of view_norm_*, view_mull2_* and view_rk_*
\* agree with the buffers their factory makes, in each of the forms.
THEOREM ReductionsDisciplined == ReductionsLoaded => ProgramsDisciplined
<1> SUFFICES ASSUME ReductionsLoaded, NEW i \in DOMAIN loaded PROVE Disciplined(loaded[i])
  BY DEF ProgramsDisciplined
<1>1. CASE \E c : NormCall(c) /\ loaded[i] = NormProgram(c)
  BY <1>1, NormDisciplined
<1>2. CASE \E c : RkCall(c) /\ loaded[i] = RkProgram(c)
  BY <1>2, RkDisciplined
<1> QED BY <1>1, <1>2 DEF ReductionsLoaded

\* The program counters stay in their kernels, and no buffer ever holds more
\* pages than the factory gave it.
THEOREM ReductionsTypes == ReductionsLoaded /\ Spec => []TypeOK
BY ReductionsDisciplined, DisciplinedTypes

\* No chunk a kernel addresses wraps its ring, where the hardware would run
\* past the buffer's end.
THEOREM ReductionsChunks == ReductionsLoaded /\ Spec => []ChunksWhole
BY ReductionsDisciplined, DisciplinedChunks

\* No page is published while a read into it is in flight: every push is
\* behind the barrier of its gathers.
THEOREM ReductionsLanded == ReductionsLoaded /\ Spec => []PublishedLanded
BY ReductionsDisciplined, DisciplinedLanded

\* What is published stays as it is until it is popped: no producer writes
\* into a page its consumer may still read.
THEOREM ReductionsStable == ReductionsLoaded /\ Spec => PublishedStable
BY ReductionsDisciplined, DisciplinedStable
=============================================================================
