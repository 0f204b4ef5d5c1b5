---------------------------- MODULE RowIndex_proofs ----------------------------
(***************************************************************************)
(* get_rows and set_rows are correct for any number of cores, tiles, chunk *)
(* size, ring depth that is a multiple of it, and any indices: proofs      *)
(* about RowIndex.                                                         *)
(***************************************************************************)
EXTENDS RowIndex, TLAPS

-----------------------------------------------------------------------------
\* Integer division by a positive divisor, and rings of pages.
LEMMA DivModFloor ==
  ASSUME NEW a \in Int, NEW b \in Nat \ {0}
  PROVE  /\ a \div b \in Int /\ a % b \in Int
         /\ a = ((a \div b) * b) + (a % b)
         /\ 0 <= a % b /\ a % b < b
OBVIOUS

LEMMA ProductNat ==
  ASSUME NEW a \in Int, NEW b \in Int, a >= 0, b >= 0
  PROVE  a * b \in Int /\ a * b >= 0
OBVIOUS

LEMMA DivModUnique ==
  ASSUME NEW k \in Int, NEW b \in Nat \ {0}, NEW q \in Int, NEW s \in Int,
         k = q * b + s, 0 <= s, s < b
  PROVE  q = k \div b /\ s = k % b
OBVIOUS

\* Positions less than a lap of a ring apart have different pages.
LEMMA LapDistinct ==
  ASSUME NEW b \in Nat \ {0}, NEW i \in Nat, NEW j \in Nat, i < j, j - i < b
  PROVE  i % b # j % b
<1> DEFINE p == i \div b
           q == j \div b
           r == i % b
<1> SUFFICES ASSUME j % b = r PROVE FALSE
  OBVIOUS
<1>1. p \in Int /\ q \in Int /\ r \in Int /\ i = p * b + r /\ j = q * b + r
  BY DivModFloor
<1> HIDE DEF p, q, r
<1>2. (q - p) * b = j - i /\ q - p \in Int
  BY <1>1
<1>3. (q - p) * b < b /\ (q - p) * b > 0
  BY <1>2
<1>4. \A d \in Int : d >= 1 => d * b >= b
  OBVIOUS
<1>5. \A d \in Int : d <= 0 => d * b <= 0
  OBVIOUS
<1> QED BY <1>2, <1>3, <1>4, <1>5

-----------------------------------------------------------------------------
LEMMA Constants ==
  /\ K \in Nat \ {0} /\ IO_DEPTH \in Nat \ {0} /\ IO_DEPTH % K = 0
  /\ \A k \in Cores : T0[k] \in Nat /\ Count[k] \in Nat
BY RowIndexAssumption

-----------------------------------------------------------------------------
\* Positions less than a lap apart have different pages.
LEMMA RingDistinct ==
  ASSUME NEW i \in Nat, NEW j \in Nat, i < j, j - i < IO_DEPTH
  PROVE  i % IO_DEPTH # j % IO_DEPTH
BY Constants, LapDistinct

\* A chunk that begins at a multiple of K does not wrap around the ring.
LEMMA ChunkFits ==
  ASSUME NEW i \in Nat, i % K = 0, NEW j \in 0 .. K - 1
  PROVE  (i % IO_DEPTH) + j \in 0 .. IO_DEPTH - 1 /\ (i + j) % IO_DEPTH = (i % IO_DEPTH) + j
<1> DEFINE a == i \div K
           b == IO_DEPTH \div K
           q == i \div IO_DEPTH
           r == i % IO_DEPTH
           c == a - b * q
<1>1. a \in Int /\ i = a * K
  BY Constants, DivModFloor
<1>2. b \in Int /\ IO_DEPTH = b * K
  BY Constants, DivModFloor
<1>3. q \in Int /\ r \in 0 .. IO_DEPTH - 1 /\ i = q * IO_DEPTH + r
  BY Constants, DivModFloor
<1> HIDE DEF a, b, q, r
<1>4. c \in Int /\ r = c * K
  <2>1. q * IO_DEPTH = (b * q) * K
    BY <1>2, <1>3, Constants
  <2>2. c * K = a * K - (b * q) * K
    BY <1>1, <1>2, <1>3, Constants
  <2> QED BY <1>1, <1>2, <1>3, <2>1, <2>2
<1> HIDE DEF c
<1>5. (b - c) * K = IO_DEPTH - r
  BY <1>2, <1>4, Constants
<1>6. b - c >= 1
  <2> SUFFICES ASSUME b - c <= 0 PROVE FALSE
    BY <1>2, <1>4
  <2>1. (c - b) * K >= 0
    BY <1>2, <1>4, Constants, ProductNat, c - b \in Nat
  <2>2. (c - b) * K = r - IO_DEPTH
    BY <1>2, <1>4, Constants
  <2> QED BY <1>3, <2>1, <2>2, Constants
<1>7. IO_DEPTH - r >= K
  <2>1. (b - c - 1) * K >= 0
    BY <1>2, <1>4, <1>6, Constants, ProductNat, b - c - 1 \in Nat
  <2>2. (b - c - 1) * K = IO_DEPTH - r - K
    BY <1>2, <1>4, Constants
  <2> QED BY <1>3, <2>1, <2>2, Constants
<1>8. r + j \in 0 .. IO_DEPTH - 1
  BY <1>3, <1>7, Constants
<1>9. r + j = (i + j) % IO_DEPTH
  BY <1>3, <1>8, Constants, DivModUnique, i + j = q * IO_DEPTH + (r + j)
<1> QED BY <1>8, <1>9 DEF r

LEMMA AddsChunk ==
  ASSUME NEW i \in Nat, i % K = 0
  PROVE  (i + K) % K = 0
<1>1. i \div K \in Int /\ i = (i \div K) * K
  BY Constants, DivModFloor
<1> DEFINE a == i \div K
<1> HIDE DEF a
<1>2. a \in Int /\ i = a * K
  BY <1>1 DEF a
<1>3. i + K = (a + 1) * K + 0
  BY <1>2, Constants
<1> QED BY <1>2, <1>3, Constants, DivModUnique, 0 \in 0 .. K - 1

\* The next chunk of a core's share.
LEMMA ChunkBounds ==
  ASSUME NEW k \in Cores, NEW d \in 0 .. Count[k]
  PROVE  /\ Chunk(k, d) \in 0 .. K /\ d + Chunk(k, d) <= Count[k]
         /\ Chunk(k, d) = K \/ d + Chunk(k, d) = Count[k]
         /\ d < Count[k] => Chunk(k, d) >= 1
         /\ d .. d + Chunk(k, d) - 1 \subseteq 0 .. Count[k] - 1
<1>1. /\ Chunk(k, d) \in 0 .. K /\ d + Chunk(k, d) <= Count[k]
      /\ Chunk(k, d) = K \/ d + Chunk(k, d) = Count[k]
      /\ d < Count[k] => Chunk(k, d) >= 1
  BY Constants DEF Chunk
<1> DEFINE c == Chunk(k, d)
<1>2. c \in Nat /\ d \in Nat /\ Count[k] \in Nat /\ d + c <= Count[k]
  BY <1>1, Constants
<1> HIDE DEF c
<1>3. d .. d + c - 1 \subseteq 0 .. Count[k] - 1
  BY <1>2
<1> QED BY <1>1, <1>3 DEF c

-----------------------------------------------------------------------------
(***************************************************************************)
(* The inductive invariant.  Chunks begin at multiples of K until the last *)
(* one (Aligned), which is why their pages do not wrap; a reader behind    *)
(* its reservation has what has landed in place (ReaderInv); the writer    *)
(* has in flight only tiles of its own chunk (WriterInv).                  *)
(***************************************************************************)
JobInv ==
  /\ shape \in Shapes /\ idx \in Selections
  /\ T = tiles_per_row(shape) /\ T # 0

Aligned(k) ==
  /\ pushed[k] = Count[k] \/ pushed[k] % K = 0
  /\ popped[k] = Count[k] \/ popped[k] % K = 0

Fetched(k) == pushed[k] .. pushed[k] + Chunk(k, pushed[k]) - 1
Drained(k) == popped[k] .. popped[k] + Chunk(k, popped[k]) - 1

ReaderInv(k) ==
  /\ rpc[k] # "barrier" => reads[k] = {}
  /\ rpc[k] = "barrier" =>
       /\ pushed[k] < Count[k] /\ pushed[k] - popped[k] + Chunk(k, pushed[k]) <= IO_DEPTH
       /\ reads[k] \subseteq Fetched(k)
       /\ \A i \in Fetched(k) \ reads[k] : cb_io[k][i % IO_DEPTH] = SourcePage(T0[k] + i)

WriterInv(k) ==
  /\ wpc[k] # "barrier" => writes[k] = {}
  /\ wpc[k] = "barrier" =>
       /\ popped[k] < Count[k] /\ popped[k] + Chunk(k, popped[k]) <= pushed[k]
       /\ writes[k] \subseteq {i \in Drained(k) : ~Skipped(T0[k] + i)}

RingInv(k) ==
  \A i \in popped[k] .. pushed[k] - 1 : cb_io[k][i % IO_DEPTH] = SourcePage(T0[k] + i)

CoreInv(k) == Aligned(k) /\ ReaderInv(k) /\ WriterInv(k) /\ RingInv(k)

CopyInv == TypeOK /\ JobInv /\ \A k \in Cores : CoreInv(k)

\* The call: a positive number of tiles per row, and an index for every row
\* a core handles.
LEMMA CallTyped ==
  ASSUME JobInv
  PROVE  /\ T \in Nat \ {0} /\ M \in Nat /\ R \in Int
         /\ idx \in [0 .. M - 1 -> Int]
         /\ UNION {T0[k] .. T0[k] + Count[k] - 1 : k \in Cores} = 0 .. M * T - 1
<1>1. T \in Nat \ {0}
  <2>1. shape[1] \in Int /\ num_pages(shape) \in Nat
    BY CallAssumption DEF JobInv
  <2> DEFINE n == num_pages(shape)
             r == shape[1]
  <2>2. T = IF r > 0 /\ (n % r) = 0 THEN n \div r ELSE 0
    BY DEF JobInv, tiles_per_row
  <2> HIDE DEF n, r
  <2>3. n \in Nat /\ r \in Int /\ T # 0
    BY <2>1 DEF n, r, JobInv
  <2>4. r > 0
    BY <2>2, <2>3
  <2>5. n \div r \in Nat
    BY <2>3, <2>4
  <2> QED BY <2>2, <2>3, <2>4, <2>5
<1>2. M \in Nat /\ idx \in [0 .. M - 1 -> Int] /\ R \in Int
  BY CallAssumption DEF JobInv, M, R
<1>3. UNION {T0[k] .. T0[k] + Count[k] - 1 : k \in Cores} = 0 .. M * T - 1
  BY RowIndexAssumption DEF JobInv, M
<1> QED BY <1>1, <1>2, <1>3

\* A tile of a core's share belongs to a selected row.
LEMMA OrdinalSplit ==
  ASSUME JobInv, NEW k \in Cores, NEW i \in 0 .. Count[k] - 1
  PROVE  /\ T0[k] + i \in Nat
         /\ (T0[k] + i) \div T \in 0 .. M - 1 /\ (T0[k] + i) % T \in 0 .. T - 1
         /\ T0[k] + i = ((T0[k] + i) \div T) * T + ((T0[k] + i) % T)
<1> DEFINE o == T0[k] + i
           q == o \div T
           s == o % T
<1>1. T \in Nat \ {0} /\ M \in Nat /\ o \in 0 .. M * T - 1
  <2>1. T0[k] \in Nat /\ Count[k] \in Nat
    BY Constants
  <2>2. o \in T0[k] .. T0[k] + Count[k] - 1
    BY <2>1
  <2>3. M * T \in Nat
    BY CallTyped, ProductNat
  <2> QED BY <2>2, <2>3, CallTyped
<1> HIDE DEF o
<1>2. q \in Int /\ s \in 0 .. T - 1 /\ o = q * T + s
  BY <1>1, DivModFloor, ProductNat
<1> HIDE DEF q, s
<1>3. q >= 0
  <2> SUFFICES ASSUME q <= -1 PROVE FALSE
    BY <1>2
  <2>1. (-1 - q) * T >= 0
    BY <1>1, <1>2, ProductNat, -1 - q \in Nat
  <2>2. (-1 - q) * T = -T - q * T
    BY <1>1, <1>2
  <2> QED BY <1>1, <1>2, <2>1, <2>2, ProductNat
<1>4. q < M
  <2> SUFFICES ASSUME q >= M PROVE FALSE
    BY <1>1, <1>2
  <2>1. (q - M) * T >= 0
    BY <1>1, <1>2, ProductNat, q - M \in Nat
  <2>2. (q - M) * T = q * T - M * T
    BY <1>1, <1>2
  <2> QED BY <1>1, <1>2, <2>1, <2>2, ProductNat
<1> QED BY <1>1, <1>2, <1>3, <1>4, ProductNat DEF o, q, s

LEMMA SourceTyped ==
  ASSUME JobInv, NEW k \in Cores, NEW i \in 0 .. Count[k] - 1
  PROVE  SourcePage(T0[k] + i) \in Int
<1> DEFINE o == T0[k] + i
<1>1. /\ o \in Nat /\ o \div T \in 0 .. M - 1 /\ o % T \in 0 .. T - 1
      /\ T \in Nat \ {0} /\ idx \in [0 .. M - 1 -> Int]
  BY CallTyped, OrdinalSplit
<1>2. idx[o \div T] \in Int
  BY <1>1
<1>3. (IF InBounds(o \div T) THEN idx[o \div T] ELSE 0) \in Int
  BY <1>2
<1> DEFINE u == IF InBounds(o \div T) THEN idx[o \div T] ELSE 0
           v == o % T
<1>4. SourcePage(o) = IF mode = "scatter" THEN o ELSE u * T + v
  BY DEF SourcePage
<1>5. u \in Int /\ v \in Int
  BY <1>1, <1>3
<1> HIDE DEF o, u, v
<1>6. u * T + v \in Int
  BY <1>1, <1>5
<1> QED BY <1>1, <1>4, <1>6 DEF o

THEOREM CopyInit == Init => CopyInv
<1> SUFFICES ASSUME Init PROVE CopyInv
  OBVIOUS
<1>1. JobInv
  BY DEF Init, JobInv
<1>2. TypeOK
  BY <1>1, Constants, CallTyped DEF Init, TypeOK
<1>3. ASSUME NEW k \in Cores PROVE CoreInv(k)
  <2>1. pushed[k] = 0 /\ popped[k] = 0 /\ 0 % K = 0
    BY <1>2, Constants DEF Init
  <2>2. Aligned(k)
    BY <2>1 DEF Aligned
  <2>3. ReaderInv(k) /\ WriterInv(k)
    BY DEF Init, ReaderInv, WriterInv
  <2>4. RingInv(k)
    BY <2>1 DEF RingInv
  <2> QED BY <2>2, <2>3, <2>4 DEF CoreInv
<1> QED BY <1>1, <1>2, <1>3 DEF CopyInv

-----------------------------------------------------------------------------
\* What a tile's source and destination are depends on the call only.
LEMMA CallStable ==
  ASSUME job' = job, NEW o
  PROVE  /\ SourcePage(o)' = SourcePage(o) /\ Skipped(o)' = Skipped(o)
         /\ (JobInv => JobInv')
BY DEF job, SourcePage, Skipped, InBounds, R, JobInv

\* A step of one core leaves another core's invariant alone.
LEMMA OtherCore ==
  ASSUME NEW j \in Cores, CoreInv(j), job' = job,
         rpc'[j] = rpc[j], pushed'[j] = pushed[j], reads'[j] = reads[j],
         wpc'[j] = wpc[j], popped'[j] = popped[j], writes'[j] = writes[j],
         cb_io'[j] = cb_io[j]
  PROVE  CoreInv(j)'
<1>1. Aligned(j)'
  BY DEF CoreInv, Aligned
<1>2. ReaderInv(j)'
  BY CallStable DEF CoreInv, ReaderInv, Fetched, Chunk
<1>3. WriterInv(j)'
  <2>1. Drained(j)' = Drained(j)
    BY DEF Drained, Chunk
  <2>2. \A i : Skipped(T0[j] + i)' = Skipped(T0[j] + i)
    BY CallStable
  <2> QED BY <2>1, <2>2 DEF CoreInv, WriterInv, Chunk
<1>4. RingInv(j)'
  BY CallStable DEF CoreInv, RingInv
<1> QED BY <1>1, <1>2, <1>3, <1>4 DEF CoreInv

\* What the steps of a core rely on.
LEMMA CoreFacts ==
  ASSUME CopyInv, NEW k \in Cores
  PROVE  /\ TypeOK /\ JobInv /\ CoreInv(k)
         /\ pushed[k] \in 0 .. Count[k] /\ popped[k] \in 0 .. pushed[k]
         /\ Count[k] \in Nat /\ pushed[k] - popped[k] <= IO_DEPTH
         /\ rpc \in [Cores -> {"start", "reserve", "barrier"}]
         /\ wpc \in [Cores -> {"start", "wait", "barrier"}]
         /\ pushed \in [Cores -> Nat] /\ popped \in [Cores -> Nat]
         /\ reads \in [Cores -> SUBSET Nat] /\ writes \in [Cores -> SUBSET Nat]
         /\ cb_io \in [Cores -> [0 .. IO_DEPTH - 1 -> Int \cup {Junk}]]
BY Constants DEF CopyInv, TypeOK

LEMMA LoadStep ==
  ASSUME CopyInv, NEW k \in Cores, LoadIndex(k)
  PROVE  CopyInv'
<1> USE DEF LoadIndex
<1>0. TypeOK /\ JobInv /\ job' = job
  BY CoreFacts
<1>1. TypeOK'
  BY <1>0 DEF TypeOK, job
<1>2. JobInv'
  BY <1>0, CallStable
<1>3. ASSUME NEW j \in Cores PROVE CoreInv(j)'
  <2>1. CASE j # k
    BY <1>0, <2>1, CoreFacts, OtherCore
  <2>2. CASE j = k
    <3>1. /\ pushed'[k] = pushed[k] /\ popped'[k] = popped[k]
          /\ reads'[k] = reads[k] /\ writes'[k] = writes[k] /\ cb_io' = cb_io
          /\ CoreInv(k)
          /\ \/ rpc'[k] = rpc[k] /\ wpc[k] = "start" /\ wpc'[k] = "wait"
             \/ wpc'[k] = wpc[k] /\ rpc[k] = "start" /\ rpc'[k] = "reserve"
      BY CoreFacts
    <3>2. ReaderInv(k)'
      BY <1>0, <3>1, CallStable DEF CoreInv, ReaderInv, Fetched, Chunk
    <3>3. WriterInv(k)'
      <4>1. Drained(k)' = Drained(k) /\ \A i : Skipped(T0[k] + i)' = Skipped(T0[k] + i)
        BY <1>0, <3>1, CallStable DEF Drained, Chunk
      <4> QED BY <3>1, <4>1 DEF CoreInv, WriterInv, Chunk
    <3>4. RingInv(k)' /\ Aligned(k)'
      BY <1>0, <3>1, CallStable DEF CoreInv, RingInv, Aligned
    <3> QED BY <2>2, <3>2, <3>3, <3>4 DEF CoreInv
  <2> QED BY <2>1, <2>2
<1> QED BY <1>1, <1>2, <1>3 DEF CopyInv

\* The reader reserves pages for a chunk: they are past the published ones.
LEMMA GatherStep ==
  ASSUME CopyInv, NEW k \in Cores, Gather(k)
  PROVE  CopyInv'
<1> USE DEF Gather, writer
<1> DEFINE F == Fetched(k)
<1>0. /\ TypeOK /\ JobInv /\ CoreInv(k) /\ job' = job
      /\ pushed[k] \in 0 .. Count[k] - 1
      /\ reads' = [reads EXCEPT ![k] = F] /\ rpc' = [rpc EXCEPT ![k] = "barrier"]
      /\ pushed[k] - popped[k] + Chunk(k, pushed[k]) <= IO_DEPTH
  BY CoreFacts DEF job, Fetched
<1>1. F \subseteq 0 .. Count[k] - 1 /\ F \in SUBSET Nat
  <2>1. F \subseteq 0 .. Count[k] - 1
    BY CoreFacts, ChunkBounds DEF Fetched
  <2> QED BY <2>1
<1> HIDE DEF F
<1>2. TypeOK'
  <2>1. reads' \in [Cores -> SUBSET Nat]
        /\ rpc' \in [Cores -> {"start", "reserve", "barrier"}]
    BY <1>0, <1>1, CoreFacts
  <2>2. ASSUME NEW j \in Cores PROVE reads'[j] \subseteq 0 .. Count[j] - 1
    BY <1>0, <1>1 DEF TypeOK
  <2> QED BY <1>0, <2>1, <2>2 DEF TypeOK, job
<1>3. JobInv'
  BY <1>0, CallStable
<1>4. ASSUME NEW j \in Cores PROVE CoreInv(j)'
  <2>0. rpc'[k] = "barrier" /\ reads'[k] = F
        /\ (j # k => rpc'[j] = rpc[j] /\ reads'[j] = reads[j])
    BY <1>0, CoreFacts
  <2>1. CASE j # k
    BY <1>0, <2>0, <2>1, CoreFacts, OtherCore
  <2>2. CASE j = k
    <3>1. ReaderInv(k)'
      <4>1. Fetched(k)' = F
        BY DEF Fetched, Chunk, F
      <4> QED BY <1>0, <2>0, <4>1 DEF ReaderInv, Chunk
    <3>2. WriterInv(k)'
      <4>1. Drained(k)' = Drained(k) /\ \A i : Skipped(T0[k] + i)' = Skipped(T0[k] + i)
        BY <1>0, CallStable DEF Drained, Chunk
      <4> QED BY <1>0, <4>1 DEF CoreInv, WriterInv, Chunk
    <3>3. RingInv(k)' /\ Aligned(k)'
      BY <1>0, CallStable DEF CoreInv, RingInv, Aligned
    <3> QED BY <2>2, <3>1, <3>2, <3>3 DEF CoreInv
  <2> QED BY <2>1, <2>2
<1> QED BY <1>2, <1>3, <1>4 DEF CopyInv

\* A read lands in a page that no published tile and no other read of the
\* chunk has, and fetches what the index selects.
LEMMA NocReadStep ==
  ASSUME CopyInv, NEW k \in Cores, NEW g, NocRead(k, g)
  PROVE  CopyInv'
<1> USE DEF NocRead, writer
<1>0. /\ TypeOK /\ JobInv /\ CoreInv(k) /\ job' = job /\ g \in reads[k]
      /\ pushed[k] \in 0 .. Count[k] /\ popped[k] \in 0 .. pushed[k] /\ Count[k] \in Nat
      /\ Chunk(k, pushed[k]) \in 0 .. K
  BY CoreFacts, ChunkBounds DEF job
<1>1. /\ rpc[k] = "barrier" /\ pushed[k] < Count[k] /\ g \in Fetched(k)
      /\ pushed[k] - popped[k] + Chunk(k, pushed[k]) <= IO_DEPTH
      /\ pushed[k] % K = 0
  BY <1>0 DEF CoreInv, ReaderInv, Aligned
<1>2. g \in Nat /\ g - pushed[k] \in 0 .. K - 1 /\ g \in 0 .. Count[k] - 1
  BY <1>0, <1>1, ChunkBounds, Constants DEF Fetched
<1>3. BackPage(k, g) = g % IO_DEPTH /\ g % IO_DEPTH \in 0 .. IO_DEPTH - 1
  <2> DEFINE n == g - pushed[k]
  <2>1. n \in 0 .. K - 1 /\ pushed[k] + n = g /\ pushed[k] \in Nat
    BY <1>0, <1>2
  <2> HIDE DEF n
  <2>2. /\ (pushed[k] % IO_DEPTH) + n \in 0 .. IO_DEPTH - 1
        /\ (pushed[k] + n) % IO_DEPTH = (pushed[k] % IO_DEPTH) + n
    BY <1>1, <2>1, ChunkFits
  <2> QED BY <2>1, <2>2 DEF BackPage, n
<1> DEFINE v == SourcePage(T0[k] + g)
           b == g % IO_DEPTH
<1> DEFINE Page == 0 .. IO_DEPTH - 1
           Cell == Int \cup {Junk}
<1>4. /\ cb_io' = [cb_io EXCEPT ![k][b] = v] /\ v \in Int
      /\ cb_io \in [Cores -> [Page -> Cell]] /\ b \in Page /\ v \in Cell
      /\ reads' = [reads EXCEPT ![k] = @ \ {g}]
  BY <1>0, <1>2, <1>3, CoreFacts, SourceTyped
<1>8. /\ pushed[k] <= g
      /\ \A i \in Fetched(k) \cup popped[k] .. pushed[k] - 1 :
           i \in Nat /\ i - g < IO_DEPTH /\ g - i < IO_DEPTH
  <2> DEFINE c == Chunk(k, pushed[k])
  <2>1. /\ Fetched(k) = pushed[k] .. pushed[k] + c - 1 /\ c \in Nat
        /\ pushed[k] - popped[k] + c <= IO_DEPTH /\ g \in Fetched(k)
    BY <1>0, <1>1 DEF Fetched
  <2> HIDE DEF c
  <2> QED BY <1>0, <2>1, Constants
<1>5. TypeOK'
  <2>1. cb_io' \in [Cores -> [0 .. IO_DEPTH - 1 -> Int \cup {Junk}]]
    <3>1. cb_io' \in [Cores -> [Page -> Cell]]
      <4> DEFINE pages == [cb_io[k] EXCEPT ![b] = v]
      <4> HIDE DEF v, b, Page, Cell
      <4>1. cb_io[k] \in [Page -> Cell]
        BY <1>4
      <4>2. pages \in [Page -> Cell]
        BY <1>4, <4>1
      <4>3. cb_io' = [cb_io EXCEPT ![k] = pages]
        BY <1>4
      <4> HIDE DEF pages
      <4> QED BY <1>4, <4>2, <4>3
    <3> QED BY <3>1
  <2>2. /\ reads' \in [Cores -> SUBSET Nat]
        /\ \A j \in Cores : reads'[j] \subseteq reads[j]
    BY <1>4, CoreFacts
  <2> QED BY <1>0, <2>1, <2>2 DEF TypeOK, job
<1>6. JobInv'
  BY <1>0, CallStable
<1>7. ASSUME NEW j \in Cores PROVE CoreInv(j)'
  <2>1. CASE j # k
    BY <1>0, <1>4, <2>1, CoreFacts, OtherCore
  <2>2. CASE j = k
    <3>1. /\ reads'[k] = reads[k] \ {g} /\ cb_io'[k][b] = v
          /\ \A p \in 0 .. IO_DEPTH - 1 : p # b => cb_io'[k][p] = cb_io[k][p]
      <4>1. reads'[k] = reads[k] \ {g}
        BY <1>4, CoreFacts
      <4>2. cb_io'[k][b] = v /\ \A p \in Page : p # b => cb_io'[k][p] = cb_io[k][p]
        <5> HIDE DEF v, b, Page, Cell
        <5> QED BY <1>4
      <4> QED BY <4>1, <4>2
    <3>2. Fetched(k)' = Fetched(k)
      BY DEF Fetched, Chunk
    <3>3. ASSUME NEW i \in Fetched(k) \ reads'[k]
          PROVE  cb_io'[k][i % IO_DEPTH] = SourcePage(T0[k] + i)
      <4>1. CASE i = g
        BY <3>1, <4>1
      <4>2. CASE i # g
        <5>1. i \in Nat /\ i - g < IO_DEPTH /\ g - i < IO_DEPTH
          BY <1>8
        <5>2. i % IO_DEPTH # b /\ i % IO_DEPTH \in 0 .. IO_DEPTH - 1
          <6>1. CASE i < g
            BY <1>2, <5>1, <6>1, RingDistinct, DivModFloor, Constants
          <6>2. CASE g < i
            BY <1>2, <5>1, <6>2, RingDistinct, DivModFloor, Constants
          <6> QED BY <1>2, <4>2, <5>1, <6>1, <6>2
        <5>3. cb_io[k][i % IO_DEPTH] = SourcePage(T0[k] + i)
          BY <1>0, <1>1, <3>1, <4>2 DEF CoreInv, ReaderInv
        <5> QED BY <3>1, <5>2, <5>3
      <4> QED BY <4>1, <4>2
    <3>4. ReaderInv(k)'
      <4>1. \A o : SourcePage(o)' = SourcePage(o)
        BY <1>0, CallStable
      <4> HIDE DEF v, b
      <4>2. reads'[k] \subseteq Fetched(k)
        BY <1>0, <1>1, <3>1 DEF CoreInv, ReaderInv
      <4> QED BY <1>0, <1>1, <3>2, <3>3, <4>1, <4>2 DEF ReaderInv, Chunk
    <3>5. RingInv(k)'
      <4> SUFFICES ASSUME NEW i \in popped[k] .. pushed[k] - 1
                   PROVE  cb_io'[k][i % IO_DEPTH] = SourcePage(T0[k] + i)
        BY <1>0, CallStable DEF RingInv
      <4>1. i \in Nat /\ i < g /\ g - i < IO_DEPTH
        <5>1. i \in Nat /\ g - i < IO_DEPTH
          BY <1>8
        <5>2. i < pushed[k]
          BY <1>0
        <5> QED BY <1>0, <1>2, <1>8, <5>1, <5>2
      <4>2. i % IO_DEPTH # b /\ i % IO_DEPTH \in 0 .. IO_DEPTH - 1
        BY <1>2, <4>1, RingDistinct, DivModFloor, Constants
      <4> QED BY <1>0, <3>1, <4>2 DEF CoreInv, RingInv
    <3>6. WriterInv(k)' /\ Aligned(k)'
      <4>1. Drained(k)' = Drained(k) /\ \A i : Skipped(T0[k] + i)' = Skipped(T0[k] + i)
        BY <1>0, CallStable DEF Drained, Chunk
      <4> QED BY <1>0, <4>1 DEF CoreInv, WriterInv, Chunk, Aligned
    <3> QED BY <2>2, <3>4, <3>5, <3>6 DEF CoreInv
  <2> QED BY <2>1, <2>2
<1> QED BY <1>5, <1>6, <1>7 DEF CopyInv

\* Past the barrier the whole chunk has landed, and Push publishes it.
LEMMA PushStep ==
  ASSUME CopyInv, NEW k \in Cores, Push(k)
  PROVE  CopyInv'
<1> USE DEF Push, ReadsLanded, writer
<1> DEFINE c == Chunk(k, pushed[k])
<1>0. /\ TypeOK /\ JobInv /\ CoreInv(k) /\ job' = job
      /\ pushed[k] \in 0 .. Count[k] /\ popped[k] \in 0 .. pushed[k] /\ Count[k] \in Nat
      /\ pushed' = [pushed EXCEPT ![k] = pushed[k] + c]
      /\ rpc' = [rpc EXCEPT ![k] = "reserve"] /\ rpc[k] = "barrier" /\ reads[k] = {}
      /\ c \in 0 .. K /\ pushed[k] + c <= Count[k] /\ (c = K \/ pushed[k] + c = Count[k])
  BY CoreFacts, ChunkBounds DEF job
<1>1. /\ pushed[k] - popped[k] + c <= IO_DEPTH /\ pushed[k] < Count[k]
      /\ \A i \in Fetched(k) : cb_io[k][i % IO_DEPTH] = SourcePage(T0[k] + i)
  BY <1>0 DEF CoreInv, ReaderInv
<1>2. pushed[k] % K = 0 /\ Fetched(k) = pushed[k] .. pushed[k] + c - 1
  BY <1>0, <1>1 DEF CoreInv, Aligned, Fetched
<1> HIDE DEF c
<1>3. /\ pushed'[k] = pushed[k] + c /\ rpc'[k] = "reserve"
      /\ \A j \in Cores : j # k => pushed'[j] = pushed[j] /\ rpc'[j] = rpc[j]
  BY <1>0, CoreFacts
<1>4. TypeOK'
  <2>1. pushed' \in [Cores -> Nat] /\ rpc' \in [Cores -> {"start", "reserve", "barrier"}]
    BY <1>0, CoreFacts
  <2>2. ASSUME NEW j \in Cores
        PROVE  /\ pushed'[j] \in 0 .. Count[j] /\ popped[j] \in 0 .. pushed'[j]
               /\ pushed'[j] - popped[j] <= IO_DEPTH
    BY <1>0, <1>1, <1>3, CoreFacts
  <2> QED BY <1>0, <2>1, <2>2 DEF TypeOK, job
<1>5. JobInv'
  BY <1>0, CallStable
<1>6. ASSUME NEW j \in Cores PROVE CoreInv(j)'
  <2>1. CASE j # k
    BY <1>0, <1>3, <2>1, CoreFacts, OtherCore
  <2>2. CASE j = k
    <3>1. Aligned(k)'
      <4>1. c = K => (pushed[k] + c) % K = 0
        BY <1>0, <1>2, AddsChunk
      <4> QED BY <1>0, <1>3, <4>1 DEF CoreInv, Aligned
    <3>2. ReaderInv(k)'
      BY <1>0, <1>3 DEF ReaderInv
    <3>3. RingInv(k)'
      <4> SUFFICES ASSUME NEW i \in popped[k] .. pushed[k] + c - 1
                   PROVE  cb_io[k][i % IO_DEPTH] = SourcePage(T0[k] + i)
        BY <1>0, <1>3, CallStable DEF RingInv
      <4>1. CASE i >= pushed[k]
        BY <1>0, <1>1, <1>2, <4>1
      <4>2. CASE i < pushed[k]
        BY <1>0, <4>2 DEF CoreInv, RingInv
      <4> QED BY <1>0, <4>1, <4>2
    <3>4. WriterInv(k)'
      <4>1. Drained(k)' = Drained(k) /\ \A i : Skipped(T0[k] + i)' = Skipped(T0[k] + i)
        BY <1>0, CallStable DEF Drained, Chunk
      <4>2. /\ Chunk(k, popped[k])' = Chunk(k, popped[k]) /\ popped[k] \in 0 .. Count[k]
        BY <1>0 DEF Chunk
      <4>3. Chunk(k, popped[k]) \in 0 .. K
        BY <4>2, ChunkBounds
      <4> QED BY <1>0, <1>3, <4>1, <4>2, <4>3, Constants DEF CoreInv, WriterInv
    <3> QED BY <2>2, <3>1, <3>2, <3>3, <3>4 DEF CoreInv
  <2> QED BY <2>1, <2>2
<1> QED BY <1>4, <1>5, <1>6 DEF CopyInv

\* The writer starts on a chunk that is published as a whole.
LEMMA ScatterStep ==
  ASSUME CopyInv, NEW k \in Cores, Scatter(k)
  PROVE  CopyInv'
<1> USE DEF Scatter, reader
<1> DEFINE D == {i \in Drained(k) : ~Skipped(T0[k] + i)}
<1>0. /\ TypeOK /\ JobInv /\ CoreInv(k) /\ job' = job /\ wpc[k] = "wait"
      /\ popped[k] \in 0 .. pushed[k] /\ pushed[k] \in 0 .. Count[k] /\ Count[k] \in Nat
      /\ popped[k] < Count[k] /\ pushed[k] - popped[k] >= Chunk(k, popped[k])
      /\ writes' = [writes EXCEPT ![k] = D] /\ wpc' = [wpc EXCEPT ![k] = "barrier"]
  BY CoreFacts DEF job, Drained
<1>1. Chunk(k, popped[k]) \in 0 .. K /\ D \subseteq 0 .. Count[k] - 1
  <2>1. popped[k] \in 0 .. Count[k]
    BY <1>0
  <2> QED BY <2>1, ChunkBounds DEF Drained
<1> HIDE DEF D
<1>2. TypeOK'
  <2>1. D \in SUBSET Nat
    BY <1>1
  <2>2. writes' \in [Cores -> SUBSET Nat]
        /\ wpc' \in [Cores -> {"start", "wait", "barrier"}]
    BY <1>0, <2>1, CoreFacts
  <2>3. ASSUME NEW j \in Cores PROVE writes'[j] \subseteq 0 .. Count[j] - 1
    BY <1>0, <1>1 DEF TypeOK
  <2> QED BY <1>0, <2>2, <2>3 DEF TypeOK, job
<1>3. JobInv'
  BY <1>0, CallStable
<1>4. ASSUME NEW j \in Cores PROVE CoreInv(j)'
  <2>0. wpc'[k] = "barrier" /\ writes'[k] = D
        /\ (j # k => wpc'[j] = wpc[j] /\ writes'[j] = writes[j])
    BY <1>0, CoreFacts
  <2>1. CASE j # k
    BY <1>0, <2>0, <2>1, CoreFacts, OtherCore
  <2>2. CASE j = k
    <3>1. WriterInv(k)'
      <4>1. Drained(k)' = Drained(k) /\ \A i : Skipped(T0[k] + i)' = Skipped(T0[k] + i)
        BY <1>0, CallStable DEF Drained, Chunk
      <4>2. popped[k] + Chunk(k, popped[k]) <= pushed[k]
        BY <1>0, <1>1
      <4>3. popped'[k] = popped[k] /\ pushed'[k] = pushed[k]
            /\ Chunk(k, popped[k])' = Chunk(k, popped[k])
        BY DEF Chunk
      <4>4. D = {i \in Drained(k)' : ~Skipped(T0[k] + i)'}
        BY <4>1 DEF D
      <4> QED BY <1>0, <2>0, <4>2, <4>3, <4>4 DEF WriterInv
    <3>2. ReaderInv(k)'
      BY <1>0, CallStable DEF CoreInv, ReaderInv, Fetched, Chunk
    <3>3. RingInv(k)' /\ Aligned(k)'
      BY <1>0, CallStable DEF CoreInv, RingInv, Aligned
    <3> QED BY <2>2, <3>1, <3>2, <3>3 DEF CoreInv
  <2> QED BY <2>1, <2>2
<1> QED BY <1>2, <1>3, <1>4 DEF CopyInv

\* A write takes its tile from a published page, the one the tile lies in.
LEMMA WrittenTile ==
  ASSUME CopyInv, NEW k \in Cores, NEW g, g \in writes[k]
  PROVE  /\ wpc[k] = "barrier" /\ g \in 0 .. Count[k] - 1 /\ ~Skipped(T0[k] + g)
         /\ popped[k] <= g /\ g < popped[k] + Chunk(k, popped[k]) /\ g < pushed[k]
         /\ FrontPage(k, g) = g % IO_DEPTH
         /\ cb_io[k][FrontPage(k, g)] = SourcePage(T0[k] + g)
<1> DEFINE c == Chunk(k, popped[k])
<1>0. /\ TypeOK /\ CoreInv(k)
      /\ popped[k] \in 0 .. pushed[k] /\ pushed[k] \in 0 .. Count[k] /\ Count[k] \in Nat
      /\ popped[k] \in 0 .. Count[k]
  BY CoreFacts
<1>1. c \in 0 .. K /\ Drained(k) = popped[k] .. popped[k] + c - 1
  BY <1>0, ChunkBounds DEF Drained
<1>2. /\ wpc[k] = "barrier" /\ popped[k] < Count[k] /\ popped[k] + c <= pushed[k]
      /\ g \in Drained(k) /\ ~Skipped(T0[k] + g) /\ popped[k] % K = 0
  BY <1>0 DEF CoreInv, WriterInv, Aligned
<1> HIDE DEF c
<1>3. g \in popped[k] .. pushed[k] - 1 /\ g \in 0 .. Count[k] - 1 /\ g - popped[k] \in 0 .. K - 1
      /\ g < popped[k] + c
  <2>1. g \in popped[k] .. popped[k] + c - 1 /\ c \in Nat /\ c <= K
    BY <1>1, <1>2, Constants
  <2> QED BY <1>0, <1>2, <2>1, Constants
<1>4. FrontPage(k, g) = g % IO_DEPTH
  <2> DEFINE n == g - popped[k]
  <2>1. n \in 0 .. K - 1 /\ popped[k] + n = g /\ popped[k] \in Nat
    BY <1>0, <1>3
  <2> HIDE DEF n
  <2>2. (popped[k] + n) % IO_DEPTH = (popped[k] % IO_DEPTH) + n
    BY <1>2, <2>1, ChunkFits
  <2> QED BY <2>1, <2>2 DEF FrontPage, n
<1>5. cb_io[k][g % IO_DEPTH] = SourcePage(T0[k] + g)
  BY <1>0, <1>3 DEF CoreInv, RingInv
<1> QED BY <1>0, <1>2, <1>3, <1>4, <1>5 DEF c

LEMMA NocWriteStep ==
  ASSUME CopyInv, NEW k \in Cores, NEW g, NocWrite(k, g)
  PROVE  CopyInv'
<1> USE DEF NocWrite, reader
<1>0. /\ TypeOK /\ JobInv /\ CoreInv(k) /\ job' = job
      /\ writes' = [writes EXCEPT ![k] = @ \ {g}]
  BY CoreFacts DEF job
<1>1. /\ writes' \in [Cores -> SUBSET Nat]
      /\ \A j \in Cores : writes'[j] \subseteq writes[j]
      /\ \A j \in Cores : j # k => writes'[j] = writes[j]
  BY <1>0, CoreFacts
<1>2. TypeOK'
  <2>1. \A j \in Cores : writes'[j] \subseteq 0 .. Count[j] - 1
    BY <1>0, <1>1 DEF TypeOK
  <2> QED BY <1>0, <1>1, <2>1 DEF TypeOK, job
<1>3. JobInv'
  BY <1>0, CallStable
<1>4. ASSUME NEW j \in Cores PROVE CoreInv(j)'
  <2>1. CASE j # k
    BY <1>0, <1>1, <2>1, CoreFacts, OtherCore
  <2>2. CASE j = k
    <3>1. WriterInv(k)'
      <4>1. Drained(k)' = Drained(k) /\ \A i : Skipped(T0[k] + i)' = Skipped(T0[k] + i)
        BY <1>0, CallStable DEF Drained, Chunk
      <4>2. popped'[k] = popped[k] /\ pushed'[k] = pushed[k] /\ wpc'[k] = wpc[k]
            /\ Chunk(k, popped[k])' = Chunk(k, popped[k]) /\ writes'[k] \subseteq writes[k]
        BY <1>1 DEF Chunk
      <4> QED BY <1>0, <4>1, <4>2 DEF CoreInv, WriterInv
    <3>2. ReaderInv(k)'
      BY <1>0, CallStable DEF CoreInv, ReaderInv, Fetched, Chunk
    <3>3. RingInv(k)' /\ Aligned(k)'
      BY <1>0, CallStable DEF CoreInv, RingInv, Aligned
    <3> QED BY <2>2, <3>1, <3>2, <3>3 DEF CoreInv
  <2> QED BY <2>1, <2>2
<1> QED BY <1>2, <1>3, <1>4 DEF CopyInv

\* Past the write barrier the pages of a whole chunk are freed.
LEMMA PopStep ==
  ASSUME CopyInv, NEW k \in Cores, Pop(k)
  PROVE  CopyInv'
<1> USE DEF Pop, reader
<1> DEFINE c == Chunk(k, popped[k])
<1>0. /\ TypeOK /\ JobInv /\ CoreInv(k) /\ job' = job /\ wpc[k] = "barrier"
      /\ popped[k] \in 0 .. pushed[k] /\ pushed[k] \in 0 .. Count[k] /\ Count[k] \in Nat
      /\ popped[k] \in 0 .. Count[k] /\ pushed[k] - popped[k] <= IO_DEPTH
      /\ popped' = [popped EXCEPT ![k] = popped[k] + c]
      /\ wpc' = [wpc EXCEPT ![k] = "wait"] /\ writes[k] = {}
  BY CoreFacts DEF job
<1>1. /\ c \in 0 .. K /\ (c = K \/ popped[k] + c = Count[k])
      /\ popped[k] < Count[k] /\ popped[k] + c <= pushed[k] /\ popped[k] % K = 0
  BY <1>0, ChunkBounds DEF CoreInv, WriterInv, Aligned
<1> HIDE DEF c
<1>2. /\ popped'[k] = popped[k] + c /\ wpc'[k] = "wait"
      /\ \A j \in Cores : j # k => popped'[j] = popped[j] /\ wpc'[j] = wpc[j]
  BY <1>0, CoreFacts
<1>3. TypeOK'
  <2>1. popped' \in [Cores -> Nat] /\ wpc' \in [Cores -> {"start", "wait", "barrier"}]
    BY <1>0, <1>1, CoreFacts
  <2>2. ASSUME NEW j \in Cores
        PROVE  popped'[j] \in 0 .. pushed[j] /\ pushed[j] - popped'[j] <= IO_DEPTH
    <3>1. CASE j = k
      BY <1>0, <1>1, <1>2, <3>1, Constants
    <3>2. CASE j # k
      BY <1>0, <1>2, <3>2 DEF TypeOK
    <3> QED BY <3>1, <3>2
  <2> QED BY <1>0, <2>1, <2>2 DEF TypeOK, job
<1>4. JobInv'
  BY <1>0, CallStable
<1>5. ASSUME NEW j \in Cores PROVE CoreInv(j)'
  <2>1. CASE j # k
    BY <1>0, <1>2, <2>1, CoreFacts, OtherCore
  <2>2. CASE j = k
    <3>1. Aligned(k)'
      <4>1. c = K => (popped[k] + c) % K = 0
        BY <1>0, <1>1, AddsChunk
      <4> QED BY <1>0, <1>1, <1>2, <4>1 DEF CoreInv, Aligned
    <3>2. WriterInv(k)'
      BY <1>0, <1>2 DEF WriterInv
    <3>3. RingInv(k)'
      <4>1. \A i \in popped'[k] .. pushed[k] - 1 : i \in popped[k] .. pushed[k] - 1
        BY <1>0, <1>1, <1>2
      <4> QED BY <1>0, <4>1, CallStable DEF CoreInv, RingInv
    <3>4. ReaderInv(k)'
      <4>1. Fetched(k)' = Fetched(k) /\ Chunk(k, pushed[k])' = Chunk(k, pushed[k])
            /\ pushed' = pushed /\ rpc' = rpc /\ reads' = reads /\ cb_io' = cb_io
        BY DEF Fetched, Chunk
      <4>2. Chunk(k, pushed[k]) \in 0 .. K
        BY <1>0, ChunkBounds
      <4>3. rpc[k] = "barrier" => pushed[k] - popped'[k] + Chunk(k, pushed[k]) <= IO_DEPTH
        BY <1>0, <1>1, <1>2, <4>2, Constants DEF CoreInv, ReaderInv
      <4> QED BY <1>0, <4>1, <4>3, CallStable DEF CoreInv, ReaderInv
    <3> QED BY <2>2, <3>1, <3>2, <3>3, <3>4 DEF CoreInv
  <2> QED BY <2>1, <2>2
<1> QED BY <1>3, <1>4, <1>5 DEF CopyInv

-----------------------------------------------------------------------------
\* Every step keeps the invariant.
THEOREM CopyStep == CopyInv /\ [Next]_vars => CopyInv'
<1> SUFFICES ASSUME CopyInv, [Next]_vars PROVE CopyInv'
  OBVIOUS
<1>1. ASSUME NEW k \in Cores,
             LoadIndex(k) \/ Gather(k) \/ Push(k) \/ Scatter(k) \/ Pop(k)
      PROVE  CopyInv'
  BY <1>1, LoadStep, GatherStep, PushStep, ScatterStep, PopStep
<1>2. ASSUME NEW k \in Cores, Noc(k) PROVE CopyInv'
  BY <1>2, NocReadStep, NocWriteStep DEF Noc
<1>3. CASE UNCHANGED vars
  <2>1. TypeOK' /\ JobInv'
    BY <1>3 DEF vars, job, reader, writer, CopyInv, TypeOK, JobInv
  <2>2. ASSUME NEW j \in Cores PROVE CoreInv(j)'
    BY <1>3, OtherCore DEF vars, reader, writer, CopyInv
  <2> QED BY <2>1, <2>2 DEF CopyInv
<1> QED BY <1>1, <1>2, <1>3 DEF Next, Terminated

\* No core pushes or pops more than its share, and cb_io is never overfilled.
THEOREM TypesHold == Spec => []TypeOK
<1>1. CopyInv => TypeOK
  BY DEF CopyInv
<1> QED BY <1>1, CopyInit, CopyStep, PTL DEF Spec

\* Chunks never leave the ring although their addresses are not wrapped: a
\* chunk is reserved at a multiple of K, and K divides the ring's depth.
THEOREM ChunksStayInRing == Spec => []ChunksInRing
<1>1. ASSUME CopyInv, NEW k \in Cores, NEW i \in reads[k]
      PROVE  BackPage(k, i) = i % IO_DEPTH /\ i - popped[k] < IO_DEPTH
  <2> DEFINE c == Chunk(k, pushed[k])
             n == i - pushed[k]
  <2>1. /\ CoreInv(k) /\ pushed[k] \in 0 .. Count[k] /\ popped[k] \in 0 .. pushed[k]
        /\ c \in 0 .. K /\ Fetched(k) = pushed[k] .. pushed[k] + c - 1
    BY <1>1, CoreFacts, ChunkBounds DEF Fetched
  <2>2. /\ i \in Fetched(k) /\ pushed[k] - popped[k] + c <= IO_DEPTH /\ pushed[k] % K = 0
    BY <2>1 DEF CoreInv, ReaderInv, Aligned
  <2> HIDE DEF c
  <2>3. /\ n \in 0 .. K - 1 /\ i = pushed[k] + n /\ pushed[k] \in Nat
        /\ i - popped[k] < IO_DEPTH
    <3>1. i \in pushed[k] .. pushed[k] + c - 1 /\ c \in Nat /\ c <= K
      BY <2>1, <2>2, Constants
    <3> QED BY <2>1, <2>2, <3>1, Constants
  <2> HIDE DEF n
  <2>4. (pushed[k] + n) % IO_DEPTH = (pushed[k] % IO_DEPTH) + n
    BY <2>2, <2>3, ChunkFits
  <2> QED BY <2>3, <2>4 DEF BackPage, n
<1>2. CopyInv => ChunksInRing
  BY <1>1, WrittenTile DEF ChunksInRing
<1> QED BY <1>2, CopyInit, CopyStep, PTL DEF Spec

\* Every page the writer may read holds the tile its ordinal selects.
THEOREM PublishedHolds == Spec => []PublishedExact
<1>1. CopyInv => PublishedExact
  BY DEF CopyInv, CoreInv, RingInv, PublishedExact
<1> QED BY <1>1, CopyInit, CopyStep, PTL DEF Spec

-----------------------------------------------------------------------------
(***************************************************************************)
(* Refinement: a NoC write is the copy of one wanted tile that had not     *)
(* been copied; every other step leaves what has been copied as it is.     *)
(***************************************************************************)
Tile(o) == <<o \div T, o % T>>

LEMMA CopiedMember ==
  ASSUME NEW w
  PROVE  w \in copied <=> \E k \in Cores : \E i \in CopiedBy(k) : w = Tile(T0[k] + i)
BY DEF copied, Tile

\* Tiles of the shares are told apart by their row and place in it.
LEMMA TileUnique ==
  ASSUME JobInv, NEW j \in Cores, NEW k \in Cores,
         NEW a \in 0 .. Count[j] - 1, NEW b \in 0 .. Count[k] - 1,
         Tile(T0[j] + a) = Tile(T0[k] + b)
  PROVE  j = k /\ a = b
<1>1. T0[j] + a = T0[k] + b
  <2> DEFINE x == T0[j] + a
             y == T0[k] + b
  <2>1. /\ x = (x \div T) * T + (x % T) /\ y = (y \div T) * T + (y % T)
    BY OrdinalSplit
  <2>2. x \div T = y \div T /\ x % T = y % T
    BY DEF Tile
  <2> QED BY <2>1, <2>2
<1>2. /\ T0[j] \in Nat /\ T0[k] \in Nat /\ Count[j] \in Nat /\ Count[k] \in Nat
      /\ j # k => T0[j] + Count[j] <= T0[k] \/ T0[k] + Count[k] <= T0[j]
  BY RowIndexAssumption
<1>3. a \in Int /\ b \in Int /\ 0 <= a /\ 0 <= b /\ a < Count[j] /\ b < Count[k]
  BY <1>2
<1>4. j = k
  BY <1>1, <1>2, <1>3
<1> QED BY <1>1, <1>2, <1>3, <1>4

\* What a core has copied only changes when it writes.
LEMMA CopiedStable ==
  ASSUME NEW j \in Cores, job' = job,
         wpc'[j] = wpc[j], popped'[j] = popped[j], writes'[j] = writes[j]
  PROVE  CopiedBy(j)' = CopiedBy(j)
<1>1. \A i : Skipped(T0[j] + i)' = Skipped(T0[j] + i)
  BY CallStable
<1> QED BY <1>1 DEF CopiedBy, Chunk

LEMMA OtherStepsCopyNothing ==
  ASSUME CopyInv, NEW k \in Cores,
         LoadIndex(k) \/ Gather(k) \/ Push(k) \/ Scatter(k) \/ Pop(k) \/ \E g : NocRead(k, g)
  PROVE  job' = job /\ out' = out /\ copied' = copied
<1>1. job' = job /\ out' = out
  BY DEF LoadIndex, Gather, Push, Scatter, Pop, NocRead, job
<1>2. ASSUME NEW j \in Cores PROVE CopiedBy(j)' = CopiedBy(j)
  <2>1. CASE Gather(k) \/ Push(k) \/ \E g : NocRead(k, g)
    BY <1>1, <2>1, CopiedStable DEF Gather, Push, NocRead, writer
  <2>2. CASE LoadIndex(k)
    <3>1. /\ popped' = popped /\ writes' = writes
          /\ wpc'[j] = wpc[j] \/ (wpc[j] = "start" /\ wpc'[j] = "wait")
      BY <2>2, CoreFacts DEF LoadIndex
    <3>2. \A i : Skipped(T0[j] + i)' = Skipped(T0[j] + i)
      BY <1>1, CallStable
    <3> QED BY <3>1, <3>2 DEF CopiedBy, Chunk
  <2>3. CASE Scatter(k) \/ Pop(k)
    <3>1. CASE j # k
      BY <1>1, <2>3, <3>1, CoreFacts, CopiedStable DEF Scatter, Pop
    <3>2. CASE j = k
      <4> DEFINE c == Chunk(k, popped[k])
                 L == {i \in 0 .. Count[k] - 1 : ~Skipped(T0[k] + i)}
      <4>1. L' = L
        BY <1>1, CallStable
      <4>2. popped[k] \in Nat /\ c \in Nat
        <5>1. popped[k] \in 0 .. Count[k]
          BY CoreFacts
        <5> QED BY <5>1, ChunkBounds, Constants
      <4>3. /\ CopiedBy(k) = {i \in L : i < popped[k] \/ (wpc[k] = "barrier" /\ i < popped[k] + c
                                                           /\ i \notin writes[k])}
            /\ CopiedBy(k)' = {i \in L' : i < popped'[k]
                                 \/ (wpc'[k] = "barrier" /\ i < popped'[k] + Chunk(k, popped[k])'
                                     /\ i \notin writes'[k])}
        BY DEF CopiedBy
      <4>4. CASE Scatter(k)
        <5>1. /\ wpc[k] = "wait" /\ wpc'[k] = "barrier" /\ popped'[k] = popped[k]
              /\ Chunk(k, popped[k])' = c
              /\ writes'[k] = {i \in popped[k] .. popped[k] + c - 1 : ~Skipped(T0[k] + i)}
          BY <4>4, CoreFacts DEF Scatter, Chunk
        <5> HIDE DEF c
        <5>2. ASSUME NEW i \in L
              PROVE  i < popped[k] \/ (i < popped[k] + c /\ i \notin writes'[k])
                     <=> i < popped[k]
          BY <4>2, <5>1
        <5> HIDE DEF L
        <5> QED BY <3>2, <4>1, <4>3, <5>1, <5>2
      <4>5. CASE Pop(k)
        <5>1. /\ wpc[k] = "barrier" /\ wpc'[k] = "wait" /\ popped'[k] = popped[k] + c
              /\ writes[k] = {}
          BY <4>5, CoreFacts DEF Pop
        <5> HIDE DEF c
        <5>2. ASSUME NEW i \in L
              PROVE  i < popped[k] \/ i < popped[k] + c <=> i < popped[k] + c
          BY <4>2
        <5> HIDE DEF L
        <5> QED BY <3>2, <4>1, <4>3, <5>1, <5>2
      <4> QED BY <2>3, <4>4, <4>5
    <3> QED BY <3>1, <3>2
  <2> QED BY <2>1, <2>2, <2>3
<1>3. T' = T
  BY <1>1 DEF job
<1> QED BY <1>1, <1>2, <1>3 DEF copied

LEMMA WriteCopies ==
  ASSUME CopyInv, NEW k \in Cores, NEW g, NocWrite(k, g)
  PROVE  Promise!Next
<1> DEFINE o == T0[k] + g
           q == o \div T
           s == o % T
<1>1. /\ g \in writes[k] /\ job' = job
      /\ out' = [out EXCEPT ![DestPage(o)] = cb_io[k][FrontPage(k, g)]]
      /\ writes' = [writes EXCEPT ![k] = @ \ {g}]
      /\ popped' = popped /\ wpc' = wpc
  BY DEF NocWrite, job
<1>2. /\ wpc[k] = "barrier" /\ g \in 0 .. Count[k] - 1 /\ ~Skipped(o)
      /\ popped[k] <= g /\ g < popped[k] + Chunk(k, popped[k])
      /\ cb_io[k][FrontPage(k, g)] = SourcePage(o)
  BY <1>1, WrittenTile
<1>3. /\ JobInv /\ T \in Nat \ {0} /\ M \in Nat /\ R \in Int /\ idx \in [0 .. M - 1 -> Int]
      /\ mode \in {"gather", "scatter"}
  BY CallTyped DEF CopyInv, TypeOK
<1>4. o \in Nat /\ q \in 0 .. M - 1 /\ s \in 0 .. T - 1 /\ o = q * T + s
  BY <1>2, <1>3, OrdinalSplit
<1>5. InBounds(q) <=> Promise!Named(q)
  <2>1. idx[q] \in Int /\ R \in Int
    BY <1>3, <1>4
  <2> QED BY <2>1 DEF InBounds, Promise!Named
<1>6. mode = "gather" \/ Promise!Named(q)
  BY <1>2, <1>3, <1>5 DEF Skipped
<1>7. <<q, s>> \in Promise!Wanted
  BY <1>3, <1>4, <1>6 DEF Promise!Wanted
<1>8. g \notin CopiedBy(k)
  <2>1. popped[k] \in Nat
    BY CoreFacts
  <2> QED BY <1>1, <1>2, <2>1 DEF CopiedBy
<1>9. <<q, s>> \notin copied
  <2> SUFFICES ASSUME NEW j \in Cores, NEW i \in CopiedBy(j), Tile(o) = Tile(T0[j] + i)
               PROVE  FALSE
    BY CopiedMember DEF Tile
  <2>1. i \in 0 .. Count[j] - 1
    BY DEF CopiedBy
  <2>2. j = k /\ i = g
    BY <1>2, <1>3, <2>1, TileUnique
  <2> QED BY <1>8, <2>2
<1>10. copied' = copied \cup {<<q, s>>}
  <2>1. CopiedBy(k)' = CopiedBy(k) \cup {g}
    <3>1. \A i : Skipped(T0[k] + i)' = Skipped(T0[k] + i)
      BY <1>1, CallStable
    <3>2. writes'[k] = writes[k] \ {g} /\ popped'[k] = popped[k] /\ wpc'[k] = "barrier"
          /\ Chunk(k, popped[k])' = Chunk(k, popped[k])
      BY <1>1, <1>2, CoreFacts DEF Chunk
    <3> QED BY <1>2, <3>1, <3>2 DEF CopiedBy
  <2>2. ASSUME NEW j \in Cores, j # k PROVE CopiedBy(j)' = CopiedBy(j)
    BY <1>1, <2>2, CoreFacts, CopiedStable
  <2>3. T' = T
    BY <1>1 DEF job
  <2>4. ASSUME NEW w PROVE w \in copied' <=> w \in copied \/ w = Tile(o)
    BY <2>1, <2>2, <2>3 DEF copied, Tile
  <2> QED BY <2>4 DEF Tile
<1>11. DestPage(o) = Promise!To(q, s)
  BY <1>3, <1>4 DEF DestPage, Promise!To
<1>12. SourcePage(o) = Promise!From(q, s)
  <2>1. CASE mode = "scatter"
    BY <1>4, <2>1 DEF SourcePage, Promise!From
  <2>2. CASE mode # "scatter"
    <3>1. SourcePage(o) = (IF InBounds(q) THEN idx[q] ELSE 0) * T + s
      BY <2>2 DEF SourcePage
    <3>2. Promise!From(q, s) = IF Promise!Named(q) THEN idx[q] * T + s ELSE s
      BY <2>2 DEF Promise!From
    <3>3. 0 * T + s = s
      BY <1>3, <1>4
    <3> HIDE DEF q, s, o
    <3> QED BY <1>5, <3>1, <3>2, <3>3
  <2> QED BY <2>1, <2>2
<1>13. Promise!Copy(q, s)
  BY <1>1, <1>2, <1>7, <1>9, <1>10, <1>11, <1>12 DEF Promise!Copy, Promise!call, job, R
<1> QED BY <1>3, <1>4, <1>13 DEF Promise!Next

\* get_rows and set_rows implement RowCopy: every step is the copy of one
\* wanted tile that had not been copied, from and to the row its index names,
\* or changes nothing the caller can see.
THEOREM CopiesImplementRowCopy == Spec => ImplementsRowCopy
<1>1. Init => Promise!Init
  <2> SUFFICES ASSUME Init PROVE Promise!Init
    OBVIOUS
  <2>1. \A k \in Cores : CopiedBy(k) = {}
    BY DEF Init, CopiedBy
  <2>2. copied = {}
    BY <2>1 DEF copied
  <2> QED BY <2>2 DEF Init, Promise!Init
<1>2. ASSUME CopyInv, [Next]_vars PROVE [Promise!Next]_(Promise!vars)
  <2>1. ASSUME NEW k \in Cores, NEW g, NocWrite(k, g) PROVE Promise!Next
    BY <1>2, <2>1, WriteCopies
  <2>2. ASSUME job' = job, out' = out, copied' = copied PROVE UNCHANGED Promise!vars
    BY <2>2 DEF Promise!vars, Promise!call, job, R
  <2>3. ASSUME NEW k \in Cores,
               LoadIndex(k) \/ Gather(k) \/ Push(k) \/ Scatter(k) \/ Pop(k)
                 \/ \E g : NocRead(k, g)
        PROVE  UNCHANGED Promise!vars
    BY <1>2, <2>2, <2>3, OtherStepsCopyNothing
  <2>4. CASE UNCHANGED vars
    <3>1. job' = job /\ out' = out
      BY <2>4 DEF vars, job
    <3>2. copied' = copied
      <4>1. \A j \in Cores : CopiedBy(j)' = CopiedBy(j)
        BY <2>4, <3>1, CopiedStable DEF vars, writer
      <4> QED BY <3>1, <4>1 DEF copied, job
    <3> QED BY <2>2, <3>1, <3>2
  <2> QED BY <1>2, <2>1, <2>3, <2>4 DEF Next, Noc, Terminated
<1> QED BY <1>1, <1>2, CopyInit, CopyStep, PTL
        DEF Spec, ImplementsRowCopy, Promise!Spec
=============================================================================
