----------------------- MODULE RealizePipeline_proofs -----------------------
(***************************************************************************)
(* The relayout program is correct for any number of cores, tiles, faces   *)
(* and circular-buffer pages: proofs about RealizePipeline.                *)
(***************************************************************************)
EXTENDS RealizePipeline, TLAPS

-----------------------------------------------------------------------------
\* Integer division by a positive divisor, and rings of pages.
LEMMA DivModFloor ==
  ASSUME NEW a \in Int, NEW b \in Nat \ {0}
  PROVE  /\ a \div b \in Int /\ a % b \in Int
         /\ a = ((a \div b) * b) + (a % b)
         /\ 0 <= a % b /\ a % b < b
OBVIOUS

\* Positions less than a lap of a ring apart have different pages.
LEMMA LapDistinct ==
  ASSUME NEW b \in Nat \ {0}, NEW i \in Nat, NEW j \in Nat, i < j, j - i < b
  PROVE  i % b # j % b
<1> DEFINE p == i \div b
           q == j \div b
           r == i % b
<1> SUFFICES ASSUME j % b = r PROVE FALSE
  OBVIOUS
<1>1. p \in Int /\ q \in Int /\ r \in Int /\ i = p * b + r /\ j = q * b + r
  BY DivModFloor
<1> HIDE DEF p, q, r
<1>2. (q - p) * b = j - i /\ q - p \in Int
  BY <1>1
<1>3. (q - p) * b < b /\ (q - p) * b > 0
  BY <1>2
<1>4. \A d \in Int : d >= 1 => d * b >= b
  OBVIOUS
<1>5. \A d \in Int : d <= 0 => d * b <= 0
  OBVIOUS
<1> QED BY <1>2, <1>3, <1>4, <1>5

-----------------------------------------------------------------------------
\* Ring arithmetic: a position has a page, and positions less than a lap
\* apart have different pages.
LEMMA PageInRing ==
  ASSUME NEW i \in Nat
  PROVE  i % Depth \in 0 .. Depth - 1
BY PipelineAssumption

LEMMA RingDistinct ==
  ASSUME NEW i \in Nat, NEW j \in Nat, i < j, j - i < Depth
  PROVE  i % Depth # j % Depth
BY PipelineAssumption, LapDistinct

\* Every tile a core works on is a tile of the grid, and no two cores share
\* one.
LEMMA OwnTiles ==
  ASSUME NEW k \in Cores, NEW i \in 0 .. Count[k] - 1
  PROVE  T0[k] + i \in Tiles
<1>1. T0[k] \in Nat /\ Count[k] \in Nat
  BY PipelineAssumption
<1>2. T0[k] + i \in T0[k] .. T0[k] + Count[k] - 1
  BY <1>1
<1> QED BY <1>2 DEF Tiles

LEMMA DisjointTiles ==
  ASSUME NEW j \in Cores, NEW k \in Cores, j # k,
         NEW a \in 0 .. Count[j] - 1, NEW b \in 0 .. Count[k] - 1
  PROVE  T0[j] + a # T0[k] + b
<1>1. /\ T0[j] \in Nat /\ Count[j] \in Nat /\ T0[k] \in Nat /\ Count[k] \in Nat
      /\ T0[j] + Count[j] <= T0[k] \/ T0[k] + Count[k] <= T0[j]
  BY PipelineAssumption
<1> QED BY <1>1

-----------------------------------------------------------------------------
(***************************************************************************)
(* The inductive invariant.  PublishedExact is not inductive: whether the  *)
(* page a Push publishes is complete depends on which reads are in flight, *)
(* and whether padding is zero on the reader having waited for the zero    *)
(* tile.  OutInv adds what the writer has delivered so far.                *)
(***************************************************************************)
ReaderInv(k) ==
  /\ rpc[k] # "start" /\ job.in = "affine" => zero[k]
  /\ rpc[k] # "barrier" => reads[k] = {}
  /\ rpc[k] = "barrier" =>
       /\ pushed[k] < Count[k] /\ pushed[k] - popped[k] < Depth
       /\ reads[k] \subseteq job.live[ReadTile(k)]
       /\ \A f \in Faces \ reads[k] :
            cb_io[k][BackPage(k)][f] = Assembled(ReadTile(k))[f]

WriterInv(k) ==
  /\ wpc[k] # "barrier" => writes[k] = {}
  /\ wpc[k] = "barrier" =>
       popped[k] < pushed[k] /\ writes[k] \subseteq job.live[WriteTile(k)]

RingInv(k) ==
  \A i \in popped[k] .. pushed[k] - 1 : cb_io[k][i % Depth] = Assembled(T0[k] + i)

\* Has core k delivered face f of its i-th tile?
Sent(k, i, f) ==
  /\ f \in job.live[T0[k] + i]
  /\ i < popped[k] \/ (i = popped[k] /\ wpc[k] = "barrier" /\ f \notin writes[k])

OutInv(k) ==
  \A i \in 0 .. Count[k] - 1 : \A f \in Faces :
    out[T0[k] + i][f] = IF Sent(k, i, f) THEN Data(T0[k] + i, f) ELSE Old

CoreInv(k) == ReaderInv(k) /\ WriterInv(k) /\ RingInv(k) /\ OutInv(k)

PipeInv == TypeOK /\ \A k \in Cores : CoreInv(k)

LEMMA MovedIsLive ==
  ASSUME job \in Jobs, NEW t \in Tiles
  PROVE  /\ Moved(job.in, t) = job.live[t] /\ Moved(job.out, t) = job.live[t]
         /\ job.live[t] \subseteq Faces
         /\ job.in # "affine" => job.live[t] = Faces
BY DEF Jobs, Moved, Kinds

THEOREM PipeInit == Init => PipeInv
<1> SUFFICES ASSUME Init PROVE PipeInv
  OBVIOUS
<1>1. TypeOK
  BY PipelineAssumption DEF Init, TypeOK, Values
<1>2. ASSUME NEW k \in Cores PROVE CoreInv(k)
  <2>1. ReaderInv(k)
    BY DEF Init, ReaderInv
  <2>2. WriterInv(k)
    BY DEF Init, WriterInv
  <2>3. RingInv(k)
    BY DEF Init, RingInv
  <2>4. OutInv(k)
    <3> SUFFICES ASSUME NEW i \in 0 .. Count[k] - 1, NEW f \in Faces
                 PROVE  out[T0[k] + i][f] = Old /\ ~Sent(k, i, f)
      BY DEF OutInv
    <3>1. T0[k] + i \in Tiles
      BY OwnTiles
    <3>2. ~Sent(k, i, f)
      BY DEF Init, Sent
    <3> QED BY <3>1, <3>2 DEF Init
  <2> QED BY <2>1, <2>2, <2>3, <2>4 DEF CoreInv
<1> QED BY <1>1, <1>2 DEF PipeInv

-----------------------------------------------------------------------------
\* A step of one core leaves another core's invariant alone: the state is
\* per core, and the tiles of the output are disjoint.
LEMMA OtherCore ==
  ASSUME NEW j \in Cores, CoreInv(j), job' = job,
         zero'[j] = zero[j], rpc'[j] = rpc[j], pushed'[j] = pushed[j],
         reads'[j] = reads[j], wpc'[j] = wpc[j], popped'[j] = popped[j],
         writes'[j] = writes[j], cb_io'[j] = cb_io[j],
         \A i \in 0 .. Count[j] - 1 : out'[T0[j] + i] = out[T0[j] + i]
  PROVE  CoreInv(j)'
<1>1. ReaderInv(j)'
  BY DEF CoreInv, ReaderInv, ReadTile, BackPage, Assembled
<1>2. WriterInv(j)'
  BY DEF CoreInv, WriterInv, WriteTile
<1>3. RingInv(j)'
  BY DEF CoreInv, RingInv, Assembled
<1>4. OutInv(j)'
  BY DEF CoreInv, OutInv, Sent
<1> QED BY <1>1, <1>2, <1>3, <1>4 DEF CoreInv

\* Steps that write neither to a page of the ring nor to the output keep
\* what has been assembled and delivered.
LEMMA ZeroStep ==
  ASSUME PipeInv, NEW k \in Cores, FillZero(k)
  PROVE  PipeInv'
<1> USE DEF FillZero
<1>1. TypeOK'
  BY DEF PipeInv, TypeOK
<1>2. ASSUME NEW j \in Cores PROVE CoreInv(j)'
  <2>1. CoreInv(j) /\ zero \in [Cores -> BOOLEAN]
    BY DEF PipeInv, TypeOK
  <2>2. CASE j # k
    BY <2>1, <2>2, OtherCore
  <2>3. CASE j = k
    <3>1. ReaderInv(j)'
      BY <2>1, <2>3 DEF CoreInv, ReaderInv, ReadTile, BackPage, Assembled
    <3>2. WriterInv(j)' /\ RingInv(j)' /\ OutInv(j)'
      BY <2>1 DEF CoreInv, WriterInv, WriteTile, RingInv, OutInv, Sent, Assembled
    <3> QED BY <3>1, <3>2 DEF CoreInv
  <2> QED BY <2>2, <2>3
<1> QED BY <1>1, <1>2 DEF PipeInv

LEMMA StartStep ==
  ASSUME PipeInv, NEW k \in Cores, ReaderStart(k)
  PROVE  PipeInv'
<1> USE DEF ReaderStart
<1>1. TypeOK'
  BY DEF PipeInv, TypeOK
<1>2. ASSUME NEW j \in Cores PROVE CoreInv(j)'
  <2>1. CoreInv(j) /\ rpc \in [Cores -> {"start", "reserve", "barrier"}]
    BY DEF PipeInv, TypeOK
  <2>2. CASE j # k
    BY <2>1, <2>2, OtherCore
  <2>3. CASE j = k
    <3>1. ReaderInv(j)'
      BY <2>1, <2>3 DEF CoreInv, ReaderInv
    <3>2. WriterInv(j)' /\ RingInv(j)' /\ OutInv(j)'
      BY <2>1 DEF CoreInv, WriterInv, WriteTile, RingInv, OutInv, Sent, Assembled
    <3> QED BY <3>1, <3>2 DEF CoreInv
  <2> QED BY <2>2, <2>3
<1> QED BY <1>1, <1>2 DEF PipeInv

\* Gather writes the page behind the pushed ones: the ring is not full, so
\* it is none of the pages the writer may read.
LEMMA GatherStep ==
  ASSUME PipeInv, NEW k \in Cores, Gather(k)
  PROVE  PipeInv'
<1> USE DEF Gather
<1>0. /\ TypeOK /\ CoreInv(k) /\ job \in Jobs
      /\ pushed[k] \in Nat /\ popped[k] \in Nat /\ Count[k] \in Nat
      /\ popped[k] <= pushed[k] /\ pushed[k] < Count[k]
      /\ pushed[k] - popped[k] < Depth /\ Depth \in Nat \ {0}
  BY PipelineAssumption DEF PipeInv, TypeOK, SpaceFree
<1>1. ReadTile(k) \in Tiles /\ BackPage(k) \in 0 .. Depth - 1
  BY <1>0, OwnTiles, PageInRing DEF ReadTile, BackPage
<1>2. /\ reads' = [reads EXCEPT ![k] = job.live[ReadTile(k)]]
      /\ job.live[ReadTile(k)] \subseteq Faces
      /\ job.in # "affine" => job.live[ReadTile(k)] = Faces
  BY <1>0, <1>1, MovedIsLive
<1>3. zero[k] \/ job.in = "dense"
  BY <1>0 DEF CoreInv, ReaderInv, Jobs, Kinds
<1>4. /\ \A p \in 0 .. Depth - 1 : p # BackPage(k) => cb_io'[k][p] = cb_io[k][p]
      /\ job.in # "dense" =>
           \A f \in Faces : cb_io'[k][BackPage(k)][f] = Zero
      /\ \A j \in Cores : j # k => cb_io'[j] = cb_io[j]
  BY <1>0, <1>1, <1>3 DEF TypeOK
<1>5. cb_io' \in [Cores -> [0 .. Depth - 1 -> [Faces -> Values]]]
  <2>1. CASE job.in = "dense"
    BY <1>0, <2>1 DEF TypeOK
  <2>2. CASE job.in # "dense"
    <3> DEFINE seed == [f \in Faces |-> IF zero[k] THEN Zero ELSE Junk]
    <3>1. seed \in [Faces -> Values]
      BY DEF Values
    <3>2. cb_io' = [cb_io EXCEPT ![k][BackPage(k)] = seed]
      BY <2>2
    <3> HIDE DEF seed
    <3> QED BY <1>0, <1>1, <3>1, <3>2 DEF TypeOK
  <2> QED BY <2>1, <2>2
<1>6. TypeOK'
  BY <1>0, <1>2, <1>5 DEF TypeOK
<1>7. ASSUME NEW j \in Cores PROVE CoreInv(j)'
  <2>1. CASE j # k
    BY <1>0, <1>4, <2>1, OtherCore DEF PipeInv, TypeOK
  <2>2. CASE j = k
    <3>1. /\ ReadTile(k)' = ReadTile(k) /\ BackPage(k)' = BackPage(k)
          /\ reads'[k] = job.live[ReadTile(k)] /\ rpc'[k] = "barrier"
      BY <1>0, <1>2 DEF ReadTile, BackPage, TypeOK
    <3>2. ASSUME NEW f \in Faces \ reads'[k]
          PROVE  cb_io'[k][BackPage(k)][f] = Assembled(ReadTile(k))[f]
      BY <1>0, <1>2, <1>3, <1>4, <3>1 DEF Assembled, Jobs, Kinds
    <3>3. ReaderInv(k)'
      <4>1. Assembled(ReadTile(k))' = Assembled(ReadTile(k))
        BY <3>1 DEF Assembled
      <4> QED BY <1>0, <1>3, <3>1, <3>2, <4>1 DEF ReaderInv, Jobs, Kinds
    <3>4. RingInv(k)'
      <4> SUFFICES ASSUME NEW i \in popped[k] .. pushed[k] - 1
                   PROVE  cb_io'[k][i % Depth] = Assembled(T0[k] + i)
        BY DEF RingInv, Assembled
      <4>1. i \in Nat /\ i < pushed[k] /\ pushed[k] - i < Depth
        BY <1>0
      <4>2. i % Depth # BackPage(k) /\ i % Depth \in 0 .. Depth - 1
        BY <1>0, <4>1, RingDistinct, PageInRing DEF BackPage
      <4> QED BY <1>0, <1>4, <4>2 DEF CoreInv, RingInv
    <3>5. WriterInv(k)' /\ OutInv(k)'
      BY <1>0 DEF CoreInv, WriterInv, WriteTile, OutInv, Sent
    <3> QED BY <2>2, <3>3, <3>4, <3>5 DEF CoreInv
  <2> QED BY <2>1, <2>2
<1> QED BY <1>6, <1>7 DEF PipeInv

\* A read lands in the page being assembled, which holds no published tile.
LEMMA NocReadStep ==
  ASSUME PipeInv, NEW k \in Cores, NEW g \in Faces, NocRead(k, g)
  PROVE  PipeInv'
<1> USE DEF NocRead
<1>0. /\ TypeOK /\ CoreInv(k) /\ job \in Jobs
      /\ pushed[k] \in Nat /\ popped[k] \in Nat /\ Count[k] \in Nat
      /\ popped[k] <= pushed[k] /\ Depth \in Nat \ {0}
      /\ rpc[k] = "barrier"
  BY PipelineAssumption DEF PipeInv, TypeOK, CoreInv, ReaderInv
<1>1. /\ pushed[k] < Count[k] /\ pushed[k] - popped[k] < Depth
      /\ reads[k] \subseteq job.live[ReadTile(k)]
  BY <1>0 DEF CoreInv, ReaderInv
<1>2. ReadTile(k) \in Tiles /\ BackPage(k) \in 0 .. Depth - 1
  BY <1>0, <1>1, OwnTiles, PageInRing DEF ReadTile, BackPage
<1>3. /\ \A p \in 0 .. Depth - 1 : p # BackPage(k) => cb_io'[k][p] = cb_io[k][p]
      /\ \A f \in Faces : cb_io'[k][BackPage(k)][f] =
           IF f = g THEN Data(ReadTile(k), f) ELSE cb_io[k][BackPage(k)][f]
      /\ \A j \in Cores : j # k => cb_io'[j] = cb_io[j]
  BY <1>0, <1>2 DEF TypeOK
<1>4. TypeOK'
  <2>1. Data(ReadTile(k), g) \in Values
    BY <1>2 DEF Values
  <2>2. cb_io' \in [Cores -> [0 .. Depth - 1 -> [Faces -> Values]]]
    <3> DEFINE d == Data(ReadTile(k), g)
    <3>1. cb_io' = [cb_io EXCEPT ![k][BackPage(k)][g] = d] /\ d \in Values
      BY <2>1
    <3> HIDE DEF d
    <3> QED BY <1>0, <1>2, <3>1 DEF TypeOK
  <2>3. reads' \in [Cores -> SUBSET Faces]
    BY <1>0 DEF TypeOK
  <2> QED BY <1>0, <2>2, <2>3 DEF TypeOK
<1>5. ASSUME NEW j \in Cores PROVE CoreInv(j)'
  <2>1. CASE j # k
    BY <1>0, <1>3, <2>1, OtherCore DEF PipeInv, TypeOK
  <2>2. CASE j = k
    <3>1. /\ ReadTile(k)' = ReadTile(k) /\ BackPage(k)' = BackPage(k)
          /\ reads'[k] = reads[k] \ {g} /\ rpc'[k] = "barrier"
      BY <1>0 DEF ReadTile, BackPage, TypeOK
    <3>2. ASSUME NEW f \in Faces \ reads'[k]
          PROVE  cb_io'[k][BackPage(k)][f] = Assembled(ReadTile(k))[f]
      <4>1. CASE f = g
        BY <1>1, <1>3, <4>1 DEF Assembled
      <4>2. CASE f # g
        BY <1>0, <1>3, <3>1, <4>2 DEF CoreInv, ReaderInv
      <4> QED BY <4>1, <4>2
    <3>3. ReaderInv(k)'
      <4>1. Assembled(ReadTile(k))' = Assembled(ReadTile(k))
        BY <3>1 DEF Assembled
      <4> QED BY <1>0, <1>1, <3>1, <3>2, <4>1 DEF CoreInv, ReaderInv
    <3>4. RingInv(k)'
      <4> SUFFICES ASSUME NEW i \in popped[k] .. pushed[k] - 1
                   PROVE  cb_io'[k][i % Depth] = Assembled(T0[k] + i)
        BY DEF RingInv, Assembled
      <4>1. i \in Nat /\ i < pushed[k] /\ pushed[k] - i < Depth
        BY <1>0, <1>1
      <4>2. i % Depth # BackPage(k) /\ i % Depth \in 0 .. Depth - 1
        BY <1>0, <4>1, RingDistinct, PageInRing DEF BackPage
      <4> QED BY <1>0, <1>3, <4>2 DEF CoreInv, RingInv
    <3>5. WriterInv(k)' /\ OutInv(k)'
      BY <1>0 DEF CoreInv, WriterInv, WriteTile, OutInv, Sent
    <3> QED BY <2>2, <3>3, <3>4, <3>5 DEF CoreInv
  <2> QED BY <2>1, <2>2
<1> QED BY <1>4, <1>5 DEF PipeInv

\* Past the barrier no read is in flight, so the page Push publishes is the
\* assembled tile.
LEMMA PushStep ==
  ASSUME PipeInv, NEW k \in Cores, Push(k)
  PROVE  PipeInv'
<1> USE DEF Push, ReadsLanded
<1>0. /\ TypeOK /\ CoreInv(k) /\ job \in Jobs
      /\ pushed[k] \in Nat /\ popped[k] \in Nat /\ Count[k] \in Nat
      /\ popped[k] <= pushed[k] /\ Depth \in Nat \ {0}
      /\ pushed'[k] = pushed[k] + 1 /\ rpc'[k] = "reserve"
      /\ \A j \in Cores : j # k => pushed'[j] = pushed[j] /\ rpc'[j] = rpc[j]
  BY PipelineAssumption DEF PipeInv, TypeOK
<1>1. /\ pushed[k] < Count[k] /\ pushed[k] - popped[k] < Depth
      /\ \A f \in Faces : cb_io[k][BackPage(k)][f] = Assembled(ReadTile(k))[f]
  BY <1>0 DEF CoreInv, ReaderInv
<1>2. TypeOK'
  <2>1. pushed' \in [Cores -> Nat]
        /\ rpc' \in [Cores -> {"start", "reserve", "barrier"}]
    BY <1>0 DEF TypeOK
  <2>2. ASSUME NEW j \in Cores
        PROVE  /\ popped'[j] <= pushed'[j] /\ pushed'[j] <= Count[j]
               /\ pushed'[j] - popped'[j] <= Depth
    BY <1>0, <1>1 DEF TypeOK
  <2> QED BY <1>0, <2>1, <2>2 DEF TypeOK
<1>3. ASSUME NEW j \in Cores PROVE CoreInv(j)'
  <2>1. CASE j # k
    BY <1>0, <2>1, OtherCore DEF PipeInv
  <2>2. CASE j = k
    <3>1. ReaderInv(k)'
      BY <1>0 DEF CoreInv, ReaderInv
    <3>2. RingInv(k)'
      <4> SUFFICES ASSUME NEW i \in popped[k] .. pushed[k]
                   PROVE  cb_io[k][i % Depth] = Assembled(T0[k] + i)
        BY <1>0 DEF RingInv, Assembled
      <4>1. CASE i = pushed[k]
        <5>1. BackPage(k) \in 0 .. Depth - 1
          BY <1>0, PageInRing DEF BackPage
        <5>2. /\ cb_io[k][BackPage(k)] \in [Faces -> Values]
              /\ Assembled(ReadTile(k)) \in [Faces -> Values \cup {Zero} \cup
                   {Data(ReadTile(k), f) : f \in Faces}]
          BY <1>0, <5>1 DEF TypeOK, Assembled
        <5>3. cb_io[k][BackPage(k)] = Assembled(ReadTile(k))
          BY <1>1, <5>2
        <5> QED BY <4>1, <5>3 DEF BackPage, ReadTile
      <4>2. CASE i # pushed[k]
        BY <1>0, <4>2 DEF CoreInv, RingInv
      <4> QED BY <4>1, <4>2
    <3>3. WriterInv(k)'
      BY <1>0 DEF CoreInv, WriterInv, WriteTile
    <3>4. OutInv(k)'
      BY <1>0 DEF CoreInv, OutInv, Sent
    <3> QED BY <2>2, <3>1, <3>2, <3>3, <3>4 DEF CoreInv
  <2> QED BY <2>1, <2>2
<1> QED BY <1>2, <1>3 DEF PipeInv

LEMMA ScatterStep ==
  ASSUME PipeInv, NEW k \in Cores, Scatter(k)
  PROVE  PipeInv'
<1> USE DEF Scatter
<1>0. /\ TypeOK /\ CoreInv(k) /\ job \in Jobs
      /\ pushed[k] \in Nat /\ popped[k] \in Nat /\ Count[k] \in Nat
      /\ popped[k] < pushed[k] /\ popped[k] < Count[k]
  <2>1. TypeOK /\ CoreInv(k) /\ job \in Jobs
        /\ pushed[k] \in Nat /\ popped[k] \in Nat /\ Count[k] \in Nat
    BY PipelineAssumption DEF PipeInv, TypeOK
  <2> QED BY <2>1
<1>1. WriteTile(k) \in Tiles
  BY <1>0, OwnTiles DEF WriteTile
<1>2. /\ writes' = [writes EXCEPT ![k] = job.live[WriteTile(k)]]
      /\ job.live[WriteTile(k)] \subseteq Faces
  BY <1>0, <1>1, MovedIsLive
<1>3. TypeOK'
  BY <1>0, <1>2 DEF TypeOK
<1>4. ASSUME NEW j \in Cores PROVE CoreInv(j)'
  <2>1. CASE j # k
    BY <1>0, <2>1, OtherCore DEF PipeInv, TypeOK
  <2>2. CASE j = k
    <3>1. writes'[k] = job.live[WriteTile(k)] /\ wpc'[k] = "barrier"
          /\ wpc[k] = "wait"
      BY <1>0, <1>2 DEF TypeOK
    <3>2. WriterInv(k)'
      BY <1>0, <3>1 DEF WriterInv, WriteTile
    <3>3. OutInv(k)'
      <4> SUFFICES ASSUME NEW i \in 0 .. Count[k] - 1, NEW f \in Faces
                   PROVE  Sent(k, i, f)' <=> Sent(k, i, f)
        BY <1>0 DEF CoreInv, OutInv
      <4> QED BY <1>0, <3>1 DEF Sent, WriteTile
    <3>4. ReaderInv(k)' /\ RingInv(k)'
      BY <1>0 DEF CoreInv, ReaderInv, ReadTile, BackPage, RingInv, Assembled
    <3> QED BY <2>2, <3>2, <3>3, <3>4 DEF CoreInv
  <2> QED BY <2>1, <2>2
<1> QED BY <1>3, <1>4 DEF PipeInv

\* A write takes its face from the front page, which is the complete tile;
\* it is the delivery of a face that had not been delivered.
LEMMA Delivery ==
  ASSUME PipeInv, NEW k \in Cores, NEW g \in Faces, NocWrite(k, g)
  PROVE  /\ popped[k] \in 0 .. Count[k] - 1 /\ WriteTile(k) \in Tiles
         /\ wpc[k] = "barrier" /\ g \in job.live[WriteTile(k)]
         /\ out[WriteTile(k)][g] = Old
         /\ out' = [out EXCEPT ![WriteTile(k)][g] = Data(WriteTile(k), g)]
<1> USE DEF NocWrite
<1>1. /\ TypeOK /\ CoreInv(k) /\ job \in Jobs
      /\ pushed[k] \in Nat /\ popped[k] \in Nat /\ Count[k] \in Nat
      /\ pushed[k] <= Count[k] /\ wpc[k] = "barrier"
  BY PipelineAssumption DEF PipeInv, TypeOK, CoreInv, WriterInv
<1>2. popped[k] < pushed[k] /\ g \in job.live[WriteTile(k)]
  BY <1>1 DEF CoreInv, WriterInv
<1>3. popped[k] \in 0 .. Count[k] - 1
  BY <1>1, <1>2
<1>4. WriteTile(k) \in Tiles
  BY <1>3, OwnTiles DEF WriteTile
<1>5. cb_io[k][FrontPage(k)] = Assembled(WriteTile(k))
  BY <1>1, <1>2 DEF CoreInv, RingInv, FrontPage, WriteTile
<1>6. cb_io[k][FrontPage(k)][g] = Data(WriteTile(k), g)
  BY <1>2, <1>5 DEF Assembled
<1>7. out[WriteTile(k)][g] = Old
  BY <1>1, <1>3 DEF CoreInv, OutInv, Sent, WriteTile
<1> QED BY <1>1, <1>2, <1>3, <1>4, <1>6, <1>7

LEMMA NocWriteStep ==
  ASSUME PipeInv, NEW k \in Cores, NEW g \in Faces, NocWrite(k, g)
  PROVE  PipeInv'
<1>0. /\ TypeOK /\ CoreInv(k) /\ job \in Jobs
      /\ popped[k] \in 0 .. Count[k] - 1 /\ WriteTile(k) \in Tiles
      /\ wpc[k] = "barrier" /\ g \in job.live[WriteTile(k)]
      /\ out' = [out EXCEPT ![WriteTile(k)][g] = Data(WriteTile(k), g)]
  BY Delivery DEF PipeInv, TypeOK
<1>1. Count[k] \in Nat /\ T0[k] \in Nat
  BY PipelineAssumption
<1> USE DEF NocWrite
<1>2. TypeOK'
  <2>1. Data(WriteTile(k), g) \in Values
    BY <1>0 DEF Values
  <2>2. out' \in [Tiles -> [Faces -> Values]]
    <3> DEFINE d == Data(WriteTile(k), g)
    <3>1. out' = [out EXCEPT ![WriteTile(k)][g] = d] /\ d \in Values
      BY <1>0, <2>1
    <3> HIDE DEF d
    <3> QED BY <1>0, <3>1 DEF TypeOK
  <2>3. writes' \in [Cores -> SUBSET Faces]
    BY <1>0 DEF TypeOK
  <2> QED BY <1>0, <2>2, <2>3 DEF TypeOK
<1>3. ASSUME NEW j \in Cores PROVE CoreInv(j)'
  <2>1. CASE j # k
    <3>1. ASSUME NEW i \in 0 .. Count[j] - 1 PROVE out'[T0[j] + i] = out[T0[j] + i]
      <4>1. T0[j] + i # WriteTile(k)
        BY <1>0, <2>1, DisjointTiles DEF WriteTile
      <4>2. T0[j] + i \in Tiles
        BY OwnTiles
      <4> QED BY <1>0, <4>1, <4>2 DEF TypeOK
    <3> QED BY <1>0, <2>1, <3>1, OtherCore DEF PipeInv, TypeOK
  <2>2. CASE j = k
    <3>1. writes'[k] = writes[k] \ {g} /\ g \in writes[k]
      BY <1>0 DEF TypeOK
    <3>2. WriterInv(k)'
      BY <1>0, <3>1 DEF CoreInv, WriterInv, WriteTile
    <3>3. OutInv(k)'
      <4> SUFFICES ASSUME NEW i \in 0 .. Count[k] - 1, NEW f \in Faces
                   PROVE  out'[T0[k] + i][f] =
                            IF Sent(k, i, f)' THEN Data(T0[k] + i, f) ELSE Old
        BY DEF OutInv
      <4>1. T0[k] + i \in Tiles
        BY OwnTiles
      <4>2. out[T0[k] + i][f] = IF Sent(k, i, f) THEN Data(T0[k] + i, f) ELSE Old
        BY <1>0 DEF CoreInv, OutInv
      <4>3. CASE i = popped[k] /\ f = g
        <5>1. Sent(k, i, f)'
          BY <1>0, <3>1, <4>3 DEF Sent, WriteTile
        <5>2. out'[T0[k] + i][f] = Data(T0[k] + i, f)
          BY <1>0, <4>1, <4>3 DEF WriteTile, TypeOK
        <5> QED BY <5>1, <5>2
      <4>4. CASE ~(i = popped[k] /\ f = g)
        <5>1. Sent(k, i, f)' <=> Sent(k, i, f)
          BY <1>0, <3>1, <4>4 DEF Sent
        <5>2. T0[k] + i # WriteTile(k) \/ f # g
          BY <1>0, <1>1, <4>4 DEF WriteTile
        <5>3. out'[T0[k] + i][f] = out[T0[k] + i][f]
          BY <1>0, <4>1, <5>2 DEF TypeOK
        <5> QED BY <4>2, <5>1, <5>3
      <4> QED BY <4>3, <4>4
    <3>4. ReaderInv(k)' /\ RingInv(k)'
      BY <1>0 DEF CoreInv, ReaderInv, ReadTile, BackPage, RingInv, Assembled
    <3> QED BY <2>2, <3>2, <3>3, <3>4 DEF CoreInv
  <2> QED BY <2>1, <2>2
<1> QED BY <1>2, <1>3 DEF PipeInv

\* Past the write barrier the whole tile has been sent, and freeing its page
\* changes nothing that is still to be read.
LEMMA PopStep ==
  ASSUME PipeInv, NEW k \in Cores, Pop(k)
  PROVE  PipeInv'
<1> USE DEF Pop, WritesLanded
<1>0. /\ TypeOK /\ CoreInv(k) /\ job \in Jobs
      /\ pushed[k] \in Nat /\ popped[k] \in Nat /\ Count[k] \in Nat
      /\ Depth \in Nat \ {0}
      /\ popped'[k] = popped[k] + 1 /\ wpc'[k] = "wait"
      /\ \A j \in Cores : j # k => popped'[j] = popped[j] /\ wpc'[j] = wpc[j]
  BY PipelineAssumption DEF PipeInv, TypeOK
<1>1. popped[k] < pushed[k]
  BY <1>0 DEF CoreInv, WriterInv
<1>2. TypeOK'
  <2>1. popped' \in [Cores -> Nat] /\ wpc' \in [Cores -> {"wait", "barrier"}]
    BY <1>0 DEF TypeOK
  <2>2. ASSUME NEW j \in Cores
        PROVE  /\ popped'[j] <= pushed'[j] /\ pushed'[j] <= Count[j]
               /\ pushed'[j] - popped'[j] <= Depth
    BY <1>0, <1>1 DEF TypeOK
  <2> QED BY <1>0, <2>1, <2>2 DEF TypeOK
<1>3. ASSUME NEW j \in Cores PROVE CoreInv(j)'
  <2>1. CASE j # k
    BY <1>0, <2>1, OtherCore DEF PipeInv
  <2>2. CASE j = k
    <3>1. ReaderInv(k)'
      <4>1. rpc[k] = "barrier" => pushed[k] - popped'[k] < Depth
        BY <1>0 DEF CoreInv, ReaderInv
      <4> QED BY <1>0, <4>1 DEF CoreInv, ReaderInv, ReadTile, BackPage, Assembled
    <3>2. WriterInv(k)' /\ RingInv(k)'
      BY <1>0 DEF CoreInv, WriterInv, RingInv, Assembled
    <3>3. OutInv(k)'
      <4> SUFFICES ASSUME NEW i \in 0 .. Count[k] - 1, NEW f \in Faces
                   PROVE  Sent(k, i, f)' <=> Sent(k, i, f)
        BY <1>0 DEF CoreInv, OutInv
      <4> QED BY <1>0 DEF Sent
    <3> QED BY <2>2, <3>1, <3>2, <3>3 DEF CoreInv
  <2> QED BY <2>1, <2>2
<1> QED BY <1>2, <1>3 DEF PipeInv

-----------------------------------------------------------------------------
\* Every step keeps the invariant.
THEOREM PipeStep == PipeInv /\ [Next]_vars => PipeInv'
<1> SUFFICES ASSUME PipeInv, [Next]_vars PROVE PipeInv'
  OBVIOUS
<1>1. ASSUME NEW k \in Cores, FillZero(k) PROVE PipeInv'
  BY <1>1, ZeroStep
<1>2. ASSUME NEW k \in Cores, Reader(k) PROVE PipeInv'
  BY <1>2, StartStep, GatherStep, PushStep DEF Reader
<1>3. ASSUME NEW k \in Cores, Writer(k) PROVE PipeInv'
  BY <1>3, ScatterStep, PopStep DEF Writer
<1>4. ASSUME NEW k \in Cores, Noc(k) PROVE PipeInv'
  BY <1>4, NocReadStep, NocWriteStep DEF Noc
<1>5. CASE UNCHANGED vars
  <2>1. TypeOK'
    BY <1>5 DEF vars, PipeInv, TypeOK
  <2>2. ASSUME NEW j \in Cores PROVE CoreInv(j)'
    BY <1>5, OtherCore DEF vars, PipeInv
  <2> QED BY <2>1, <2>2 DEF PipeInv
<1> QED BY <1>1, <1>2, <1>3, <1>4, <1>5 DEF Next, Terminated

\* Type correctness with the ring's bounds: cb_io is never overfilled.
THEOREM TypesHold == Spec => []TypeOK
<1>1. PipeInv => TypeOK
  BY DEF PipeInv
<1> QED BY <1>1, PipeInit, PipeStep, PTL DEF Spec

\* Every page the writer may read is the complete tile it expects.
THEOREM PublishedHolds == Spec => []PublishedExact
<1>1. PipeInv => PublishedExact
  BY DEF PipeInv, CoreInv, RingInv, PublishedExact
<1> QED BY <1>1, PipeInit, PipeStep, PTL DEF Spec

\* When every kernel has ended, everything has been delivered.
THEOREM EndsDelivered == Spec => [](AllDone => Promise!Delivered)
<1>1. ASSUME PipeInv, AllDone PROVE Promise!Delivered
  <2> SUFFICES ASSUME NEW t \in Tiles, NEW f \in job.live[t]
               PROVE  out[t][f] = Data(t, f)
    BY DEF Promise!Delivered
  <2>1. PICK k \in Cores : t \in T0[k] .. T0[k] + Count[k] - 1
    BY DEF Tiles
  <2> DEFINE i == t - T0[k]
  <2>2. /\ i \in 0 .. Count[k] - 1 /\ t = T0[k] + i /\ f \in Faces
        /\ popped[k] = Count[k]
    BY <1>1, <2>1, PipelineAssumption, MovedIsLive DEF PipeInv, TypeOK, AllDone
  <2> HIDE DEF i
  <2>3. Count[k] \in Nat
    BY PipelineAssumption
  <2>4. Sent(k, i, f)
    BY <2>2, <2>3 DEF Sent
  <2> QED BY <1>1, <2>2, <2>4 DEF PipeInv, CoreInv, OutInv
<1> QED BY <1>1, PipeInit, PipeStep, PTL DEF Spec

\* The program implements the abstract relayout: only a NoC write changes
\* the output, and it delivers a live face that had not been delivered.
THEOREM PipelineImplementsRelayout == Spec => ImplementsRelayout
<1>1. Init => Promise!Init
  BY DEF Init, Promise!Init
<1>2. ASSUME PipeInv, [Next]_vars PROVE [Promise!Next]_(Promise!vars)
  <2>1. ASSUME NEW k \in Cores, NEW g \in Faces, NocWrite(k, g)
        PROVE  Promise!Next
    <3>1. /\ WriteTile(k) \in Tiles /\ g \in job.live[WriteTile(k)]
          /\ out[WriteTile(k)][g] = Old
          /\ out' = [out EXCEPT ![WriteTile(k)][g] = Data(WriteTile(k), g)]
      BY <1>2, <2>1, Delivery
    <3>2. Promise!Deliver(WriteTile(k), g)
      BY <2>1, <3>1 DEF Promise!Deliver, NocWrite
    <3> QED BY <3>1, <3>2 DEF Promise!Next
  <2>2. ASSUME NEW k \in Cores, FillZero(k) \/ Reader(k) \/ Writer(k)
        PROVE  job' = job /\ out' = out
    BY <2>2 DEF FillZero, Reader, ReaderStart, Gather, Push, Writer, Scatter, Pop
  <2>3. ASSUME NEW k \in Cores, NEW g \in Faces, NocRead(k, g)
        PROVE  job' = job /\ out' = out
    BY <2>3 DEF NocRead
  <2>4. CASE UNCHANGED vars
    BY <2>4 DEF vars, Promise!vars
  <2> QED BY <1>2, <2>1, <2>2, <2>3, <2>4 DEF Next, Noc, Terminated, Promise!vars
<1> QED BY <1>1, <1>2, PipeInit, PipeStep, PTL
        DEF Spec, ImplementsRelayout, Promise!Spec
=============================================================================
