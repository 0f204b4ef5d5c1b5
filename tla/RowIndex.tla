------------------------------- MODULE RowIndex -------------------------------
(***************************************************************************)
(* get_rows and set_rows on the device.  Output tile ordinals are split    *)
(* over the cores; each core's reader and writer move them through cb_io   *)
(* in chunks of K tiles, one barrier per chunk.  The side of the indexed   *)
(* tensor (the reader of a gather, the writer of a scatter) first loads    *)
(* the whole index tensor to L1.                                           *)
(***************************************************************************)
EXTENDS Integers, Sequences, FiniteSets, Functions

CONSTANTS
  Cores, T0, Count,   \* cores, and the ordinals each of them does
  K,                  \* tiles per chunk
  IO_DEPTH,           \* pages of cb_io
  Shapes,             \* logical shapes of the indexed tensor
  TILE,
  Selections,         \* the index tensors, as functions 0 .. M-1 -> Int
  Junk, Old

-----------------------------------------------------------------------------
\* The host accepts a tensor whose tiles divide evenly over its outer axis.
TilesAcross(x) == (x + TILE - 1) \div TILE
num_pages(s) ==
  LET n == Len(s)
  IN  FoldFunctionOnSet(LAMBDA x, y : x * y, 1, s, 1 .. n - 2)
        * TilesAcross(s[n - 1]) * TilesAcross(s[n])
tiles_per_row(s) ==
  IF s[1] > 0 /\ (num_pages(s) % s[1]) = 0 THEN num_pages(s) \div s[1] ELSE 0

ASSUME RowIndexAssumption ==
  /\ K \in Nat \ {0} /\ IO_DEPTH \in Nat \ {0} /\ (IO_DEPTH % K) = 0
  /\ T0 \in [Cores -> Nat] /\ Count \in [Cores -> Nat]
  /\ \A j, k \in Cores : j # k => T0[j] + Count[j] <= T0[k] \/ T0[k] + Count[k] <= T0[j]
  /\ \A s \in Shapes, x \in Selections : tiles_per_row(s) # 0 =>
       UNION {T0[k] .. T0[k] + Count[k] - 1 : k \in Cores}
         = 0 .. Cardinality(DOMAIN x) * tiles_per_row(s) - 1

ASSUME CallAssumption ==
  /\ \A s \in Shapes : s[1] \in Int /\ num_pages(s) \in Nat
  /\ \A x \in Selections :
       /\ Cardinality(DOMAIN x) \in Nat
       /\ x \in [0 .. Cardinality(DOMAIN x) - 1 -> Int]

VARIABLES
  mode, shape, idx,      \* the call
  T,                     \* tiles per row, computed once by the host
  index,                 \* core -> has its indexed side the index tensor in L1
  rpc, pushed, reads,    \* reader: where it is, tiles pushed, reads in flight
  wpc, popped, writes,   \* writer: the same
  cb_io,                 \* core -> page -> source tile
  out                    \* destination tile -> source tile copied there

job == <<mode, shape, idx, T>>
reader == <<rpc, pushed, reads>>
writer == <<wpc, popped, writes>>
vars == <<job, index, reader, writer, cb_io, out>>

R == shape[1]
M == Cardinality(DOMAIN idx)

\* The kernels compare indices as unsigned numbers: a negative one is large.
AnyIndex(i) == 0 <= idx[i]    \* mutant: only negative indices are caught
InBounds(i) == 0 <= idx[i] /\ idx[i] < R

SourcePageRowOnly(ord) ==     \* mutant: the tile within the row is dropped
  IF mode = "scatter" THEN ord ELSE (IF InBounds(ord \div T) THEN idx[ord \div T] ELSE 0) * T
SourcePage(ord) ==
  IF mode = "scatter" THEN ord
  ELSE (IF InBounds(ord \div T) THEN idx[ord \div T] ELSE 0) * T + (ord % T)

\* A scatter writes nothing for an index out of bounds.
Skipped(ord) == mode = "scatter" /\ ~InBounds(ord \div T)
DestPage(ord) == IF mode = "gather" THEN ord ELSE idx[ord \div T] * T + (ord % T)

ChunkPartialFirst(k, done) ==    \* mutant: the short chunk comes first
  IF done = 0 /\ (Count[k] % K) # 0 THEN Count[k] % K ELSE K
ChunkFull(k, done) == K           \* mutant: the last chunk is not shortened
Chunk(k, done) == IF Count[k] - done < K THEN Count[k] - done ELSE K

\* cb_io hands out the address of a chunk's first page; the kernels count up
\* from it without wrapping.
BackPage(k, i) == (pushed[k] % IO_DEPTH) + (i - pushed[k])
FrontPage(k, i) == (popped[k] % IO_DEPTH) + (i - popped[k])

-----------------------------------------------------------------------------
Init ==
  /\ mode \in {"gather", "scatter"}
  /\ shape \in Shapes /\ T = tiles_per_row(shape) /\ T # 0
  /\ idx \in Selections
  /\ index = [k \in Cores |-> FALSE]
  /\ rpc = [k \in Cores |-> IF mode = "gather" THEN "start" ELSE "reserve"]
  /\ wpc = [k \in Cores |-> IF mode = "scatter" THEN "start" ELSE "wait"]
  /\ pushed = [k \in Cores |-> 0] /\ popped = [k \in Cores |-> 0]
  /\ reads = [k \in Cores |-> {}] /\ writes = [k \in Cores |-> {}]
  /\ cb_io = [k \in Cores |-> [p \in 0 .. IO_DEPTH - 1 |-> Junk]]
  /\ out = [p \in 0 .. (IF mode = "gather" THEN M ELSE R) * T - 1 |-> Old]

\* Load the index tensor behind a barrier of its own.
LoadIndex(k) ==
  /\ ~index[k]
  /\ index' = [index EXCEPT ![k] = TRUE]
  /\ \/ /\ rpc[k] = "start" /\ rpc' = [rpc EXCEPT ![k] = "reserve"]
        /\ UNCHANGED wpc
     \/ /\ wpc[k] = "start" /\ wpc' = [wpc EXCEPT ![k] = "wait"]
        /\ UNCHANGED rpc
  /\ UNCHANGED <<job, pushed, reads, popped, writes, cb_io, out>>

Gather(k) ==
  /\ rpc[k] = "reserve" /\ pushed[k] < Count[k]
  /\ pushed[k] - popped[k] + Chunk(k, pushed[k]) <= IO_DEPTH
  /\ reads' = [reads EXCEPT ![k] = pushed[k] .. pushed[k] + Chunk(k, pushed[k]) - 1]
  /\ rpc' = [rpc EXCEPT ![k] = "barrier"]
  /\ UNCHANGED <<job, index, pushed, writer, cb_io, out>>

NocRead(k, i) ==
  /\ i \in reads[k]
  /\ cb_io' = [cb_io EXCEPT ![k][BackPage(k, i)] = SourcePage(T0[k] + i)]
  /\ reads' = [reads EXCEPT ![k] = @ \ {i}]
  /\ UNCHANGED <<job, index, rpc, pushed, writer, out>>

ReadsNotAwaited(k) == TRUE    \* mutant: no read barrier
ReadsLanded(k) == reads[k] = {}

Push(k) ==
  /\ rpc[k] = "barrier" /\ ReadsLanded(k)
  /\ pushed' = [pushed EXCEPT ![k] = @ + Chunk(k, @)]
  /\ rpc' = [rpc EXCEPT ![k] = "reserve"]
  /\ UNCHANGED <<job, index, reads, writer, cb_io, out>>

Scatter(k) ==
  /\ wpc[k] = "wait" /\ popped[k] < Count[k]
  /\ pushed[k] - popped[k] >= Chunk(k, popped[k])
  /\ writes' = [writes EXCEPT ![k] =
       {i \in popped[k] .. popped[k] + Chunk(k, popped[k]) - 1 : ~Skipped(T0[k] + i)}]
  /\ wpc' = [wpc EXCEPT ![k] = "barrier"]
  /\ UNCHANGED <<job, index, reader, popped, cb_io, out>>

NocWrite(k, i) ==
  /\ i \in writes[k]
  /\ out' = [out EXCEPT ![DestPage(T0[k] + i)] = cb_io[k][FrontPage(k, i)]]
  /\ writes' = [writes EXCEPT ![k] = @ \ {i}]
  /\ UNCHANGED <<job, index, reader, wpc, popped, cb_io>>

Pop(k) ==
  /\ wpc[k] = "barrier" /\ writes[k] = {}
  /\ popped' = [popped EXCEPT ![k] = @ + Chunk(k, @)]
  /\ wpc' = [wpc EXCEPT ![k] = "wait"]
  /\ UNCHANGED <<job, index, reader, writes, cb_io, out>>

Noc(k) == \E i \in 0 .. Count[k] - 1 : NocRead(k, i) \/ NocWrite(k, i)

AllDone == \A k \in Cores : index[k] /\ popped[k] = Count[k]
Terminated == AllDone /\ UNCHANGED vars

Next ==
  \/ \E k \in Cores : LoadIndex(k) \/ Gather(k) \/ Push(k) \/ Scatter(k) \/ Pop(k) \/ Noc(k)
  \/ Terminated

\* The kernels have processors of their own and the NoC completes transfers.
Fairness ==
  \A k \in Cores :
    /\ WF_vars(LoadIndex(k)) /\ WF_vars(Gather(k) \/ Push(k)) /\ WF_vars(Scatter(k) \/ Pop(k))
    /\ \A i \in 0 .. Count[k] - 1 : WF_vars(NocRead(k, i)) /\ WF_vars(NocWrite(k, i))

Spec == Init /\ [][Next]_vars
FairSpec == Spec /\ Fairness

-----------------------------------------------------------------------------
\* No core pushes or pops more than its share, and cb_io is never overfilled.
TypeOK ==
  /\ mode \in {"gather", "scatter"} /\ shape \in Shapes /\ idx \in Selections
  /\ T \in Nat \ {0}
  /\ index \in [Cores -> BOOLEAN]
  /\ rpc \in [Cores -> {"start", "reserve", "barrier"}]
  /\ wpc \in [Cores -> {"start", "wait", "barrier"}]
  /\ pushed \in [Cores -> Nat] /\ popped \in [Cores -> Nat]
  /\ reads \in [Cores -> SUBSET Nat] /\ writes \in [Cores -> SUBSET Nat]
  /\ \A k \in Cores :
       /\ pushed[k] \in 0 .. Count[k] /\ popped[k] \in 0 .. pushed[k]
       /\ pushed[k] - popped[k] <= IO_DEPTH
       /\ reads[k] \subseteq 0 .. Count[k] - 1 /\ writes[k] \subseteq 0 .. Count[k] - 1
  /\ cb_io \in [Cores -> [0 .. IO_DEPTH - 1 -> Int \cup {Junk}]]

\* The addresses of a chunk stay inside the ring although the kernels do not
\* wrap them, and a transfer never touches a page the other side owns.
ChunksInRing ==
  \A k \in Cores :
    /\ \A i \in reads[k] : BackPage(k, i) = i % IO_DEPTH /\ i - popped[k] < IO_DEPTH
    /\ \A i \in writes[k] : FrontPage(k, i) = i % IO_DEPTH /\ i < pushed[k]

\* Every page the writer may read holds the tile its ordinal selects.
PublishedExact ==
  \A k \in Cores : \A i \in popped[k] .. pushed[k] - 1 :
    cb_io[k][i % IO_DEPTH] = SourcePage(T0[k] + i)

\* The tiles a core's writer has written.
CopiedBy(k) ==
  {i \in 0 .. Count[k] - 1 :
     /\ ~Skipped(T0[k] + i)
     /\ \/ i < popped[k]
        \/ wpc[k] = "barrier" /\ i < popped[k] + Chunk(k, popped[k]) /\ i \notin writes[k]}
copied == UNION {{<<(T0[k] + i) \div T, (T0[k] + i) % T>> : i \in CopiedBy(k)} : k \in Cores}

\* Every tile is copied at most once, from and to the row its index names,
\* whatever the order of chunks, transfers and cores.
Promise == INSTANCE RowCopy
ImplementsRowCopy == Promise!Spec

\* The call returns, even for indices out of bounds, and for a selection
\* without duplicates the destination is then what it should be.
Returns == <>[](AllDone /\ (mode = "gather" \/ Promise!Distinct => Promise!Result))
=============================================================================
