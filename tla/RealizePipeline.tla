--------------------------- MODULE RealizePipeline ---------------------------
(***************************************************************************)
(* The relayout program as it runs on the device.  Every core runs three   *)
(* kernels at once: a reader that assembles output tiles in the circular   *)
(* buffer cb_io, a writer that drains them to the output tensor, and a     *)
(* compute kernel that fills the zero tile (CB 31) readers seed padded     *)
(* tiles from.  The NoC completes the transfers the kernels issued one by  *)
(* one, in any order; a barrier waits for all of them.                     *)
(*                                                                         *)
(* What a tile's face-rows are and where they live is AffineView's matter: *)
(* here a face is a member of Faces and its data the pair <<tile, face>>.  *)
(***************************************************************************)
EXTENDS Integers, FiniteSets

CONSTANTS
  Cores,     \* cores running the program
  T0,        \* runtime argument t0: a core's first tile
  Count,     \* runtime argument n_tiles: how many tiles a core does
  Depth,     \* pages of cb_io
  Faces,     \* face-rows of a tile
  Zero,      \* pad value
  Junk,      \* what L1 held before the program started
  Old        \* what the output held before the program started

Tiles == UNION {T0[k] .. T0[k] + Count[k] - 1 : k \in Cores}

ASSUME PipelineAssumption ==
  /\ T0 \in [Cores -> Nat] /\ Count \in [Cores -> Nat]
  /\ \A j, k \in Cores : j # k => T0[j] + Count[j] <= T0[k] \/ T0[k] + Count[k] <= T0[j]
  /\ Depth \in Nat \ {0}

VARIABLES
  job,      \* kinds of the two endpoints and the live faces of every tile
  zero,     \* core -> has the compute kernel pushed the zero tile
  rpc,      \* core -> where its reader is
  pushed,   \* core -> tiles pushed to cb_io so far (the reader's loop index)
  reads,    \* core -> faces whose NoC read is in flight
  wpc,      \* core -> where its writer is
  popped,   \* core -> tiles popped from cb_io so far (the writer's index)
  writes,   \* core -> faces whose NoC write is in flight
  cb_io,    \* core -> page -> face -> data
  out       \* the output tensor: tile -> face -> data

vars == <<job, zero, rpc, pushed, reads, wpc, popped, writes, cb_io, out>>

Kinds == {"dense", "affine"}
Data(t, f) == <<t, f>>

\* An endpoint is lowered to whole-page transfers only if nothing is padded.
Jobs == {j \in [in : Kinds, out : Kinds, live : [Tiles -> SUBSET Faces \ {{}}]] :
           "dense" \in {j.in, j.out} => \A t \in Tiles : j.live[t] = Faces}

ReadTile(k) == T0[k] + pushed[k]
WriteTile(k) == T0[k] + popped[k]
BackPage(k) == pushed[k] % Depth     \* get_write_ptr(cb_io)
FrontPage(k) == popped[k] % Depth    \* get_read_ptr(cb_io)

MovedWhole(kind, t) == Faces    \* mutant: padding is transferred too
Moved(kind, t) == IF kind = "dense" THEN Faces ELSE job.live[t]

-----------------------------------------------------------------------------
Init ==
  /\ job \in Jobs
  /\ zero = [k \in Cores |-> FALSE]
  /\ rpc = [k \in Cores |-> "start"]
  /\ pushed = [k \in Cores |-> 0]
  /\ reads = [k \in Cores |-> {}]
  /\ wpc = [k \in Cores |-> "wait"]
  /\ popped = [k \in Cores |-> 0]
  /\ writes = [k \in Cores |-> {}]
  /\ cb_io = [k \in Cores |-> [p \in 0 .. Depth - 1 |-> [f \in Faces |-> Junk]]]
  /\ out = [t \in Tiles |-> [f \in Faces |-> Old]]

\* Mutant: the tile is packed but never pushed.
FillZeroUnpushed(k) == ~zero[k] /\ UNCHANGED vars

\* The compute kernel fills the zero tile and pushes it.
FillZero(k) ==
  /\ ~zero[k]
  /\ zero' = [zero EXCEPT ![k] = TRUE]
  /\ UNCHANGED <<job, rpc, pushed, reads, wpc, popped, writes, cb_io, out>>

\* The reader waits for the zero tile if its view seeds tiles from it.
ReaderStart(k) ==
  /\ rpc[k] = "start"
  /\ job.in = "affine" => zero[k]
  /\ rpc' = [rpc EXCEPT ![k] = "reserve"]
  /\ UNCHANGED <<job, zero, pushed, reads, wpc, popped, writes, cb_io, out>>

\* Reserve a page, seed it (the seed copy completes before gather_tile goes
\* on) and issue the reads of the tile.
SpaceFreeLate(k) == pushed[k] - popped[k] <= Depth    \* mutant
SpaceFree(k) == pushed[k] - popped[k] < Depth

Gather(k) ==
  /\ rpc[k] = "reserve"
  /\ pushed[k] < Count[k]
  /\ SpaceFree(k)
  /\ cb_io' = IF job.in = "dense" THEN cb_io
              ELSE [cb_io EXCEPT ![k][BackPage(k)] =
                      [f \in Faces |-> IF zero[k] THEN Zero ELSE Junk]]
  /\ reads' = [reads EXCEPT ![k] = Moved(job.in, ReadTile(k))]
  /\ rpc' = [rpc EXCEPT ![k] = "barrier"]
  /\ UNCHANGED <<job, zero, pushed, wpc, popped, writes, out>>

NocRead(k, f) ==
  /\ f \in reads[k]
  /\ cb_io' = [cb_io EXCEPT ![k][BackPage(k)][f] = Data(ReadTile(k), f)]
  /\ reads' = [reads EXCEPT ![k] = @ \ {f}]
  /\ UNCHANGED <<job, zero, rpc, pushed, wpc, popped, writes, out>>

\* Past the read barrier the page is pushed and the view advances.
ReadsNotAwaited(k) == TRUE    \* mutant: no read barrier
ReadsLanded(k) == reads[k] = {}

Push(k) ==
  /\ rpc[k] = "barrier"
  /\ ReadsLanded(k)
  /\ pushed' = [pushed EXCEPT ![k] = @ + 1]
  /\ rpc' = [rpc EXCEPT ![k] = "reserve"]
  /\ UNCHANGED <<job, zero, reads, wpc, popped, writes, cb_io, out>>

\* The writer waits for a page and issues the writes of the tile.
Scatter(k) ==
  /\ wpc[k] = "wait"
  /\ popped[k] < Count[k]
  /\ pushed[k] - popped[k] >= 1
  /\ writes' = [writes EXCEPT ![k] = Moved(job.out, WriteTile(k))]
  /\ wpc' = [wpc EXCEPT ![k] = "barrier"]
  /\ UNCHANGED <<job, zero, rpc, pushed, reads, popped, cb_io, out>>

NocWrite(k, f) ==
  /\ f \in writes[k]
  /\ out' = [out EXCEPT ![WriteTile(k)][f] = cb_io[k][FrontPage(k)][f]]
  /\ writes' = [writes EXCEPT ![k] = @ \ {f}]
  /\ UNCHANGED <<job, zero, rpc, pushed, reads, wpc, popped, cb_io>>

WritesLanded(k) == writes[k] = {}

Pop(k) ==
  /\ wpc[k] = "barrier"
  /\ WritesLanded(k)
  /\ popped' = [popped EXCEPT ![k] = @ + 1]
  /\ wpc' = [wpc EXCEPT ![k] = "wait"]
  /\ UNCHANGED <<job, zero, rpc, pushed, reads, writes, cb_io, out>>

Reader(k) == ReaderStart(k) \/ Gather(k) \/ Push(k)
Writer(k) == Scatter(k) \/ Pop(k)
Noc(k) == \E f \in Faces : NocRead(k, f) \/ NocWrite(k, f)

AllDone == \A k \in Cores : zero[k] /\ rpc[k] = "reserve" /\ popped[k] = Count[k]
Terminated == AllDone /\ UNCHANGED vars

Next == (\E k \in Cores : FillZero(k) \/ Reader(k) \/ Writer(k) \/ Noc(k)) \/ Terminated

\* Every kernel runs on a processor of its own and the NoC completes what it
\* was given, so none of them stops while it can go on.
Fairness ==
  \A k \in Cores :
    /\ WF_vars(FillZero(k)) /\ WF_vars(Reader(k)) /\ WF_vars(Writer(k))
    /\ \A f \in Faces : WF_vars(NocRead(k, f)) /\ WF_vars(NocWrite(k, f))

Spec == Init /\ [][Next]_vars
FairSpec == Spec /\ Fairness

-----------------------------------------------------------------------------
Values == {Zero, Junk, Old} \cup {Data(t, f) : t \in Tiles, f \in Faces}

\* cb_io never holds more pages than it has, and the pages in it belong to
\* the core's own tiles.
TypeOK ==
  /\ job \in Jobs
  /\ zero \in [Cores -> BOOLEAN]
  /\ rpc \in [Cores -> {"start", "reserve", "barrier"}]
  /\ wpc \in [Cores -> {"wait", "barrier"}]
  /\ reads \in [Cores -> SUBSET Faces] /\ writes \in [Cores -> SUBSET Faces]
  /\ pushed \in [Cores -> Nat] /\ popped \in [Cores -> Nat]
  /\ \A k \in Cores : /\ popped[k] <= pushed[k] /\ pushed[k] <= Count[k]
                      /\ pushed[k] - popped[k] <= Depth
  /\ cb_io \in [Cores -> [0 .. Depth - 1 -> [Faces -> Values]]]
  /\ out \in [Tiles -> [Faces -> Values]]

\* A tile as the reader must assemble it.
Assembled(t) == [f \in Faces |-> IF f \in job.live[t] THEN Data(t, f) ELSE Zero]

\* Every page the writer may read is the complete tile it expects: no read
\* still in flight, no page of an earlier lap, no page whose padding was
\* seeded before the zero tile existed.
PublishedExact ==
  \A k \in Cores : \A i \in popped[k] .. pushed[k] - 1 :
    cb_io[k][i % Depth] = Assembled(T0[k] + i)

\* Whatever the interleaving of kernels, NoC and cores, the output changes
\* only by the delivery, once, of a live face with the input's data.
Promise == INSTANCE Relayout WITH Source <- Data, live <- job.live
ImplementsRelayout == Promise!Spec

\* Every kernel of every core ends, and by then everything is delivered.
Halts == <>[](AllDone /\ Promise!Delivered)
=============================================================================
