# A TLA+ model of ttprm

ttprm (`src/ttprm`) lets TTNN programs work on reshaped, sliced, permuted or
folded tensors without materialising them first. A chain of lazy layout verbs
over a tiled tensor is folded into one affine map; relayout, elementwise, norm
and row-indexed device programs then read or write the tensor through that map,
tile by tile, on a grid of cores with three kernels each.

This directory holds TLA+ modules of that system, TLC configurations that check
them on small instances, and TLAPS proofs of what matters most for all
instances. Module names, and the names of operators wherever TLA+ allows, are
those of the code; `PROJECT.json` maps every definition to the lines it models.

## 1. Inventory

A tile is 32 x 32 elements and one page of a tensor's buffer, stored as four
16 x 16 faces. Sixteen elements of one row of a face, a *face-row*, are the
largest run contiguous in memory and the unit of every viewed transfer.

| component (source) | state | operations | correct when |
|---|---|---|---|
| layout chain and planner (`view_access.hpp`, `View` in `ttprm.hpp`, `view_realize_op.cpp` 1630-1690) | shape, strides and base of a `LayoutView`; the tensor's logical and padded shape | `reshape slice permute fold squeeze_dim`, `plan` | an accepted chain presents exactly the elements array semantics selects, in face-rows the hardware can move |
| lowering and kinds (`view_realize.hpp`, `view_kind.hpp`, `tensor_view_args.hpp`) | none (an `AffineDesc`) | `lower`, `kind_of`, `make_grouped_desc`, `classify_operand` | a cheaper kind is chosen only where it moves the same elements |
| device views (`kernel/tensor_view.hpp`) | cursor of one kernel: output tile, source row and column | `reset`, `gather_tile`, `scatter_tile`, `advance` | the cursor agrees with the affine (or grouped) map after any walk |
| relayout (`view_realize_{reader,writer,compute}.cpp`) | circular buffers, NoC transfers in flight | three concurrent kernels per core | every live face-row is delivered once, padding is zero or untouched, all kernels end |
| elementwise (`view_add_*`, `view_ternary_*`, `view_k_update_*`) | the same, with one buffer per operand | `add sub mul fma lerp k_update` | each result element is made of the right elements however its operands are fed |
| norms, `mul_l2_norm`, `rk` (`view_norm_*`, `view_mull2_*`, `view_rk_*`) | up to sixteen buffers, the math unit's configuration | `l2_norm rms_norm layer_norm mul_l2_norm rk` | each row gets the statistics, scale and bias of its own row and columns; no buffer is overfilled; cores drain |
| indexed rows (`row_index_*`) | an index in L1, a ring filled in chunks | `get_rows set_rows` | tiles go from and to the rows the index names, once, also for bad indices |
| program factories and cache (`view_realize_op.cpp`) | programs cached by attributes and tensor specs | `invoke`, `create`, `override_runtime_arguments`, `compute_output_specs` | the lists the host packs are the ones the kernels unpack; buffer sizes and work splits fit the kernels; a reused program is the one its call would build |
| `Result`, validation, allocation | none | conditions on shapes, checks of single tensors | a call is refused exactly when its operands do not fit (shapes only) |
| host reference and simulator, tests, benchmarks, build files | - | - | - |

How they interact. A `View` is lowered on the host to an `AffineDesc`; an op
classifies its operands, splits the output tiles (or row-blocks) over cores
and hands each core, as runtime arguments, the view blocks and its first tile.
On a core, the reader constructs device views and gathers tiles into circular
buffers, the compute kernel consumes and produces tiles, the writer scatters
them; they share nothing but the buffers, through `cb_reserve_back`,
`cb_push_back`, `cb_wait_front` and `cb_pop_front`. Reads and writes over the
NoC are asynchronous and end at barriers. Cores share nothing but the output
tensor, which they write without order.

What is hard: the order of asynchronous transfers against pushes and pops;
three kernels blocking on small rings; data that must be resident for a whole
core's work; a cursor that is never recomputed; integer edges (padding, ragged
columns, wrapping poison); code paths chosen by comparing shapes. Nothing is
persisted, no message is lost, and nothing times out: crash recovery and
retries have no counterpart here. `PROJECT.json` lists the hazards line by line
with the properties that cover them.

## 2. Modules

| module | models | builds on |
|---|---|---|
| `Tiling` | physical addressing: `fdiv`, `fmod_`, face offsets | |
| `Arrays` | reference semantics of the verbs, free of strides and tiles | |
| `ViewChain` | anchors, verbs, `plan`, `lower`, `kind_of` | `Tiling`, `Arrays` |
| `TileCopy` | abstract: the cursor a device view promises | |
| `AffineView` | `AffineTensorView` | `Tiling`, implements `TileCopy` |
| `GroupedView` | `GroupedTensorView` and the grouped maps lerp and mul_l2_norm build | `Tiling`, implements `TileCopy` |
| `Relayout` | abstract: face-rows are delivered once, in any order | |
| `RealizePipeline` | the relayout program on all its cores | implements `Relayout` |
| `Elementwise` | abstract: result tiles appear once, made of the right elements | |
| `EltwiseLowering` | row maps, `classify_operand`, lerp's token shift: how each operand of an elementwise call is fed | |
| `Eltwise` | work split and kernels of the elementwise ops | `EltwiseLowering`, implements `Elementwise` |
| `RowCopy` | abstract: tiles are copied between the rows an index names | |
| `RowIndex` | `get_rows`, `set_rows` | implements `RowCopy` |
| `Instructions` | the calls norm kernels are written in, and what the math units do | |
| `KernelMachine` | one core running a reader, a compute and a writer program | `Instructions` |
| `NormKernels` | the three norm forms and mul_l2_norm as programs | `Instructions` |
| `RkKernel` | the rk update as programs | `NormKernels` |
| `OpLowering` | for every op: which calls are accepted and the operation attributes they become | `EltwiseLowering` |
| `ProgramCache` | program factories: work split, argument lists, buffers; the cache; what a hit rewrites | `OpLowering` |
| `ProgramKernels` | what the launched kernels make of their argument lists, against what the call means | `ProgramCache` |
| `MC*` | the instances TLC runs | |
| `*_proofs` | the theorems: `ViewChain`, `AffineView`, `GroupedView`, `RealizePipeline`, `Eltwise`, `RowIndex`, `ProgramCache`, `KernelMachine` | |

How state and actions correspond to the code:

- **ViewChain.** `L` is the `LayoutView`'s shape, strides and base; `shape_` and
  `padded_shape_` are the `View`'s. Each verb is an action, with the order in
  which the code applies and poisons ranges. Integers are two's complement of
  `W` bits, so that sums over `POISON` wrap as they do in 64 bits. `array` is a
  history variable: what the same verbs make of the elements, or `Undefined`.
  `plan()` is the predicate `ok` and `cls`, `lower()` the record `AffineDesc`.
- **AffineView.** `otr, otc, sr, sc` are the members of the view; `BeginTile`,
  `FaceRow` and `Advance` are the entry, an iteration of `each_face`, and
  `advance()`. `moves` records the transfers issued for the current tile. Gather
  and scatter share the walk and differ in direction only.
- **GroupedView.** The same cursor without source coordinates; `g, t` are the
  counter inside a tile; `GatherPage` is the whole-tile path.
- **RealizePipeline.** Per core, `rpc/wpc` are the positions of the kernels,
  `pushed/popped` their loop indices (their difference is what the circular
  buffer holds), `reads/writes` the transfers in flight. `NocRead` and
  `NocWrite` land one face-row each, in any order.
- **EltwiseLowering, Eltwise.** `Accepted`, `Widened`, `Resident` and
  `ShiftMaps` are `classify_operand`, lerp's token-shift branch and the ops' own
  tests; `Share`, `First` the work split; the kernels are written
  as in RealizePipeline with one buffer per operand. A tile in a buffer is its
  ordinal in the operand's view; `Element` says what it holds. A result is the
  tuple of operand elements, so the arithmetic is left out and what feeds it
  is not. What a call *means* (`Meant`) is stated in tensor rows, not through
  the maps and groups it is lowered to.
- **RowIndex.** Like RealizePipeline, in chunks of `K` tiles with addresses
  counted from the chunk's first page without wrapping.
- **OpLowering, ProgramCache, ProgramKernels.** A call is an op and its views;
  `Lowers` collects every shape test between the public function and
  `invoke`, `Attributes` what `invoke` stores. `cache` maps attributes and
  tensor specs to programs; `Launch` is a call: the outputs it resolves, a
  lookup, then `create` or `override_runtime_arguments`. A program is what is
  compiled in and one list of arguments per kernel and core, position by
  position as the factory pushes them; `ProgramKernels` reads the lists with
  the offsets that the kernels' sources use, written down from those sources
  and not from the factories. Tensors are rank two, or blocks of one padded
  row each where a batch dimension matters (indexed rows, canonical outputs).
- **KernelMachine.** `pc` is one program counter per kernel, `ring/rd/cnt` the
  circular buffers, `unit` the configuration the last `*_init` left. There is
  an action per call of the interface; loops are unrolled when a program is
  built in `NormKernels` and `RkKernel`. Reads land at their barrier, the latest
  they can. Reciprocal roots are kept as symbols and everything else is an
  exact integer: the model says *which* numbers are combined, not how they are
  rounded.

External to the repository, and modelled from its use: circular buffers, NoC
transfers and barriers, math units, TTNN's padding of shapes and its split of
work over cores.

## 3. Runs

Every run below that should pass explores its whole state space.

| run | instance | shows |
|---|---|---|
| `affine_view` | FACE 2, TILE 4; all aligned maps on sources of 4..8 x 4..8, outputs up to 6 x 10 | cursor, row cursor and transfers exact; implements `TileCopy` |
| `view_chain` | seven tensors of rank 2 to 4, chains of up to three verbs, W = 16 | accepted chains that present an element present what they select, in whole face-rows; their rows stay in the source and do not overlap; dense is a page copy |
| `grouped_view` | 1 to 8 tokens (tile 4), 1 to 3 groups, one and two tiles wide | counter exact, whole-page path equal to the row path, scatters disjoint; implements `TileCopy` |
| `realize_pipeline` | two cores with three and one tiles, two-page ring, two face-rows a tile, every live mask | published pages complete, implements `Relayout`, ends |
| `eltwise` | eleven accepted calls, two of them token shifts, and three rejected ones, two cores, two-page rings, TILE 2 | published tiles right, implements `Elementwise`, ends |
| `row_index` | two cores with five and three tiles, K = 2, IO_DEPTH = 4; permuting, duplicate and out-of-range indices | chunks stay in the ring, implements `RowCopy`, returns |
| `reductions` | 23 norm calls and five rk calls, TILE 2, narrow up to 2 tiles, streams of 2 pages | only defined values are written, chunks never wrap, no overfill, pages land before they are published and stay until popped, cores drain |
| `calls` | sixteen sessions of two to four calls of all the ops, some of them refused; two cores, addresses 10 and 20, two memories; TILE 2, rows wider than 2 tiles are wide, K = 2, IO_DEPTH = 4 | every launch is the one its call would build and delivers what the call means, inside its tensors; the kernels of a core agree on their counts and rings |

Four runs have a counterexample; see section 7.

Why the bounds are enough. FACE and TILE are parameters of the code's
arithmetic and only their ratio (two faces a tile) is structural; sources
narrower, as wide as and wider than the output, rows starting in either
face, ragged last rows and columns and tile rows that cross source rows all
occur at 4 x 4 to 8 x 8. Rings wrap: in every pipeline run a core has more
tiles than its ring has pages. Two cores are enough for anything about
cores, which share only the output; the mixed cases of one core (a share
that starts inside a group, an uneven split) need no third. Chains of three
verbs contain every pair in both orders and a verb after a poisoning one;
sixteen bits leave the elements of these tensors far from the sentinel and
still let sums and products over it wrap. For the reductions, each of the
code's forms (narrow, wide, folded; resident and streamed) is reached by
widths just below, at and above the limits, and one core is modelled at a
time because cores differ only in their share of the row-blocks.
For `calls`, a session holds the calls that could be mistaken for one another:
same specs with different attributes, same attributes with different specs,
bound and unbound outputs, another memory. Any order and repetition at two
addresses puts every call after every other of its session, each both as a
miss and as a hit whose addresses all changed; sessions do not mix because a
key contains the op and its attributes, and the theorem `LaunchesFresh` needs
no bound. Two cores with an uneven number of work units reach the second core's
offsets, phases and residency tests.
CHECK_DEADLOCK is off only in the chain runs, where a program may stop
calling verbs at any time; elsewhere the end is an explicit `Terminated` step
and any other stop is an error.

Fairness. The pipelines assume weak fairness of each kernel and of the
NoC's transfers, and `KernelMachine` of each kernel. Each kernel runs on a RISC-V processor of its own, its waits are
polls of counters that only the other side moves, and once enabled they remain
enabled, so weak fairness is what the hardware gives. No strong
fairness and no order between cores is assumed. `ViewChain`, `AffineView` and
`GroupedView` are sequential code and have no liveness property; `ProgramCache`
is driven by its caller, who need not call again.

Every property of a passing run has a mutant in `PROJECT.json`: a plausible
slip in one mapped definition (marked `\* mutant` in the module) under which
TLC finds that property violated.

## 4. Proofs

`tlapm` proves the following for all values of the constants, from the
assumptions named in the modules, which TLC evaluates on every instance: FACE
positive and TILE twice FACE (`TilingAssumption`); affine maps with a positive
source width; grouped maps with a positive period and grid width, over sources of
whole tiles, whose rows begin at faces and do not overlap
(`EndpointsAssumption`), and scatters that are lerp's canonical ones
(`ScattersAssumption`); disjoint shares of tiles per core; at least one page in
a ring, and for indexed rows a ring that is a whole number of chunks (the code's
`IO_DEPTH` is a multiple of its `K`) and shares that together are the call's
tiles; calls of two or three operands, none of them empty, for the elementwise
ops (`CallsAssumption`), and for what the kernels do calls with the operands their
op has, none of them empty (`OperandsAssumption`: an empty slice is accepted by
the code, which then divides by its number of tiles, see the hazard at
`view_access.hpp:119`); a ring of whole chunks (`RingAssumption`,
`view_realize_op.cpp:1143`), views whose rows lie inside their padded tensor and
do not overlap (`ViewsAssumption`: the map is that of a view the planner
accepted, of which `RowsApartHold` of `ViewChain_proofs` proves it; it also says that `set_rows` is given
its output, that only elementwise ops can be asked for a canonical result, and
that weights not given as views are tensors) and padding that is no element
(`ZeroAssumption`); integers of `W` bits,
`2^W` being twice `2^(W-1)` (`WidthAssumption`). Some theorems name further
hypotheses in their statement: `Arguments`, `RegularCalls`, `RegularFeed`,
`RegularNorm`, `RegularOut`, `ReductionsLoaded`, and the two of `AcceptedHolds`,
explained below.

- **ViewChain_proofs**: `TypesHold`, `FaceRowsHold`, `DenseHolds`,
  `AcceptedHolds`, `RowsApartHold`, for tensors and chains of any rank, size and
  length.
  `Arguments` is what they ask of the caller: tensors without empty axes whose
  padded elements are fewer than the sentinel's magnitude, reshapes to at least
  one axis whose row-major strides are below it too, ranges and permutations that
  are ranges and permutations. `MCReshapeArgs` is filtered by the same condition,
  so that the `view_chain` instance satisfies `Arguments`. The types
  (`TypeInv`) say that the tensor is padded in its last two axes at most
  (`BindInv`) and that the layout is one word per stride (`LayoutInv`), whatever
  wrapped. `FaceRowsWhole` and `DenseIsPageCopy` follow from the types and from
  what `plan()` and `kind_of` test; a dense map's pages are the source's because
  the face offsets depend on row and column alone.
  `AcceptedHolds` rests on `ChainInv`: the layout is empty, or poisoned, or
  `Exact`. `Exact` says that for every coordinate of the shape the array's
  element is at base plus the sum of coordinate times stride, and is an element
  of the source. Each verb keeps it: a permutation reorders the terms of the
  sum, a fold or reshape splits or merges adjacent digits (`Place`, `Address`),
  and a slice scales and shifts them. Products and sums of words may wrap, but
  only in a stride no coordinate uses (`StrideExact`). Poison is kept as
  "every stride is POISON or 0, or the view is one element": a stride that a verb
  multiplies by an even number wraps to 0 (`WrapPoison`), and a reshape of a single element
  gives clean strides again, so nothing stronger is inductive and nothing weaker
  keeps such a view from being accepted with elements in it. `plan()` then
  reduces an accepted view to one base and one row step. The theorem needs
  `~SqueezeLate`, without which it is false (`squeeze_late`, section 7), and
  face-rows of more than one element. An *empty* slice of a poisoned single
  element has clean strides and is accepted although its chain had no meaning;
  it presents nothing, and `AcceptedExact` speaks of views that present an
  element.
  `RowsApartHold` is the link to the device: base, row step and extent of an
  accepted view meet what `EndpointsAssumption` and `ViewsAssumption` ask of a
  map. Its two hypotheses are those of `AcceptedHolds`, and it needs two more
  parts of `Exact` that each verb keeps. Strides of axes with more than one
  element are positive (`Rising`), so the row step, a sum of such strides, is not
  negative (`RowsGrow`). No element is presented twice (`Distinct`): a slice or a
  permutation takes different coordinates to different places (`Apart`). A row
  step shorter than a row would then present an element of row 1 in row 0 as well.
  Shapes and sums are data of any length. The module gets its induction from
  least elements of sets of naturals (`Least`, `Induction`) and shows the
  recursive functions `Total` and `Extent` to exist (`Recursion`), so no theorem
  with an operator parameter is needed.
- **Eltwise_proofs**: `TypesHold`, `PublishedHolds`,
  `FeedImplementsElementwise`, `RegularCallsDeliver`. `FeedInv` says that a
  group of tiles divides the output (`CallInv`), and for each core: counts of
  sent, made and written tiles stay within a ring of each other (`CountsInv`);
  what a reader has asked for is in flight or in its page (`ReaderInv`); pages
  between made and sent, the published group and the packed results are right
  (`RingInv`, `ComputeInv`); tiles of the output not yet reached are untouched
  (`OutInv`). A step of one core leaves the others' facts alone since shares do
  not meet (`SharesApart`). A written tile is then right *as fed*;
  it is right *as meant* when the tiles an operand is fed with hold the rows the
  call means, `OperandsCover`. `RegularCovers` proves that for calls whose
  operands are as wide as the output and have its rows, one row, whole tile rows,
  or the rows of a token shift (`RegularCalls`), through quotients and remainders
  of rows, tiles and groups. Calls that are accepted and not regular exist: they
  are the finding `eltwise_reshaped`.
- **AffineView_proofs**: `TypesHold`, `OdometerExact`, `RowCursorHolds`,
  `TransfersExact`, `ViewImplementsTileCopy`. `CarryAdds` is the heart: one
  conditional carry adds an increment to a (row, column) coordinate and keeps
  the column in range. `DivModUnique` turns "row * Cs + col = k with col in
  range" into quotient and remainder. `CursorExact` alone is not inductive: the
  invariant also needs the types of the map, the row coordinate inside the loop
  (`RowCursorExact`) and the loop bound; the transfers are then proved row by
  row, each `FaceRow` adding exactly the next row of the reference. The
  refinement follows since a finished tile's transfers are the reference and
  everything else stutters.
- **GroupedView_proofs**: `TypesHold`, `GroupedCounterExact`: type invariant and
  counter together, with the loop bound, are inductive. `ScattersDisjoint`:
  where a scatter puts an element is a chain of splits into quotient and
  remainder (block and row, source row and column, tile and place, face and
  face-row), and `SplitUnique` undoes them one by one.
  `GroupedImplementsTileCopy`: `FacePlace` shows that the C operators and
  division give one place for a face whose first element is face-aligned
  (`FaceAligned`), and `PageExact` that a page taken by `whole_tile_ok` is the
  tile: its rows are consecutive rows of one group because the period is whole
  tiles. The invariant `ViewInv` then grows the transfers row by row.
- **RealizePipeline_proofs**: `TypesHold`, `PublishedHolds`, `EndsDelivered`,
  `PipelineImplementsRelayout`. The invariant `PipeInv` is the type invariant
  and, for each core, four facts: what a reader behind its gather has in
  flight and already in the page (`ReaderInv`), what the writer has in flight
  (`WriterInv`), that the pages between popped and pushed are complete
  (`RingInv`), and that the output holds exactly what has been sent
  (`OutInv`). A lemma shows that a step of one core leaves the others' facts
  alone, which uses that shares are disjoint. `PublishedExact` by itself is
  not inductive: pushing a page needs `ReaderInv`, and gathering into a page
  needs that a page beyond the published ones is no published one modulo
  `Depth`.
- **RowIndex_proofs**: `TypesHold`, `ChunksStayInRing`, `PublishedHolds`,
  `CopiesImplementRowCopy`. `CopyInv` is built like `PipeInv`, with one more
  fact per core: both counters are multiples of K until the share's end
  (`Aligned`). The code computes the addresses of a chunk from its first page
  without wrapping, and only together with K dividing IO_DEPTH does `Aligned`
  keep a chunk inside the ring (`ChunkFits`). The refinement maps each landed
  write to a copy of one tile; everything before it stutters.
- **ProgramCache_proofs**: `LaunchesFresh`, `TypesHold`, `LaunchesAgree`,
  `LaunchesDeliver`, `LaunchesStayInside`. A hit is right when the cached
  program differs from the one the call would build in buffer addresses only.
  `CacheInv` therefore says that every cached program is what `create` gives
  for *some* call with its key. `SameKey` shows that such a call has the same
  compiled part, cores and argument lists but for addresses (all else is made
  of attributes and specs, which the key holds), and `OverrideAnew` that what
  `override_runtime_arguments` rewrites is exactly the rest. An attribute
  left out of the key, or an address left out of the override, breaks a named
  step.
  `TypesHold` and `LaunchesAgree` are the invariants `TypeOK` and `KernelsAgree` of `ProgramKernels`,
  for every accepted call of every op. By `LaunchInv`, a part of `CacheInv`, the
  last launch is that of an accepted call and is what building anew would give, so
  it is enough to look at what `create` packs. The view blocks are laid end to end
  (`BlocksPacked`), so the offset at which a kernel expects a block or the end of
  its list is where packing put it, for any mixture of dense, affine and grouped
  views. One lemma per op (`EltwiseArgs`, `NormArgs`, `GlobalArgs`, `MulL2Args`,
  `RkArgs`, `RealizeArgs`, `RowCopyArgs`) reads the scalars of the three lists at
  the kernels' offsets; the `Agree` lemmas then compare them. That a buffer is a
  multiple of what its reader reserves at once needs its divisors positive:
  groups, rows and grids have tiles because no operand is empty
  (`GroupPositive`, `NormMapPositive`, `GridsPositive`). A folded norm is the
  work of one core (`OneGlobal`).
  `LaunchesDeliver` follows the data. The cores' shares, one after the other,
  are the tiles of the output (`CoreTiles`, `CoreTile`). A view gives at a cell
  of its tile the element that its map gives for the cell's row and column, and
  zero outside the map, whether it is walked as dense, affine or grouped
  (`MapFetch`, `BlockWalks`). So the stores with something in them are the
  result's elements, each in its place and none twice (`StoreTarget`,
  `StoresApart`, `StoresCover`), folded rows and scattered tokens included
  (`FoldedMap`, `CanonicalRow`). What is left is that each is made of what is
  meant (`CellsRight`), and for a reduction that the cells taken with it are its
  row and padding (`ReducedRight`); `StoresDeliver` then counts. `CellsRight`
  is shown op by op: operands walked beside the output (`StreamedRight`),
  repeated rows (`GroupedMap`), groups that stay resident (`GroupTile`,
  `ResidentRight`), token shifts (`ShiftRight`), the rewound weights of `rk`
  (`RkRight`), weights of a norm (`RowWeight`, `FoldedWeight`). Indexed copies
  are counted page by page (`CopiesDeliver`).
  `LaunchesStayInside` then needs only that what is *meant* is inside: a row of
  an operand, stretched or repeated, is a row of its view (`MeantStep`,
  `OperandInside`), and a result's row is one of the bound tensor or, in blocks
  of whole tile rows when it is canonical, of the one that is allocated
  (`BlockRows`, `ResultInside`).
  Both say what they ask of a call. `RegularFeed`, as `RegularCalls` above: the
  operands of an elementwise op are as wide as the output, those with fewer rows
  are one row or whole tile rows, and a token shift has a row of `a` and `b` for
  each token and weights as far apart as the host takes them to be.
  `RegularNorm`: a folded norm with weights has an `x` that begins where its
  tensor does and lies in one row of it. `RegularOut`, for staying inside only: a
  canonical result is allocated, not bound. Accepted calls outside of the first
  two are the findings `eltwise_reshaped` and `folded_norm_slice`, and the last
  is an observation in section 8. Every call that the run `calls` launches
  satisfies all three, so the run and the theorems speak of the same launches.

- **KernelMachine_proofs**: `ReductionsTypes`, `ReductionsChunks`,
  `ReductionsLanded`, `ReductionsStable`, each of them
  `ReductionsLoaded /\ Spec => ...`. `ReductionsLoaded` says that every loaded
  program is what the host builds for some call that passes its checks
  (`NormCall`, `RkCall`): rows of any number and length, on any of any number of
  cores, in any of the forms. The calls of the run `reductions` are selected by
  the same two predicates.
  The argument has two halves. The first is about `KernelMachine` alone.
  `Disciplined` is what a program must keep to: each buffer is filled by one
  kernel and emptied by one, all it is filled with comes in chunks of one size
  and all it is emptied by too, either size divides its capacity, and
  what is pushed, gathered or stored has been reserved, what is popped awaited,
  what is published has landed. `MachineInv` is inductive for disciplined
  programs: after a `reserve` and until the push there is room for it
  (`ReservedInv`), after a `wait` and until the pop there are its pages
  (`AwaitedInv`), both because the other kernel can only move the count the
  other way; where the next chunk begins is a multiple of its size
  (`GrainInv`), which is why a chunk never wraps; and reads in flight are into
  pages beyond the published ones, issued since the last barrier (`FlightInv`).
  None of the checked properties is inductive without these: that a push fits,
  say, depends on a reserve several calls back, made before the consumer popped.
  The second half is `ReductionsDisciplined`: every program the host builds is
  disciplined. `Disciplined` quantifies over all earlier calls of a sequence
  whose length depends on the call, so the proof carries an *outline* instead:
  `Leads(q, c, s, d)` says that the calls `s` take a kernel from having reserved,
  in flight and awaited the buffers in `c` to those in `d`, each call allowed
  where it stands. Outlines compose along `\o` (`Joined`), conditions (`Maybe`)
  and loops (`Loop`, by induction over least elements), so a kernel is shown
  piece by piece in the order its source is written; `LeadsOrderly` turns the
  outline of a whole kernel into its part of the discipline. `GroupFits` is
  the only place where a capacity is not plainly a multiple of its chunk: a
  resident group in the buffer of a streamed one is one or two rows.
  `NormAssumption` (a tile has lanes, a stream pages) is all that is assumed of
  the constants.

Quotients and remainders are unique (`DivModUnique`) and positions less than a lap
of a ring apart are different pages (`LapDistinct`) in every module that
needs it.

Model-checked only: every liveness property (halting, returning), which is out
of the prover's reach; and what the reductions compute (`WritesExact`), which is
about folds over tiles that are data and symbols for what is not computed.

## 5. Not modelled

- Arithmetic: bfloat16 rounding, math fidelity, fp32 accumulation, and how many
  tiles the destination registers hold.
- TTNN and TT-Metal: the cache's hash and eviction (it is a map), allocation,
  program launch, accessors beyond the memory and address they name.
- The truncation of 64-bit descriptors to 32-bit arguments: it needs tensors of
  more than 2^31 elements, beyond TLC's integers.
- Aliasing of input and output of a relayout that moves elements (declared
  unsafe), lifetimes of tensors behind a `View`.
- Checks of a single tensor's layout, dtype and storage; `realize_ref()`.
- Tests, benchmarks, build files and dependencies.

## 6. Plan

What is left: `WritesExact` for every call, the tiles of `KernelMachine` as the
partial results of `Normed` and `Updated`; and one specification in which a view
made by `ViewChain` is walked by `AffineView`, instead of two that meet in
`RowsApart`.

## 7. Findings

Each is a run whose one property TLC finds violated by what the code does.
`squeeze_late` runs `SliceSqueezeSpec` of `MCViewChain`: `Init` and the actions of
`ViewChain`, of which only `slice` and `squeeze_dim` are taken, on one tensor
without padding, so that what is presented wrongly is what the slice took away.

| run | what happens |
|---|---|
| `squeeze_late` | `squeeze_dim` rebuilds the layout from the tensor's shape: a view sliced and then squeezed is accepted and presents the whole tensor, what the slice had removed included |
| `eltwise_reshaped` | with an explicit, reshaped output the row count is taken from its tensor, and a one-row operand of the output's tile count is streamed instead of replicated |
| `layer_norm_padding` | the narrow layer_norm squares the padding lanes of a row that ends inside a tile, after subtracting the mean from them |
| `folded_norm_slice` | a folded norm gathers scale and bias through the view of x, its first element included |

## 8. Observations

Seen while modelling, with no run of their own:

- `kind_of` looks at the map only; the planner's class TILE, ROW or SEGMENT is
  diagnostic. `DenseIsPageCopy` shows that whatever it sends to whole-page
  transfers is of class TILE.
- `set_rows` with an index that occurs twice leaves tiles of either source row,
  possibly of both; `Returns` promises the result for distinct indices only.
- `tiles_per_row` only tests divisibility. A matrix of 32 rows and 1024 columns
  has 32 pages, so T = 1, and "row" r is the block of columns 32 r .. 32 r + 31
  of all 32 rows.
- A narrow layer_norm is right when the width is a multiple of 32, a wide
  or mean-free one always.
- A narrow row of up to 32 tiles is computed between one acquire and
  commit of the destination registers; whether an acquire gives that many
  depends on the hardware and on fp32 accumulation.
- Permutations are not validated, and empty slices are accepted.
- Without an output, operands that tie in tile counts give the result the shape
  of the first of them (`view_realize_op.cpp:1772`): `add(row, x)` of one row
  and a matrix of one tile row has one row, and so has lerp on a tie, although
  the comment at :1764 speaks of the largest operand.
- lerp with a bound output and `canonical_out` does not check that the bound
  tensor has the batch-padded rows the result is scattered to, and its
  token-shift branch takes row counts from tensors, not from views: operands
  that are row slices are taken for the token shift by their tensors' rows.
- The environment variables read when a norm or rk is built (fidelity,
  fp32 accumulation) are not part of the cache's key.
- A folded norm whose x is a reshape of several padded tensor rows reads its
  scale through x's map too (as in `folded_norm_slice`).
