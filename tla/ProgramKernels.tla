---------------------------- MODULE ProgramKernels ----------------------------
(***************************************************************************)
(* What the kernels of a launched program do, read off their argument      *)
(* lists by the offsets in their sources: which tile of which view each    *)
(* operand is fed for a tile of output, and where that tile is stored.     *)
(* Buffers and interleavings are not part of this: the modules Eltwise,    *)
(* KernelMachine, RealizePipeline and RowIndex show that a kernel moves    *)
(* the tiles its counts name, in order.                                    *)
(***************************************************************************)
EXTENDS ProgramCache

\* A call of an op passes the operands that the op has, none of them empty, and
\* no empty output.
Operands(o) ==
  IF o \in {"realize"} THEN {1}
  ELSE IF o \in Norms THEN 1 .. 3
  ELSE IF o \in Binary \cup RowCopies \cup {"mul_l2_norm"} THEN {2}
  ELSE IF o \in Eltwise THEN {3}
  ELSE {5}
NonEmpty(d) == d.Ro \in Nat \ {0} /\ d.Co \in Nat \ {0}
ASSUME OperandsAssumption ==
  \A c \in UNION Sessions :
    /\ c.op \in Eltwise \cup Norms \cup RowCopies \cup {"realize", "mul_l2_norm", "rk"}
    /\ \E n \in Operands(c.op) : DOMAIN c.views = 1 .. n /\ Len(c.views) = n
    /\ \A x \in DOMAIN c.views : NonEmpty(c.views[x].desc)
    /\ c.out # NoOut => NonEmpty(c.out.desc)

\* Tensors are padded to whole tiles, and a view's rows lie in its tensor and do
\* not overlap: a view presents a linear map.  Only the elementwise ops can be
\* asked for a canonical result, set_rows is given its output and get_rows is
\* not, and weights that are not given as views are tensors.
Linear ==
  [base : Nat, S_row : Nat, Cs : Nat, Ro : Nat, Co : Nat, P : {0}, A : {0}, B : {0}]
InTensor(v) ==
  /\ v.rows \in Nat \ {0} /\ v.cols \in Nat \ {0} /\ v.prows \in Nat /\ v.prows % TILE = 0
  /\ v.prows <= v.rows * TILE
  /\ v.desc \in Linear /\ v.desc.Cs = padded(v.cols) /\ v.mem \in STRING
  /\ (v.desc.base + (v.desc.Ro - 1) * v.desc.S_row) + v.desc.Co <= v.prows * v.desc.Cs
  /\ v.desc.Ro > 1 => v.desc.Co <= v.desc.S_row
  /\ ~v.bound => v.prows = padded(v.rows)
ASSUME ViewsAssumption ==
  \A c \in UNION Sessions :
    /\ \A x \in DOMAIN c.views : InTensor(c.views[x])
    /\ c.out # NoOut => InTensor(c.out)
    /\ c.op = "get_rows" => c.out = NoOut
    /\ c.op = "set_rows" => c.out # NoOut /\ c.out.bound
    /\ c.canonical => c.op \in Eltwise
    /\ c.op \in Norms /\ ~c.by_view =>
         \A x \in DOMAIN c.views \ {1} : c.views[x].desc = dense(c.views[x].rows, c.views[x].cols)
    /\ c.mem \in STRING /\ c.canonical \in BOOLEAN

\* Zero is no element of a page.
ASSUME ZeroAssumption == Zero \notin [acc : STRING \X Nat, page : Nat, at : Nat \X Nat]

\* A ring is a whole number of chunks, as it is in the code.
ASSUME RingAssumption == IO_DEPTH % K = 0

program == launched.program
op == program.kernels.op
Running == DOMAIN program.reader
get_arg_val(l, i) == l[i + 1]

\* A page element is [mem, addr, page, row and column in the page].
InPage(acc, page, i, j) == [acc |-> acc, page |-> page, at |-> <<i, j>>]

-----------------------------------------------------------------------------
\* The view block that starts at an offset, and the accessor it goes through.
view_num_args_affine(kind) == IF kind = "dense" THEN 1 ELSE 8    \* mutant: no room for P, A, B
view_num_args(kind) == CASE kind = "dense" -> 1 [] kind = "grouped" -> 11 [] OTHER -> 8
TensorViewArgs(l, START, kind, acc) ==
  LET arg(i) == get_arg_val(l, START + i)
  IN  IF kind = "dense" THEN [kind |-> kind, t0 |-> arg(0), acc |-> acc]
      ELSE [kind |-> kind, t0 |-> arg(0), acc |-> acc, base |-> arg(1), S_row |-> arg(2),
            Cs |-> arg(3), nct |-> arg(4), Ro |-> arg(5), Co |-> arg(6), n_otc |-> arg(7),
            P |-> IF kind = "grouped" THEN arg(8) ELSE 0,
            A |-> IF kind = "grouped" THEN arg(9) ELSE 0,
            B |-> IF kind = "grouped" THEN arg(10) ELSE 0]

\* What a view has at a cell of its tile t: an element of a page, or Zero.
Fetch(v, t, i, j) ==
  IF v.kind = "dense" THEN InPage(v.acc, t, i, j)
  ELSE LET oR == (t \div v.n_otc) * TILE + i
           oC == (t % v.n_otc) * TILE + j
           dr == IF v.P = 0 THEN oR ELSE v.A * (oR \div v.P) + v.B * (oR % v.P)
           e == v.base + dr * v.S_row + oC
           r == e \div v.Cs
           c == e % v.Cs
       IN  IF oR < v.Ro /\ oC < v.Co
           THEN InPage(v.acc, (r \div TILE) * v.nct + c \div TILE, r % TILE, c % TILE)
           ELSE Zero

-----------------------------------------------------------------------------
\* The readers.  view_base is where the view blocks begin, after the scalars.
view_base ==
  IF op = "realize" THEN 2
  ELSE IF op \in Binary THEN 6
  ELSE IF op \in Eltwise THEN 8
  ELSE IF op = "mul_l2_norm" THEN 4
  ELSE IF op = "rk" THEN 10
  ELSE IF program.kernels.global THEN 5 ELSE 8

Blocks == DOMAIN program.kernels.kinds
\* Each block starts where the one before it ends.
next ==
  LET kinds == program.kernels.kinds
      end[x \in 0 .. Len(kinds)] ==
        IF x = 0 THEN view_base ELSE end[x - 1] + view_num_args(kinds[x])
  IN  end
Accessor(l, i) == <<program.kernels.accessors[i], get_arg_val(l, i - 1)>>
View(k, x) ==
  TensorViewArgs(program.reader[k], next[x - 1], program.kernels.kinds[x],
                 Accessor(program.reader[k], x))

\* Arguments the readers take a count from: tiles, or rows of tiles.
n_tiles(k) == get_arg_val(program.reader[k],
                CASE op \in Binary -> 2 [] op = "realize" -> 1 [] OTHER -> 3)
n_rb(k) == get_arg_val(program.reader[k], CASE op = "mul_l2_norm" -> 2 [] op = "rk" -> 5 [] OTHER -> 3)
ctiles(k) == get_arg_val(program.reader[k], CASE op = "mul_l2_norm" -> 3 [] op = "rk" -> 6 [] OTHER -> 4)
RowOp == op \in Norms \cup {"mul_l2_norm", "rk"} /\ ~program.kernels.global
Read(k) == IF RowOp THEN n_rb(k) * ctiles(k) ELSE n_tiles(k)

\* A resident operand's tile is chosen by compute's index in the group.
reader_bcast(k, x) == get_arg_val(program.reader[k], (IF op \in Binary THEN 3 ELSE 4) + x)
group_tile(k, n) == (get_arg_val(program.compute[k], 2) + n) % get_arg_val(program.compute[k], 1)

\* r_k: the row of its group, resident or streamed from a phase and rewound.
rk_grp(k) == get_arg_val(program.reader[k], 7)
w_tile(k, n, t0) ==
  LET wphase == get_arg_val(program.reader[k], 8) + (n \div ctiles(k))
      i == n % ctiles(k)
  IN  IF get_arg_val(program.reader[k], 9) = 1
      THEN ((get_arg_val(program.compute[k], 4) + (n \div ctiles(k)))
              % get_arg_val(program.compute[k], 3)) * ctiles(k) + i
      ELSE IF rk_grp(k) = 0 \/ wphase < rk_grp(k) THEN t0 + n
      ELSE (wphase % rk_grp(k)) * ctiles(k) + i

\* The tile of view x that a core is fed for the n-th tile it makes.
FedTile(k, x, n) ==
  IF op \in Eltwise /\ reader_bcast(k, x) = 1 THEN View(k, x).t0 + group_tile(k, n)
  ELSE IF op = "rk" /\ x = 3 THEN w_tile(k, n, View(k, x).t0)
  ELSE View(k, x).t0 + n

\* The weights a norm's compute kernel applies: pages of the tensors in the
\* order of a row's tiles, or, folded, x's view of them.
affine_kind(k) == get_arg_val(program.compute[k], IF program.kernels.global THEN 1 ELSE 2)
Weights(k) == IF op \in Norms THEN 1 .. affine_kind(k) ELSE {}
FetchWeight(k, x, n, i, j) ==
  LET acc == Accessor(program.reader[k], x + 1)
  IN  IF program.kernels.global
      THEN Fetch([View(k, 1) EXCEPT !.acc = acc], View(k, 1).t0 + n, i, j)
      ELSE InPage(acc, n % ctiles(k), 0, j)

\* What a core's n-th result tile has at a cell: an element of each operand.
MadeAt(k, n, i, j) ==
  [x \in Blocks \cup {w + 1 : w \in Weights(k)} |->
     IF x \in Blocks THEN Fetch(View(k, x), FedTile(k, x, n), i, j)
                     ELSE FetchWeight(k, x - 1, n, i, j)]

\* The cells reduced together with it: none, a row of its tiles, or them all.
Reduced(k, n, i, j) ==
  IF program.kernels.global THEN (0 .. Read(k) - 1) \X (0 .. TILE - 1) \X (0 .. TILE - 1)
  ELSE IF RowOp
  THEN {(n \div ctiles(k)) * ctiles(k) + m : m \in 0 .. ctiles(k) - 1} \X {i} \X (0 .. TILE - 1)
  ELSE {<<n, i, j>>}

-----------------------------------------------------------------------------
\* The writer stores its n-th tile through its own view.
writer_tiles(k) == get_arg_val(program.writer[k], 1)
OutView(k) ==
  TensorViewArgs(program.writer[k], 2, program.kernels.out_kind,
                 <<program.kernels.out_accessor, get_arg_val(program.writer[k], 0)>>)

Stores ==
  UNION {{<<k, n, i, j>> : n \in 0 .. writer_tiles(k) - 1, i \in 0 .. TILE - 1, j \in 0 .. TILE - 1}
           : k \in Running}
LiveStores == {s \in Stores : Fetch(OutView(s[1]), OutView(s[1]).t0 + s[2], s[3], s[4]) # Zero}
Stored ==
  {[to |-> Fetch(OutView(s[1]), OutView(s[1]).t0 + s[2], s[3], s[4]),
    of |-> MadeAt(s[1], s[2], s[3], s[4]),
    over |-> {m \in {MadeAt(s[1], c[1], c[2], c[3]) : c \in Reduced(s[1], s[2], s[3], s[4])} :
                m[1] # Zero}] : s \in LiveStores}

\* Indexed copies: the page moved for ordinal o, on the side that is indexed
\* <<slot of the index, page in the row>> and on the other o itself.
IndexedSide(l) ==
  [acc |-> get_arg_val(l, 0), T |-> get_arg_val(l, 3), idx |-> get_arg_val(l, 5),
   idx_pages |-> get_arg_val(l, 6), rows |-> get_arg_val(l, 7)]
Ordinals(l) == {get_arg_val(l, 2) + n : n \in 0 .. get_arg_val(l, 1) - 1}
Copied ==
  UNION {LET l == program.reader[k]
             w == program.writer[k]
             side == IndexedSide(IF op = "get_rows" THEN l ELSE w)
             other == IF op = "get_rows" THEN w ELSE l
         IN  {[side |-> side, at |-> <<o \div side.T, o % side.T>>,
               other |-> get_arg_val(other, 0), page |-> o] : o \in Ordinals(l) \cap Ordinals(w)}
           : k \in Running}

-----------------------------------------------------------------------------
\* What the call means: output row r, column c is made of these elements.
call == launched.call
result == Out(call)
PlacedIn(t, e) ==
  InPage(<<t.spec.mem, t.addr>>,
         ((e \div t.spec.Cs) \div TILE) * (t.spec.Cs \div TILE) + (e % t.spec.Cs) \div TILE,
         (e \div t.spec.Cs) % TILE, (e % t.spec.Cs) % TILE)
MeantOf(r, c) ==
  [x \in DOMAIN call.views |->
     LET m == Meant(call, result, x)
     IN  PlacedIn(launched.ins[x], m.base + ((r \div m.span) % m.Ro) * m.S_row + c)]
\* A canonical result has its tokens in blocks of whole tile rows.  A result
\* is in the bound tensor's memory or in the memory asked for.
MeantRow(r) ==
  IF call.canonical
  THEN padded(Tokens(call)) * (r \div Tokens(call)) + (r % Tokens(call)) ELSE r
ResultAt ==
  [launched.out EXCEPT !.spec.mem = IF IsBound(call) THEN call.out.mem ELSE call.mem]
MeantStores ==
  LET d == result.desc
      Row(r) == {MeantOf(r, c) : c \in 0 .. d.Co - 1}
      Cell(r, c) ==
        [to |-> PlacedIn(ResultAt, d.base + MeantRow(r) * d.S_row + c),
         of |-> MeantOf(r, c),
         over |-> IF RowOp \/ program.kernels.global THEN Row(r) ELSE {MeantOf(r, c)}]
  IN  {Cell(r, c) : r \in 0 .. d.Ro - 1, c \in 0 .. d.Co - 1}

MeantCopies ==
  LET v == Indexed(call)
      T == num_pages(v) \div v.rows
      indexed == IF op = "get_rows" THEN launched.ins[1].addr ELSE launched.out.addr
      other == IF op = "get_rows" THEN launched.out.addr ELSE launched.ins[1].addr
      side == [acc |-> indexed, T |-> T, idx |-> launched.ins[2].addr,
               idx_pages |-> num_pages(call.views[2]), rows |-> v.rows]
  IN  {[side |-> side, at |-> <<m, p>>, other |-> other, page |-> m * T + p]
         : m \in 0 .. RowsMoved(call) - 1, p \in 0 .. T - 1}

-----------------------------------------------------------------------------
\* Every list is as long as its kernel reads: the view blocks end it.
TypeOK ==
  launched # None =>
    \A k \in Running :
      IF op \in RowCopies
      THEN {Len(program.reader[k]), Len(program.writer[k])} = {5, 8}
      ELSE /\ Len(program.reader[k]) = next[Len(program.kernels.kinds)]
           /\ Len(program.writer[k]) = 2 + view_num_args(program.kernels.out_kind)

\* The launch computes what the call means, at this call's tensors: taken
\* together the cores store every output element exactly once, each made of
\* the right element of every operand, with the right row reduced for it.
DeliversMeant ==
  launched # None =>
    IF op \in RowCopies
    THEN Copied = MeantCopies
    ELSE Stored = MeantStores /\ Cardinality(LiveStores) = Cardinality(MeantStores)

\* No page past the end of a tensor is read or written.
PagesOf(t) == (t.spec.prows \div TILE) * (t.spec.Cs \div TILE)
StaysInside ==
  launched # None =>
    IF op \in RowCopies
    THEN \A c \in Copied :
           LET flat == IF op = "get_rows" THEN launched.out ELSE launched.ins[1]
               rows == IF op = "get_rows" THEN launched.ins[1] ELSE launched.out
           IN  c.page < PagesOf(flat) /\ c.side.rows * c.side.T <= PagesOf(rows)
    ELSE \A s \in Stored :
           /\ s.to.page < PagesOf(launched.out)
           /\ \A m \in s.over \cup {s.of} : \A x \in DOMAIN m :
                m[x] = Zero \/ m[x].page < PagesOf(launched.ins[x])

\* The three kernels of a core were given the same work.
SameCounts(k) ==
  LET r == program.reader[k]
      c == program.compute[k]
  IN  /\ writer_tiles(k) = Read(k)
      /\ op \in Eltwise =>
           /\ get_arg_val(c, 0) = Read(k)
           /\ get_arg_val(c, 1) = get_arg_val(r, IF op \in Binary THEN 3 ELSE 4)
           /\ \A x \in Blocks : get_arg_val(c, 2 + x) = reader_bcast(k, x)
      /\ RowOp => get_arg_val(c, 0) = n_rb(k) /\ get_arg_val(c, 1) = ctiles(k)
      /\ program.kernels.global => get_arg_val(c, 0) = Read(k)
      /\ op \in Norms => affine_kind(k) = get_arg_val(r, IF program.kernels.global THEN 4 ELSE 7)
      /\ op = "rk" => \A i \in 3 .. 5 : get_arg_val(c, i) = get_arg_val(r, i + 4)

\* How often a reduction applies its scaler: 1 / N must come out.
Scaled(k) ==
  op \in Norms =>
    LET c == program.compute[k]
        N == call.views[1].desc.Co
        scale == get_arg_val(c, IF program.kernels.global THEN 3 ELSE 4)
    IN  /\ get_arg_val(c, IF program.kernels.global THEN 2 ELSE 3) = call.eps
        /\ scale = IF op = "l2_norm" THEN 1 ELSE IF program.kernels.global THEN -N ELSE N

\* The most tiles of operand x that the reader reserves at once.
AtOnce(k, x) ==
  IF op \in Eltwise THEN IF reader_bcast(k, x) = 1 THEN get_arg_val(program.compute[k], 1) ELSE 1
  ELSE IF op = "rk" /\ x = 3 /\ get_arg_val(program.reader[k], 9) = 1 THEN rk_grp(k) * ctiles(k)
  ELSE IF RowOp THEN ctiles(k)
  ELSE IF program.kernels.global THEN Read(k)
  ELSE 1
Fits(k) ==
  IF op \in RowCopies THEN program.kernels.pages[1] % get_arg_val(program.reader[k], 4) = 0
  ELSE \A x \in Blocks : program.kernels.pages[x] % AtOnce(k, x) = 0

\* On every core the reader, compute and writer agree on how much there is to
\* do and how it is grouped and scaled, and what the reader reserves at once
\* divides the buffer that was sized for it: nothing waits for ever.
KernelsAgree ==
  launched # None =>
    \A k \in Running :
      /\ Fits(k)
      /\ op \notin RowCopies => SameCounts(k) /\ Scaled(k)
=============================================================================
