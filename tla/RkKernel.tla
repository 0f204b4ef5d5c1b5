------------------------------ MODULE RkKernel ------------------------------
(***************************************************************************)
(* The fused rk update: per row, out = cur + v * sum(r * k * r_k).  r_k    *)
(* has the rows of one token group and repeats over the groups: a core     *)
(* that has more row-blocks than a group loads the group once and indexes  *)
(* it, any other streams it and rewinds at the group's end.                *)
(*                                                                         *)
(* A call has the operands' rows (one per row-block) and the core.         *)
(***************************************************************************)
EXTENDS NormKernels

\* r_k is the full grid, or whole row-blocks that divide it.
RkAccepted(c) == n_otr(c) % Len(c.w) = 0
RkCall(c) ==
  /\ OnCore(c) /\ c.mode = "rk" /\ RowsOf(c.w, N(c)) /\ RkAccepted(c)
  /\ \A v \in {c.k, c.v, c.cur} : RowsOf(v, N(c)) /\ Len(v) = n_otr(c)
bcast(c) == Len(c.w) # n_otr(c)
rbs_per_group(c) == Len(c.w)
resident(c) == bcast(c) /\ n_rb(c) > rbs_per_group(c)
w_phase0(c) == IF bcast(c) THEN rb0(c) % rbs_per_group(c) ELSE 0

\* Row-block of r_k the reader gathers for each row-block: rewound when the
\* phase has reached the group's end.
Rewinds(c, phase) == bcast(c) /\ phase = rbs_per_group(c)
WRow(c) ==
  LET row[rb \in 0 .. n_rb(c) - 1] ==
        LET next == IF rb = 0 THEN IF bcast(c) THEN w_phase0(c) ELSE rb0(c) ELSE row[rb - 1] + 1
        IN  IF Rewinds(c, next) THEN 0 ELSE next
  IN  row

RowTiles(v, r) == Tiles(v[r + 1], TILE)

RkReader(c) ==
  LET n == ctiles(c)
      group == FlattenSeq([i \in 1 .. rbs_per_group(c) |-> Tiles(c.w[i], TILE)])
      streams == ~resident(c)
  IN  Seed(c)
      \o When(resident(c), Block("w", group))
      \o Flatten(n_rb(c), LAMBDA rb :
           LET r == rb0(c) + rb
           IN  <<Reserve("x", n), Reserve("k", n)>> \o When(streams, <<Reserve("w", n)>>)
               \o <<Gather("x", RowTiles(c.x, r)), Gather("k", RowTiles(c.k, r))>>
               \o When(streams, <<Gather("w", RowTiles(c.w, WRow(c)[rb]))>>)
               \o <<Barrier, Push("x", n), Push("k", n)>> \o When(streams, <<Push("w", n)>>)
               \o <<Reserve("v", n), Reserve("cur", n),
                    Gather("v", RowTiles(c.v, r)), Gather("cur", RowTiles(c.cur, r)),
                    Barrier, Push("v", n), Push("cur", n)>>)

RkCompute(c) ==
  LET n == ctiles(c)
      group == rbs_per_group(c) * n
      first(rb) == IF resident(c) THEN ((w_phase0(c) + rb) % rbs_per_group(c)) * n ELSE 0
  IN  <<Emit("zero", 1, <<Const(0)>>), Emit("scaler", 1, <<Const(1)>>), Wait("scaler", 1)>>
      \o When(resident(c), <<Wait("w", group)>>)
      \o Flatten(n_rb(c), LAMBDA rb :
           <<Wait("x", n), Wait("k", n)>> \o When(~resident(c), <<Wait("w", n)>>)
           \o <<Emit("pw", n, <<Op("mul", "tiles", each("x"), each("k")),
                                Op("mul", "dest", DEST, past("w", first(rb)))>>),
                Pop("x", n), Pop("k", n)>>
           \o When(~resident(c), <<Pop("w", n)>>)
           \o <<Wait("pw", n), Emit("ss", 1, <<Sum("row", "pw", n)>>), Pop("pw", n),
                Wait("ss", 1), Wait("v", n), Wait("cur", n),
                Emit("out", n, <<Op("mul", "cols", each("v"), one("ss")),
                                 Op("add", "dest", DEST, each("cur"))>>),
                Pop("v", n), Pop("ss", 1), Pop("cur", n)>>)
      \o When(resident(c), <<Pop("w", group)>>)

RkCapacity(c) ==
  LET n == ctiles(c)
      group == rbs_per_group(c) * n
  IN  Along(Sizes({"x", "k", "v", "cur", "out"}, Twice(n)),
        Along(Sizes({"w"}, IF bcast(c) /\ group > Twice(n) THEN group ELSE Twice(n)),
          Along(Sizes({"pw"}, n), Along(Sizes({"ss"}, 2), Sizes({"scaler", "zero"}, 1)))))

\* The definition, row by row.
Updated(c, r) ==
  LET w == c.w[(r % rbs_per_group(c)) + 1]
      rk == SumFunction([j \in 1 .. N(c) |-> c.x[r + 1][j] * c.k[r + 1][j] * w[j]])
  IN  [j \in 1 .. N(c) |-> Lane(c.cur[r + 1][j] + c.v[r + 1][j] * rk)]

RkProgram(c) ==
  LET n == ctiles(c)
  IN  [cap |-> RkCapacity(c), lanes |-> TILE, writer |-> Writer(c),
       reader |-> RkReader(c), compute |-> RkCompute(c),
       want |-> [t \in rb0(c) * n .. (rb0(c) + n_rb(c)) * n - 1 |->
                   Cut(Updated(c, t \div n), TILE, t % n)]]
=============================================================================
