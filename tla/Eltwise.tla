------------------------------- MODULE Eltwise -------------------------------
(***************************************************************************)
(* The fused elementwise ops: add, sub and mul (two operands), fma and     *)
(* lerp (three), and k_update.  The host decides how every operand is fed  *)
(* (module EltwiseLowering): streamed tile by tile, one row replicated, a  *)
(* group of tpg tiles kept resident and used again for every group of the  *)
(* output, or by lerp's token-shift maps.  On each core a reader, a        *)
(* compute and a writer kernel pass tiles through circular buffers while   *)
(* the NoC moves them.                                                     *)
(*                                                                         *)
(* A tile in a buffer is the ordinal it has in its operand's view; what    *)
(* elements it holds follows from the lowered map (modules AffineView and  *)
(* GroupedView).                                                           *)
(***************************************************************************)
EXTENDS EltwiseLowering

CONSTANTS
  Calls,      \* what the host is asked to do
  NumCores,
  DEPTH,      \* pages of a streamed operand's buffer and of cb_out
  Old, Zero, Junk

ASSUME EltwiseAssumption ==
  NumCores \in Nat \ {0} /\ DEPTH \in Nat \ {0}

\* Two or three operands, none of them empty, and no empty output.
NonEmpty(d) == d.Ro \in Nat \ {0} /\ d.Co \in Nat \ {0}
ASSUME CallsAssumption ==
  \A c \in Calls :
    /\ DOMAIN c.views = IF c.op \in Binary THEN 1 .. 2 ELSE 1 .. 3
    /\ \A x \in DOMAIN c.views : NonEmpty(c.views[x].desc)
    /\ c.out # NoOut => NonEmpty(c.out.desc)

-----------------------------------------------------------------------------
Cores == 0 .. NumCores - 1

VARIABLES
  op, meant, dout,          \* the accepted call: what its operands mean, its output
  desc, bcast, tpg,         \* per operand the map walked and is it resident; group size
  rpc, issued, reads, sent, published,  \* reader: operands of this tile asked for, transfers
                            \*   in flight, tiles pushed, has the resident group been pushed
  cpc, dst, made,           \* compute: its registers, tiles pushed
  wpc, written,             \* writer: its transfer, tiles popped
  cb, cb_out,               \* buffers: core -> operand -> page -> tile; core -> page -> result
  out                       \* output tile -> tile of each operand it was made of

call == <<op, meant, dout, desc, bcast, tpg>>
reader == <<rpc, issued, reads, sent, published>>
compute == <<cpc, dst, made>>
writer == <<wpc, written>>
vars == <<call, reader, compute, writer, cb, cb_out, out>>

Operands == DOMAIN desc
Residents == {x \in Operands : bcast[x]}
Streams == Operands \ Residents
wt == out_tiles(dout)

\* Work is split by groups when a group is resident, by tiles otherwise.
units == IF Residents # {} THEN wt \div tpg ELSE wt
per_unit == IF Residents # {} THEN tpg ELSE 1
ShareEven(k) == units \div NumCores    \* mutant: the remainder is forgotten
Share(k) == units \div NumCores + (IF k < units % NumCores THEN 1 ELSE 0)
Before(k) == k * (units \div NumCores) + (IF k < units % NumCores THEN k ELSE units % NumCores)
First(k) == Before(k) * per_unit
Count(k) == Share(k) * per_unit
Active == {k \in Cores : Count(k) > 0}

\* The compute kernel's index in a resident group.
ResidentTile(k, t) == ((First(k) % tpg) + t) % tpg
Pages(x) == IF bcast[x] THEN tpg ELSE DEPTH

Init ==
  \E c \in Calls :
    LET o == EltwiseOut(c)
        d == o.desc
        feed == Feed(c)
    IN  /\ Accepted(c)
        /\ op = c.op /\ dout = d
        /\ meant = [x \in DOMAIN c.views |-> Meant(c, o, x)]
        /\ desc = feed.maps /\ bcast = feed.bcast /\ tpg = feed.tpg
        /\ rpc = [k \in Cores |-> "start"] /\ issued = [k \in Cores |-> {}]
        /\ reads = [k \in Cores |-> {}] /\ sent = [k \in Cores |-> 0]
        /\ published = [k \in Cores |-> FALSE]
        /\ cpc = [k \in Cores |-> "zero"] /\ dst = [k \in Cores |-> Junk]
        /\ made = [k \in Cores |-> 0]
        /\ wpc = [k \in Cores |-> "wait"] /\ written = [k \in Cores |-> 0]
        /\ cb = [k \in Cores |-> [x \in DOMAIN c.views |-> [p \in 0 .. Pages(x) - 1 |-> Junk]]]
        /\ cb_out = [k \in Cores |-> [p \in 0 .. DEPTH - 1 |-> Junk]]
        /\ out = [t \in 0 .. out_tiles(d) - 1 |-> Old]

-----------------------------------------------------------------------------
\* The zero tile comes first: it seeds the padding of every affine gather.
FillZero(k) ==
  /\ cpc[k] = "zero" /\ cpc' = [cpc EXCEPT ![k] = "math"]
  /\ UNCHANGED <<call, reader, dst, made, writer, cb, cb_out, out>>

Seeded == \E x \in Operands : ~is_dense_identity(desc[x])

\* The reader asks for the whole resident group at once.
ReaderStart(k) ==
  /\ rpc[k] = "start" /\ (Seeded => cpc[k] # "zero")
  /\ reads' = [reads EXCEPT ![k] = Residents \X (0 .. tpg - 1)]
  /\ rpc' = [rpc EXCEPT ![k] = IF Residents # {} /\ op \in Binary THEN "residents" ELSE "stream"]
  /\ UNCHANGED <<call, issued, sent, published, compute, writer, cb, cb_out, out>>

ReadsNotAwaited(k) == TRUE    \* mutant
ReadsLanded(k) == reads[k] = {}

\* The binary reader publishes the group behind a barrier of its own, the
\* ternary one behind that of its first tile.
PublishResidents(k) ==
  /\ rpc[k] = "residents" /\ ReadsLanded(k)
  /\ published' = [published EXCEPT ![k] = TRUE]
  /\ rpc' = [rpc EXCEPT ![k] = "stream"]
  /\ UNCHANGED <<call, issued, reads, sent, compute, writer, cb, cb_out, out>>

SpaceFreeLate(k) == sent[k] - made[k] <= DEPTH    \* mutant
SpaceFree(k) == sent[k] - made[k] < DEPTH

Gather(k, x) ==
  /\ rpc[k] = "stream" /\ sent[k] < Count(k)
  /\ x \in Streams \ issued[k] /\ \A y \in Streams : y < x => y \in issued[k]
  /\ SpaceFree(k)
  /\ reads' = [reads EXCEPT ![k] = @ \cup {<<x, sent[k]>>}]
  /\ issued' = [issued EXCEPT ![k] = @ \cup {x}]
  /\ UNCHANGED <<call, rpc, sent, published, compute, writer, cb, cb_out, out>>

Push(k) ==
  /\ rpc[k] = "stream" /\ sent[k] < Count(k)
  /\ issued[k] = Streams /\ ReadsLanded(k)
  /\ sent' = [sent EXCEPT ![k] = @ + 1]
  /\ issued' = [issued EXCEPT ![k] = {}]
  /\ published' = [published EXCEPT ![k] = Residents # {}]
  /\ UNCHANGED <<call, rpc, reads, compute, writer, cb, cb_out, out>>

NocRead(k, x, i) ==
  /\ <<x, i>> \in reads[k]
  /\ reads' = [reads EXCEPT ![k] = @ \ {<<x, i>>}]
  /\ cb' = [cb EXCEPT ![k][x][i % Pages(x)] = IF bcast[x] THEN i ELSE First(k) + i]
  /\ UNCHANGED <<call, rpc, issued, sent, published, compute, writer, cb_out, out>>

\* The tiles the math units are given for output tile t of the core.
Fronts(k, t) ==
  [x \in Operands |-> cb[k][x][IF bcast[x] THEN ResidentTile(k, t) ELSE t % DEPTH]]

Math(k) ==
  /\ cpc[k] = "math" /\ made[k] < Count(k)
  /\ Residents # {} => published[k]
  /\ Streams # {} => sent[k] > made[k]
  /\ dst' = [dst EXCEPT ![k] = Fronts(k, made[k])]
  /\ cpc' = [cpc EXCEPT ![k] = "pack"]
  /\ UNCHANGED <<call, reader, made, writer, cb, cb_out, out>>

\* Push the result and only then pop the operands.
Pack(k) ==
  /\ cpc[k] = "pack" /\ made[k] - written[k] < DEPTH
  /\ cb_out' = [cb_out EXCEPT ![k][made[k] % DEPTH] = dst[k]]
  /\ made' = [made EXCEPT ![k] = @ + 1]
  /\ cpc' = [cpc EXCEPT ![k] = "math"]
  /\ UNCHANGED <<call, reader, dst, writer, cb, out>>

Scatter(k) ==
  /\ wpc[k] = "wait" /\ made[k] > written[k]
  /\ wpc' = [wpc EXCEPT ![k] = "flying"]
  /\ UNCHANGED <<call, reader, compute, written, cb, cb_out, out>>

NocWrite(k) ==
  /\ wpc[k] = "flying"
  /\ out' = [out EXCEPT ![First(k) + written[k]] = cb_out[k][written[k] % DEPTH]]
  /\ wpc' = [wpc EXCEPT ![k] = "landed"]
  /\ UNCHANGED <<call, reader, compute, written, cb, cb_out>>

Pop(k) ==
  /\ wpc[k] = "landed"
  /\ written' = [written EXCEPT ![k] = @ + 1]
  /\ wpc' = [wpc EXCEPT ![k] = "wait"]
  /\ UNCHANGED <<call, reader, compute, cb, cb_out, out>>

Reader(k) == ReaderStart(k) \/ PublishResidents(k) \/ Push(k) \/ \E x \in Operands : Gather(k, x)
Compute(k) == FillZero(k) \/ Math(k) \/ Pack(k)
Writer(k) == Scatter(k) \/ Pop(k)
Noc(k) == NocWrite(k) \/ \E x \in Operands : \E i \in 0 .. wt - 1 : NocRead(k, x, i)

AllDone == \A k \in Active : sent[k] = Count(k) /\ written[k] = Count(k)
Terminated == AllDone /\ UNCHANGED vars

Next == (\E k \in Active : Reader(k) \/ Compute(k) \/ Writer(k) \/ Noc(k)) \/ Terminated

\* Every kernel has a processor of its own and the NoC completes transfers;
\* a transfer in flight stays enabled until it lands.
Fairness ==
  \A k \in Cores :
    /\ WF_vars(k \in Active /\ Reader(k)) /\ WF_vars(k \in Active /\ Compute(k))
    /\ WF_vars(k \in Active /\ Writer(k)) /\ WF_vars(k \in Active /\ Noc(k))

Spec == Init /\ [][Next]_vars
FairSpec == Spec /\ Fairness

-----------------------------------------------------------------------------
\* Buffers are never overfilled, and no kernel handles more than its share.
TypeOK ==
  /\ tpg \in 1 .. wt /\ (wt % tpg) = 0
  /\ rpc \in [Cores -> {"start", "residents", "stream"}]
  /\ cpc \in [Cores -> {"zero", "math", "pack"}]
  /\ wpc \in [Cores -> {"wait", "flying", "landed"}]
  /\ published \in [Cores -> BOOLEAN]
  /\ \A k \in Cores :
       /\ issued[k] \subseteq Streams
       /\ reads[k] \subseteq Operands \X (0 .. wt - 1)
       /\ sent[k] \in 0 .. Count(k) /\ made[k] \in 0 .. Count(k)
       /\ Streams # {} => made[k] <= sent[k]
       /\ sent[k] - made[k] + (IF issued[k] # {} THEN 1 ELSE 0) <= DEPTH \/ Streams = {}
       /\ written[k] \in 0 .. made[k] /\ made[k] - written[k] <= DEPTH

\* The tiles that make output tile t.
Right(t) == [x \in Operands |-> IF bcast[x] THEN t % tpg ELSE t]

\* Every tile a kernel may read is the right one: the streamed fronts, the
\* resident group for as long as it is used, and the results in cb_out.
PublishedExact ==
  \A k \in Active :
    /\ \A x \in Streams : \A i \in made[k] .. sent[k] - 1 : cb[k][x][i % DEPTH] = First(k) + i
    /\ published[k] => \A x \in Residents : \A p \in 0 .. tpg - 1 : cb[k][x][p] = p
    /\ \A i \in written[k] .. made[k] - 1 : cb_out[k][i % DEPTH] = Right(First(k) + i)

\* What a tile holds at a cell: padding is zero.
Element(d, t, cell) ==
  LET oR == (t \div n_otc(d)) * TILE + cell[1]
      oC == (t % n_otc(d)) * TILE + cell[2]
      row == IF d.P > 0 THEN d.A * (oR \div d.P) + d.B * (oR % d.P) ELSE oR
  IN  IF oR < d.Ro /\ oC < d.Co THEN d.base + row * d.S_row + oC ELSE Zero

\* An output tile made of the given tiles, cut to the output's live cells.
Cells(t) ==
  {cell \in (0 .. TILE - 1) \X (0 .. TILE - 1) :
     /\ (t \div n_otc(dout)) * TILE + cell[1] < dout.Ro
     /\ (t % n_otc(dout)) * TILE + cell[2] < dout.Co}
MadeOf(t, tiles) ==
  [cell \in Cells(t) |-> [x \in Operands |-> Element(desc[x], tiles[x], cell)]]

result == [t \in DOMAIN out |-> IF out[t] = Old THEN Old ELSE MadeOf(t, out[t])]

\* For an accepted call whose operands have the output's width and its rows,
\* one row, whole tile-rows or the rows of a token shift, each result element
\* is made of the right source elements, appears once and never changes: how
\* an operand is fed (streamed, replicated, resident, shifted) is invisible.
Promise == INSTANCE Elementwise WITH views <- meant, Ro <- dout.Ro, Co <- dout.Co
ImplementsElementwise == Promise!Spec

\* The call returns, with the whole result written.
Halts == <>[](AllDone /\ \A t \in DOMAIN out : out[t] # Old)

\* An operand the host accepts covers the output: the tiles it is fed with
\* give every row, repeated, of every column.
OperandsCover == \A t \in 0 .. wt - 1 : MadeOf(t, Right(t)) = Promise!Want(t)
=============================================================================
