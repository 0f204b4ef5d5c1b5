---------------------------- MODULE KernelMachine ----------------------------
(***************************************************************************)
(* One core running a reduction: a reader, a compute and a writer kernel   *)
(* that share nothing but circular buffers.  The kernels are data (see     *)
(* Instructions); this module is what they run on.  Reads land at their    *)
(* barrier, the latest they can.                                           *)
(***************************************************************************)
EXTENDS Instructions

CONSTANTS
  Programs,   \* a sequence of [cap, lanes, reader, compute, writer, want]
  Old         \* an output tile not yet written

loaded == Programs

ASSUME MachineAssumption ==
  \A c \in DOMAIN loaded : \A b \in DOMAIN loaded[c].cap : loaded[c].cap[b] \in Nat \ {0}

VARIABLES call,
          pc,         \* kernel -> next instruction
          ring,       \* buffer -> page -> tile
          rd, cnt,    \* buffer -> first published page, published pages
          reads,      \* reads in flight: <<buffer, page, tile>>
          unit,       \* what the math unit is configured for
          out

vars == <<call, pc, ring, rd, cnt, reads, unit, out>>

Kernels == {"reader", "compute", "writer"}
P == loaded[call]
Buffers == DOMAIN P.cap
Instr(k) == P[k][pc[k]]
Runs(k, what) == pc[k] <= Len(P[k]) /\ Instr(k).do = what
Step(k) == pc' = [pc EXCEPT ![k] = @ + 1]

wr(b) == (rd[b] + cnt[b]) % P.cap[b]
Page(b, i) == (rd[b] + i) % P.cap[b]
PageAt(b, i) == ring[b][Page(b, i)]

Lanes(p) == 1 .. p.lanes
JunkTile == [l \in Lanes(P) |-> JunkLane]

Init ==
  /\ call \in DOMAIN loaded
  /\ pc = [k \in Kernels |-> 1]
  /\ ring = [b \in Buffers |-> [p \in 0 .. P.cap[b] - 1 |-> JunkTile]]
  /\ rd = [b \in Buffers |-> 0] /\ cnt = [b \in Buffers |-> 0]
  /\ reads = {} /\ unit = <<"none", "none">>
  /\ out = [t \in DOMAIN P.want |-> Old]

-----------------------------------------------------------------------------
\* Blocks until the buffer has n free pages.
cb_reserve_back(k) ==
  /\ Runs(k, "reserve")
  /\ cnt[Instr(k).cb] + Instr(k).n <= P.cap[Instr(k).cb]
  /\ Step(k)
  /\ UNCHANGED <<call, ring, rd, cnt, reads, unit, out>>

cb_push_back(k) ==
  /\ Runs(k, "push")
  /\ cnt' = [cnt EXCEPT ![Instr(k).cb] = @ + Instr(k).n]
  /\ Step(k)
  /\ UNCHANGED <<call, ring, rd, reads, unit, out>>

\* Blocks until n pages are published.
cb_wait_front(k) ==
  /\ Runs(k, "wait")
  /\ cnt[Instr(k).cb] >= Instr(k).n
  /\ Step(k)
  /\ UNCHANGED <<call, ring, rd, cnt, reads, unit, out>>

cb_pop_front(k) ==
  /\ Runs(k, "pop")
  /\ rd' = [rd EXCEPT ![Instr(k).cb] = Page(Instr(k).cb, Instr(k).n)]
  /\ cnt' = [cnt EXCEPT ![Instr(k).cb] = @ - Instr(k).n]
  /\ Step(k)
  /\ UNCHANGED <<call, ring, reads, unit, out>>

\* A page being read into holds junk until the read has landed.
noc_async_read(k) ==
  /\ Runs(k, "gather")
  /\ LET b == Instr(k).cb
         tiles == Instr(k).tiles
         page(i) == (wr(b) + i - 1) % P.cap[b]
     IN  /\ ring' = [ring EXCEPT ![b] = [p \in DOMAIN @ |->
                       IF \E i \in DOMAIN tiles : p = page(i) THEN JunkTile ELSE @[p]]]
         /\ reads' = reads \cup {<<b, page(i), tiles[i]>> : i \in DOMAIN tiles}
  /\ Step(k)
  /\ UNCHANGED <<call, rd, cnt, unit, out>>

noc_async_read_barrier(k) ==
  /\ Runs(k, "barrier")
  /\ ring' = [b \in Buffers |-> [p \in DOMAIN ring[b] |->
                IF \E r \in reads : r[1] = b /\ r[2] = p
                THEN (CHOOSE r \in reads : r[1] = b /\ r[2] = p)[3] ELSE ring[b][p]]]
  /\ reads' = {}
  /\ Step(k)
  /\ UNCHANGED <<call, rd, cnt, unit, out>>

\* A data-movement kernel writes a constant tile itself.
store(k) ==
  /\ Runs(k, "fill")
  /\ ring' = [ring EXCEPT ![Instr(k).cb][wr(Instr(k).cb)] = [l \in Lanes(P) |-> Lane(Instr(k).v)]]
  /\ Step(k)
  /\ UNCHANGED <<call, rd, cnt, reads, unit, out>>

\* One operation on destination register i.  A unit configured for something
\* else computes junk.
Configured(op, u) == op.init \/ u = <<op.fn, op.how>>
Operand(s, i, dest) == IF s.cb = "dest" THEN dest ELSE PageAt(s.cb, s.step * i + s.at)
Exec(op, i, d) ==
  CASE op.fn = "const" -> [d EXCEPT !.tile = [l \in Lanes(P) |-> Lane(op.v)]]
    [] op.fn = "rsqrt" -> [d EXCEPT !.tile = [l \in Lanes(P) |-> Rsqrt(@[l])]]
    [] op.fn = "sum" ->
         [unit |-> <<op.fn, op.how>>,
          tile |-> IF Configured(op, d.unit)
                   THEN Reduce(op.how, [j \in 1 .. op.m |-> PageAt(op.a.cb, j - 1)], PageAt(op.b.cb, 0))
                   ELSE JunkTile]
    [] OTHER ->
         [unit |-> IF op.init THEN <<op.fn, op.how>> ELSE d.unit,
          tile |-> IF Configured(op, d.unit)
                   THEN Combine(op.fn, op.how, Operand(op.a, i, d.tile), Operand(op.b, i, d.tile))
                   ELSE JunkTile]
Dest(k, i) ==
  FoldLeft(LAMBDA d, op : Exec(op, i, d), [unit |-> unit, tile |-> JunkTile], Instr(k).ops)

\* Computing needs no buffer space; packing the results does.
emitN(k) ==
  /\ Runs(k, "emit")
  /\ LET b == Instr(k).cb
         n == Instr(k).n
     IN  /\ cnt[b] + n <= P.cap[b]
         /\ ring' = [ring EXCEPT ![b] = [p \in DOMAIN @ |->
                       IF \E i \in 0 .. n - 1 : p = (wr(b) + i) % P.cap[b]
                       THEN Dest(k, (p - wr(b)) % P.cap[b]).tile ELSE @[p]]]
         /\ cnt' = [cnt EXCEPT ![b] = @ + n]
         /\ unit' = Dest(k, 0).unit
  /\ Step(k)
  /\ UNCHANGED <<call, rd, reads, out>>

\* The live lanes of the front tile reach the output before the next step.
scatter_tile(k) ==
  /\ Runs(k, "scatter")
  /\ out' = [out EXCEPT ![Instr(k).t] =
               SubSeq(PageAt(Instr(k).cb, 0), 1, Len(P.want[Instr(k).t]))]
  /\ Step(k)
  /\ UNCHANGED <<call, ring, rd, cnt, reads, unit>>

Kernel(k) ==
  \/ cb_reserve_back(k) \/ cb_push_back(k) \/ cb_wait_front(k) \/ cb_pop_front(k)
  \/ noc_async_read(k) \/ noc_async_read_barrier(k) \/ store(k)
  \/ emitN(k) \/ scatter_tile(k)

AllDone == \A k \in Kernels : pc[k] > Len(P[k])
Terminated == AllDone /\ UNCHANGED vars

Next == (\E k \in Kernels : Kernel(k)) \/ Terminated

\* Each kernel has a processor of its own.
Fairness == \A k \in Kernels : WF_vars(Kernel(k))
Spec == Init /\ [][Next]_vars
FairSpec == Spec /\ Fairness

-----------------------------------------------------------------------------
\* No buffer ever holds more pages than it has, or gives up pages it has not.
TypeOK ==
  /\ call \in DOMAIN loaded
  /\ \A k \in Kernels : pc[k] \in 1 .. Len(P[k]) + 1
  /\ \A b \in Buffers : rd[b] \in 0 .. P.cap[b] - 1 /\ cnt[b] \in 0 .. P.cap[b]
  /\ \A r \in reads : r[1] \in Buffers /\ r[2] \in 0 .. P.cap[r[1]] - 1

\* Kernels address the pages of a chunk one after the other from its first
\* one, so no chunk that is filled, packed or waited for wraps around its ring.
ChunksWhole ==
  \A k \in Kernels :
    /\ Runs(k, "gather") => wr(Instr(k).cb) + Len(Instr(k).tiles) <= P.cap[Instr(k).cb]
    /\ Runs(k, "emit") => wr(Instr(k).cb) + Instr(k).n <= P.cap[Instr(k).cb]
    /\ Runs(k, "wait") => rd[Instr(k).cb] + Instr(k).n <= P.cap[Instr(k).cb]

\* A consumer sees only pages whose tiles have arrived: no page is published
\* while a read into it is in flight, whichever barrier the reader shares
\* between the buffers it fills.
PublishedLanded ==
  \A r \in reads : \A i \in 0 .. cnt[r[1]] - 1 : r[2] # Page(r[1], i)

\* What has been published stays as it is until it is popped: no kernel fills
\* a page that another has not given back yet.
PublishedStable ==
  [][\A b \in Buffers : \A i \in 0 .. cnt[b] - 1 : ring'[b][Page(b, i)] = PageAt(b, i)]_vars

\* Each output tile is written once, with what the operation is defined to
\* give there: the right rows, statistics of its own row and no other, the
\* scale and bias of its own columns, in every interleaving of the kernels.
WritesExact ==
  [][\A t \in DOMAIN out : out'[t] # out[t] => out[t] = Old /\ out'[t] = P.want[t]]_vars

\* The kernels never wait for each other for good; at the end every tile is
\* written and the buffers hold the constant tiles only.
ConstantTiles == {"zero", "eps", "scaler"}
Halts ==
  <>[](/\ AllDone /\ \A t \in DOMAIN out : out[t] # Old
       /\ \A b \in Buffers \ ConstantTiles : cnt[b] = 0)
=============================================================================
