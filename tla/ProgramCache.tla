----------------------------- MODULE ProgramCache -----------------------------
(***************************************************************************)
(* The program factories of the ops and the program cache they run behind. *)
(* A call is lowered to attributes (module OpLowering).  The first call    *)
(* with given attributes and tensor specs builds a program: the kernels    *)
(* compiled for these views and buffers, and on every core with work a     *)
(* list of runtime arguments per kernel.  A later one takes the program    *)
(* from the cache and has only the buffer addresses rewritten in it.       *)
(*                                                                         *)
(* Runtime arguments are positional: the host packs them here, the kernels *)
(* unpack them by offsets of their own (module ProgramKernels).            *)
(***************************************************************************)
EXTENDS OpLowering, SequencesExt

CONSTANTS
  Sessions,     \* sets of calls; a behaviour makes calls of one of them
  Bases,        \* addresses: tensor i of a call lies at base + i
  NumCores,
  K, IO_DEPTH,  \* tiles in a chunk and in the ring of an indexed copy
  Zero, None

ASSUME CacheAssumption ==
  /\ NumCores \in Nat \ {0} /\ Bases \subseteq Nat
  /\ K \in Nat \ {0} /\ IO_DEPTH \in Nat \ {0}

ASSUME CallAssumption == \A call \in UNION Sessions : Len(call.views) \in Nat

VARIABLES
  session,
  cache,      \* (attributes, specs of the tensors) -> program
  launched    \* the last launch: its call, attributes, tensors and program
vars == <<session, cache, launched>>

-----------------------------------------------------------------------------
\* Tensors: a norm without weights names x in their place.
spec(v) == [rows |-> v.rows, cols |-> v.cols, prows |-> v.prows, Cs |-> v.desc.Cs, mem |-> v.mem]
tensor_arg(call, i) ==
  IF i \in DOMAIN call.views /\ (i < 3 \/ call.op # "rms_norm") THEN i ELSE 1
tensor_args(call, base) ==
  [i \in 1 .. (IF call.op \in Norms THEN 3 ELSE Len(call.views)) |->
     [addr |-> base + tensor_arg(call, i), spec |-> spec(call.views[tensor_arg(call, i)])]]

\* The tensor allocated for an output that is not bound; a canonical output
\* is G blocks of whole tile rows.
canonical_rows_packed(a) == a.canon_G * a.canon_nt    \* mutant: the padding is forgotten
canonical_rows(a) == a.canon_G * padded(a.canon_nt)
compute_output_specs(a) ==
  LET new(v) == [spec(v) EXCEPT !.mem = a.mem]
  IN  IF a.op = "get_rows" THEN new(blocks(a.out_rows, a.out_cols))
      ELSE IF a.op \in Eltwise /\ a.canon_nt > 0
      THEN [new(tensor(canonical_rows(a), a.out_cols)) EXCEPT !.rows = a.canon_G * a.canon_nt]
      ELSE new(tensor(a.out_rows, a.out_cols))

IsBound(call) == call.out # NoOut /\ call.out.bound
resolve_output(call, a, addr) ==
  [addr |-> addr, spec |-> IF IsBound(call) THEN spec(call.out) ELSE compute_output_specs(a)]

\* What the cache compares: the attributes and the specs of the tensors given.
Key(a, ins, bound, out) ==
  <<a, [i \in DOMAIN ins |-> ins[i].spec], IF bound THEN <<out.spec>> ELSE <<>> >>

-----------------------------------------------------------------------------
\* Work units: groups, tiles, rows of tiles, or everything at once.
IsGlobal(a) == a.op \in Norms /\ a.global
IsRowNorm(a) == a.op \in Norms /\ ~a.global
IsRowOp(a) == a.op \in Norms \cup {"mul_l2_norm", "rk"}
HasGroup(a) == a.op \in Eltwise /\ \E x \in DOMAIN a.bcast : a.bcast[x]
work_tiles(a) == IF a.op \in RowCopies THEN a.work_tiles ELSE a.n_otr * a.n_otc
per_unit(a) ==
  IF IsGlobal(a) THEN work_tiles(a)
  ELSE IF IsRowOp(a) THEN a.n_otc
  ELSE IF HasGroup(a) THEN a.tpg ELSE 1
units(a) == work_tiles(a) \div per_unit(a)

Cores == 0 .. NumCores - 1
here(a, k) == units(a) \div NumCores + (IF k < units(a) % NumCores THEN 1 ELSE 0)
done(a, k) ==
  k * (units(a) \div NumCores) + (IF k < units(a) % NumCores THEN k ELSE units(a) % NumCores)
AllCores(a) == {k \in Cores : here(a, k) > 0}
Count(a, k) == here(a, k) * per_unit(a)
First(a, k) == done(a, k) * per_unit(a)

\* rk: a core with more rows than a token group keeps the group resident.
w_grp(a) == IF a.w_bcast THEN a.rbs_per_group ELSE 0
w_phase0(a, k) == IF a.w_bcast THEN done(a, k) % a.rbs_per_group ELSE 0
w_resident(a, k) == IF a.w_bcast /\ here(a, k) > a.rbs_per_group THEN 1 ELSE 0

-----------------------------------------------------------------------------
\* Packing.  A list of arguments begins with the addresses it has.
flag(b) == IF b THEN 1 ELSE 0
WithAddresses(addrs, rest) ==
  [i \in 1 .. Len(addrs) + Len(rest) |->
     IF i <= Len(addrs) THEN addrs[i] ELSE rest[i - Len(addrs)]]

append_view_args(t0, d) ==
  <<t0>>
  \o (IF kind_of(d) = "dense" THEN <<>>
      ELSE <<d.base, d.S_row, d.Cs, nct(d), d.Ro, d.Co, n_otc(d)>>)
  \o (IF kind_of(d) = "grouped" THEN <<d.P, d.A, d.B>> ELSE <<>>)

StartAtPhase(a, k, x) == First(a, k)    \* mutant: r_k starts where the core does
Start(a, k, x) ==
  IF a.op \in Eltwise /\ a.bcast[x] THEN 0
  ELSE IF a.op = "rk" /\ x = 3 /\ a.w_bcast
  THEN IF w_resident(a, k) = 1 THEN 0 ELSE w_phase0(a, k) * a.n_otc
  ELSE First(a, k)

ReaderScalars(a, k) ==
  CASE a.op \in Eltwise     -> <<Count(a, k), a.tpg>> \o [x \in DOMAIN a.bcast |-> flag(a.bcast[x])]
    [] IsGlobal(a)          -> <<work_tiles(a), a.affine>>
    [] IsRowNorm(a)         -> <<here(a, k), a.n_otc, a.rscale, a.eps, a.affine>>
    [] a.op = "mul_l2_norm" -> <<here(a, k), a.n_otc>>
    [] a.op = "rk"          ->
         <<here(a, k), a.n_otc, w_grp(a), w_phase0(a, k), w_resident(a, k)>>
    [] OTHER                -> <<Count(a, k)>>

reader_args(a, k) ==
  ReaderScalars(a, k)
  \o FlattenSeq([x \in DOMAIN a.ins |-> append_view_args(Start(a, k, x), a.ins[x])])
writer_args(a, k) == <<Count(a, k)>> \o append_view_args(First(a, k), a.o)
compute_args(a, k) ==
  CASE a.op \in Eltwise     ->
         <<Count(a, k), a.tpg, First(a, k) % a.tpg>> \o [x \in DOMAIN a.bcast |-> flag(a.bcast[x])]
    [] IsGlobal(a)          -> <<work_tiles(a), a.affine, a.eps, a.rscale>>
    [] IsRowNorm(a)         -> <<here(a, k), a.n_otc, a.affine, a.eps, a.rscale>>
    [] a.op = "mul_l2_norm" -> <<here(a, k), a.n_otc, a.eps, a.rscale>>
    [] a.op = "rk"          ->
         <<here(a, k), a.n_otc, a.rscale, w_grp(a), w_phase0(a, k), w_resident(a, k)>>
    [] OTHER                -> <<>>

\* An indexed copy: the side that is indexed is given the index too.
index_args(a, k, addr, indexed, idx) ==
  IF indexed
  THEN <<addr, Count(a, k), First(a, k), a.T, K, idx, a.idx_pages, a.n_idx_rows>>
  ELSE <<addr, Count(a, k), First(a, k), a.T, K>>
gather(a) == a.op = "get_rows"

Addresses(ins) == [i \in DOMAIN ins |-> ins[i].addr]
ReaderList(a, ins, k) ==
  IF a.op \in RowCopies THEN index_args(a, k, ins[1].addr, gather(a), ins[2].addr)
  ELSE WithAddresses(Addresses(ins), reader_args(a, k))
WriterList(a, ins, out, k) ==
  IF a.op \in RowCopies THEN index_args(a, k, out.addr, ~gather(a), ins[2].addr)
  ELSE WithAddresses(<<out.addr>>, writer_args(a, k))

-----------------------------------------------------------------------------
\* Pages of the buffer of each operand, and the most a reader reserves at once.
Pages(a) ==
  CASE a.op \in Eltwise   -> [x \in DOMAIN a.ins |-> IF a.bcast[x] THEN a.tpg ELSE 4]
    [] a.op \in RowCopies -> <<IO_DEPTH>>
    [] IsGlobal(a)        -> <<work_tiles(a)>>
    [] IsRowNorm(a)       -> <<IF a.wide THEN a.n_otc ELSE 2 * a.n_otc>>
    [] a.op = "realize"   -> <<4>>
    [] OTHER              ->
         [x \in DOMAIN a.ins |->
            IF a.op = "rk" /\ x = 3 /\ a.w_bcast /\ a.rbs_per_group > 2
            THEN a.rbs_per_group * a.n_otc ELSE 2 * a.n_otc]

\* What is compiled in: the kernels' source and views, the buffers, and where
\* the tensors' memory is.
Kernels(a, ins, out) ==
  [op |-> a.op, global |-> IsGlobal(a), pages |-> Pages(a),
   kinds |-> IF a.op \in RowCopies THEN <<>> ELSE [x \in DOMAIN a.ins |-> kind_of(a.ins[x])],
   out_kind |-> IF a.op \in RowCopies THEN "dense" ELSE kind_of(a.o),
   accessors |-> [i \in DOMAIN ins |-> ins[i].spec.mem], out_accessor |-> out.spec.mem]

create(a, ins, out) ==
  [kernels |-> Kernels(a, ins, out),
   reader |-> [k \in AllCores(a) |-> ReaderList(a, ins, k)],
   compute |-> [k \in AllCores(a) |-> compute_args(a, k)],
   writer |-> [k \in AllCores(a) |-> WriterList(a, ins, out, k)]]

PatchedFirst(args, addrs) ==    \* mutant: one address of several is rewritten
  [i \in DOMAIN args |-> IF i = 1 THEN addrs[i] ELSE args[i]]
Patched(args, addrs) ==
  [i \in DOMAIN args |-> IF i <= Len(addrs) THEN addrs[i] ELSE args[i]]
PatchedIndex(args, addr, indexed, idx) ==
  [i \in DOMAIN args |-> IF i = 1 THEN addr ELSE IF i = 6 /\ indexed THEN idx ELSE args[i]]

override_runtime_arguments(p, a, ins, out) ==
  [p EXCEPT
     !.reader = [k \in DOMAIN p.reader |->
       IF a.op \in RowCopies THEN PatchedIndex(p.reader[k], ins[1].addr, gather(a), ins[2].addr)
       ELSE Patched(p.reader[k], Addresses(ins))],
     !.writer = [k \in DOMAIN p.writer |->
       IF a.op \in RowCopies THEN PatchedIndex(p.writer[k], out.addr, ~gather(a), ins[2].addr)
       ELSE Patched(p.writer[k], <<out.addr>>)]]

-----------------------------------------------------------------------------
Init == session \in Sessions /\ cache = <<>> /\ launched = None

\* A call that lowers is launched; an output that is bound may be an operand.
Launch(call, base, dst) ==
  LET a == Attributes(call)
      ins == tensor_args(call, base)
      out == resolve_output(call, a, dst)
      key == Key(a, ins, IsBound(call), out)
      program == IF key \in DOMAIN cache THEN override_runtime_arguments(cache[key], a, ins, out)
                                         ELSE create(a, ins, out)
  IN  /\ Lowers(call)
      /\ dst = base \/ (IsBound(call) /\ call.out = call.views[1] /\ dst = base + 1)
      /\ cache' = [x \in DOMAIN cache \cup {key} |-> IF x = key THEN program ELSE cache[x]]
      /\ launched' = [call |-> call, a |-> a, ins |-> ins, out |-> out, program |-> program]
      /\ UNCHANGED session

\* Any other call returns an error and launches nothing.
Refuse(call) ==
  /\ ~Lowers(call)
  /\ launched' = None
  /\ UNCHANGED <<session, cache>>

Next ==
  \E call \in session :
    Refuse(call) \/ \E base \in Bases : \E dst \in {base, base + 1} : Launch(call, base, dst)

Spec == Init /\ [][Next]_vars

-----------------------------------------------------------------------------
\* Whatever the cache held, a launch runs the program that building it anew
\* for this call's tensors would give: no address, count, view or buffer of
\* an earlier call is left in it.
LaunchFresh ==
  launched # None => launched.program = create(launched.a, launched.ins, launched.out)
=============================================================================
