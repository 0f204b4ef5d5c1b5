---------------------------- MODULE Instructions ----------------------------
(***************************************************************************)
(* What the reduction kernels are written in: calls of the circular-buffer *)
(* interface and of the math units.  A kernel is a sequence of these.      *)
(*                                                                         *)
(* A tile is represented by the lanes of one of its rows (of all its rows  *)
(* where the reduction is over the whole tile); the rows of a tile never   *)
(* meet otherwise.  A lane is a number times factors that are not          *)
(* computed: reciprocal roots, and what is added to such a product.        *)
(***************************************************************************)
EXTENDS Integers, Sequences, SequencesExt

Lane(n) == [n |-> n, f |-> <<>>]
JunkLane == [n |-> 1, f |-> <<<<"junk", 0>>>>]
Numeric(a) == a.f = <<>>

Mul(a, b) == [n |-> a.n * b.n, f |-> a.f \o b.f]
Add(a, b) ==
  IF Numeric(a) /\ Numeric(b) THEN Lane(a.n + b.n)
  ELSE [n |-> a.n, f |-> Append(a.f, <<"plus", b.n>>) \o b.f]
Sub(a, b) == IF Numeric(a) /\ Numeric(b) THEN Lane(a.n - b.n) ELSE JunkLane
Rsqrt(a) == IF Numeric(a) THEN [n |-> 1, f |-> <<<<"rsqrt", a.n>>>>] ELSE JunkLane

\* A broadcast operand gives its first lane to every lane.
Combine(fn, how, a, b) ==
  [l \in DOMAIN a |->
     LET other == b[IF how \in {"cols", "scalar"} THEN 1 ELSE l]
     IN  CASE fn = "mul" -> Mul(a[l], other)
           [] fn = "add" -> Add(a[l], other)
           [] fn = "sub" -> Sub(a[l], other)]

\* The scaler tile is held as the number it divides by.  A row reduction
\* applies it once, a scalar reduction twice; the sum is left in lane 1.
Reduce(how, tiles, scaler) ==
  LET lanes == FlattenSeq(tiles)
      divisor == IF how = "scalar" THEN scaler[1].n * scaler[1].n ELSE scaler[1].n
      sum == FoldLeft(LAMBDA s, a : s + a.n, 0, lanes)
      all == \A l \in DOMAIN lanes : Numeric(lanes[l])
  IN  [l \in DOMAIN scaler |->
         IF ~all THEN JunkLane ELSE IF l = 1 THEN Lane(sum \div divisor) ELSE Lane(0)]

-----------------------------------------------------------------------------
\* Data movement.  gather issues reads of the tiles into reserved pages.
Reserve(cb, n) == [do |-> "reserve", cb |-> cb, n |-> n]
Gather(cb, tiles) == [do |-> "gather", cb |-> cb, tiles |-> tiles]
Barrier == [do |-> "barrier"]
Push(cb, n) == [do |-> "push", cb |-> cb, n |-> n]
Wait(cb, n) == [do |-> "wait", cb |-> cb, n |-> n]
Pop(cb, n) == [do |-> "pop", cb |-> cb, n |-> n]
Fill(cb, v) == [do |-> "fill", cb |-> cb, v |-> v]       \* written in L1 by the kernel
Scatter(cb, t) == [do |-> "scatter", cb |-> cb, t |-> t]

\* emitN: run the operations into the destination registers, pack n of them.
Emit(cb, n, ops) == [do |-> "emit", cb |-> cb, n |-> n, ops |-> ops]

\* Operands: tile i, tile 0, or tile i past an offset; or the register itself.
each(cb) == [cb |-> cb, step |-> 1, at |-> 0]
one(cb) == [cb |-> cb, step |-> 0, at |-> 0]
past(cb, o) == [cb |-> cb, step |-> 1, at |-> o]
nth(cb, o) == [cb |-> cb, step |-> 0, at |-> o]
DEST == [cb |-> "dest", step |-> 0, at |-> 0]

\* An operation with the init call that configures the unit for it; an
\* operation without one relies on the configuration it finds.
Op(fn, how, a, b) == [fn |-> fn, how |-> how, a |-> a, b |-> b, init |-> TRUE]
NoInit(op) == [op EXCEPT !.init = FALSE]
Sum(how, cb, m) ==
  [fn |-> "sum", how |-> how, a |-> each(cb), b |-> one("scaler"), init |-> TRUE, m |-> m]
Const(v) == [fn |-> "const", v |-> v]
RSQRT == [fn |-> "rsqrt"]

\* Work split over cores: the first ones take the remainder.
SplitFirst(total, cores, k) ==
  k * (total \div cores) + (IF k < total % cores THEN k ELSE total % cores)
SplitCount(total, cores, k) == total \div cores + (IF k < total % cores THEN 1 ELSE 0)
=============================================================================
