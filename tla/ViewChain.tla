------------------------------ MODULE ViewChain ------------------------------
(***************************************************************************)
(* The host's layout algebra.  A View binds a tensor to a LayoutView: an   *)
(* affine map from presented coordinates to element indices of the padded  *)
(* source grid.  The verbs fold a chain into one map; plan() decides       *)
(* whether the device can walk it face-row by face-row, lower() hands it   *)
(* to the device and kind_of() picks whole-page transfers when it may.     *)
(*                                                                         *)
(* array is a history variable: what the same verbs make of the tensor's   *)
(* elements, or Undefined once a verb had no meaning.                      *)
(***************************************************************************)
EXTENDS Tiling, Arrays, SequencesExt

CONSTANTS
  Tensors,        \* logical shapes of the tensors views are made of
  ReshapeArgs(_), \* shape -> shapes reshape is called with
  SliceArgs(_),   \* shape -> sequences of ranges slice is called with
  PermArgs(_),    \* shape -> permutations
  MaxVerbs,       \* bound on the length of a chain
  SqueezeLate,    \* is squeeze_dim also called after other verbs
  W,              \* width of the integers (64 in the program)
  Undefined

ASSUME ChainAssumption ==
  /\ MaxVerbs \in Nat /\ W \in Nat \ {0} /\ SqueezeLate \in BOOLEAN
  /\ \A t \in Tensors : t \in Seq(Nat) /\ Len(t) >= 2

\* What the proofs use of the powers of two.
ASSUME WidthAssumption ==
  2^(W - 1) \in Nat \ {0} /\ 2^W \in Nat \ {0} /\ 2^W = 2 * 2^(W - 1)

VARIABLES shape_,          \* View: logical shape of the tensor
          padded_shape_,   \* View: its padded shape
          L,               \* LayoutView: shape, stride, base
          src_rows_, src_cols_,
          array, verbs

vars == <<shape_, padded_shape_, L, src_rows_, src_cols_, array, verbs>>

\* Two's complement.
Wrap(x) == LET m == x % 2^W IN IF m >= 2^(W - 1) THEN m - 2^W ELSE m
POISON == -(2^(W - 1))
poisoned(shape) == [a \in DOMAIN shape |-> POISON]

Padded(x) == ((x + TILE - 1) \div TILE) * TILE
rowmajor(s) == [a \in DOMAIN s |-> Extent(s, a + 1, Len(s))]

c_contiguous ==
  \A a \in DOMAIN L.shape :
    L.shape[a] = 1 \/ L.stride[a] = Extent(L.shape, a + 1, Len(L.shape))

-----------------------------------------------------------------------------
\* Anchors.  A tensor padded on an inner axis has no uniform row stride over
\* its logical rows and is presented with its padding.
PaddedShape(t) ==
  [a \in DOMAIN t |-> IF a >= Len(t) - 1 THEN Padded(t[a]) ELSE t[a]]
DensePacked(t, p) == \A a \in 2 .. Len(t) - 1 : t[a] = p[a]

Anchor(t, p) ==
  LET n == Len(t)
      R == Extent(IF DensePacked(t, p) THEN t ELSE p, 1, n - 1)
      C == IF DensePacked(t, p) THEN t[n] ELSE p[n]
  IN  [shape |-> <<R, C>>, stride |-> <<p[n], 1>>, base |-> 0]

\* The tensor's elements as an array: element k sits in slot k of the padded
\* grid.  The logical coordinates are those of the padded grid's.
Grid(p) == [shape |-> p, elems |-> [i \in 1 .. Numel(p) |-> i - 1]]
Logical(t, p) ==
  Sliced(Grid(p), t, [a \in DOMAIN t |-> 0], [a \in DOMAIN t |-> 1])

Init ==
  /\ shape_ \in Tensors
  /\ padded_shape_ = PaddedShape(shape_)
  /\ L = Anchor(shape_, padded_shape_)
  /\ src_rows_ = Extent(padded_shape_, 1, Len(shape_) - 1)
  /\ src_cols_ = Last(padded_shape_)
  /\ array = Reshaped(IF DensePacked(shape_, padded_shape_)
                      THEN Logical(shape_, padded_shape_) ELSE Grid(padded_shape_),
                      L.shape)
  /\ verbs = 0

\* Every verb keeps the binding and folds into the layout.
Verb == verbs < MaxVerbs /\ verbs' = verbs + 1
Fold(layout, meaning) ==
  /\ Verb
  /\ L' = layout
  /\ array' = IF array = Undefined THEN Undefined ELSE meaning
  /\ UNCHANGED <<shape_, padded_shape_, src_rows_, src_cols_>>

RestridesAny(ns) == Numel(ns) = Numel(L.shape)    \* mutant
Restrides(ns) == Numel(ns) = Numel(L.shape) /\ c_contiguous

reshape(ns) ==
  Fold([L EXCEPT !.shape = ns,
                 !.stride = IF Restrides(ns) THEN rowmajor(ns) ELSE poisoned(ns)],
       IF Numel(ns) = Numel(L.shape) THEN Reshaped(array, ns) ELSE Undefined)

\* A slice applies the ranges in turn and poisons the whole layout at the
\* first invalid one, keeping what the earlier ranges did to shape and base.
Steps(r) == {a \in DOMAIN r : a <= Len(L.shape)}
InvalidRangeOrder(r, a) ==    \* mutant: begin may exceed end
  r[a].step <= 0 \/ r[a].begin < 0 \/ r[a].end > L.shape[a]
InvalidRange(r, a) ==
  r[a].step <= 0 \/ r[a].begin < 0 \/ r[a].end > L.shape[a] \/ r[a].begin > r[a].end

slice(r) ==
  LET bad == {a \in Steps(r) : InvalidRange(r, a)}
      done == {a \in Steps(r) : \A b \in bad : a < b}
      kept(a) == (r[a].end - r[a].begin + r[a].step - 1) \div r[a].step
      shape == [a \in DOMAIN L.shape |-> IF a \in done THEN kept(a) ELSE L.shape[a]]
      begin == [a \in DOMAIN L.shape |-> IF a \in done THEN r[a].begin ELSE 0]
      step == [a \in DOMAIN L.shape |-> IF a \in done THEN r[a].step ELSE 1]
  IN  Fold([shape |-> shape,
            stride |-> IF bad = {} THEN [a \in DOMAIN shape |-> Wrap(L.stride[a] * step[a])]
                       ELSE poisoned(shape),
            base |-> Wrap(L.base + Total([a \in DOMAIN shape |-> begin[a] * L.stride[a]],
                                         Len(shape)))],
           IF bad = {} THEN Sliced(array, shape, begin, step) ELSE Undefined)

permute(perm) ==
  /\ Len(perm) = Len(L.shape)
  /\ Fold([L EXCEPT !.shape = [a \in DOMAIN perm |-> L.shape[perm[a]]],
                    !.stride = [a \in DOMAIN perm |-> L.stride[perm[a]]]],
          Permuted(array, perm))

\* Split an axis into (extent/TILE, TILE).
FoldValid(axis) == axis \in DOMAIN L.shape /\ L.shape[axis] % TILE = 0
Split(s, axis, outer, inner) ==
  [a \in 1 .. Len(s) + 1 |->
     IF a < axis THEN s[a]
     ELSE IF a = axis THEN outer ELSE IF a = axis + 1 THEN inner ELSE s[a - 1]]

fold(axis) ==
  IF FoldValid(axis)
  THEN LET shape == Split(L.shape, axis, L.shape[axis] \div TILE, TILE)
       IN  Fold([L EXCEPT !.shape = shape,
                          !.stride = Split(@, axis, Wrap(@[axis] * TILE), @[axis])],
                Reshaped(array, shape))
  ELSE Fold([L EXCEPT !.stride = poisoned(L.shape)], Undefined)

\* squeeze_dim rebuilds the layout from the tensor's shape.  Dropping a unit
\* axis moves no element.
squeeze_dim(dim) ==
  LET n == Len(shape_)
      s == RemoveAt(shape_, dim)
      p == RemoveAt(padded_shape_, dim)
  IN  /\ n >= 3 /\ dim \in 1 .. n - 2 /\ shape_[dim] = 1
      /\ SqueezeLate \/ verbs = 0
      /\ Verb
      /\ shape_' = s /\ padded_shape_' = p
      /\ L' = [shape |-> s, stride |-> rowmajor(p), base |-> 0]
      /\ src_rows_' = Extent(p, 1, n - 2) /\ src_cols_' = Last(p)
      /\ array' = IF verbs = 0 THEN Logical(s, p) ELSE array

Next ==
  \/ \E ns \in ReshapeArgs(L.shape) : reshape(ns)
  \/ \E r \in SliceArgs(L.shape) : slice(r)
  \/ \E perm \in PermArgs(L.shape) : permute(perm)
  \/ \E axis \in 0 .. Len(L.shape) : fold(axis)
  \/ \E dim \in DOMAIN shape_ : squeeze_dim(dim)

Spec == Init /\ [][Next]_vars

-----------------------------------------------------------------------------
\* plan(): the presented shape folded to Ro x Co, and whether it is walkable.
lane == Len(L.shape)
Co == L.shape[lane]
Ro == Extent(L.shape, 1, lane - 1)

\* Source element of column 0 of output row oR.
row_base(oR) ==
  L.base + Total([a \in 1 .. lane - 1 |->
                    ((oR \div Extent(L.shape, a + 1, lane - 1)) % L.shape[a]) * L.stride[a]],
                 lane - 1)
S_row == IF Ro > 1 THEN row_base(1) - row_base(0) ELSE 0

FaceAlignedAnyBase ==    \* mutant: the base is not checked
  /\ L.stride[lane] = 1
  /\ Co % FACE = 0
  /\ \A a \in 1 .. lane - 1 : L.stride[a] % FACE = 0
FaceAligned ==
  /\ L.stride[lane] = 1
  /\ Co % FACE = 0 /\ L.base % FACE = 0
  /\ \A a \in 1 .. lane - 1 : L.stride[a] % FACE = 0

AffineUnchecked == TRUE    \* mutant
Affine == \A oR \in 1 .. Ro - 1 : row_base(oR) = L.base + oR * S_row

\* The live face-rows of the output, as <<row, first column>>.
LiveFaces == {f \in (0 .. Ro - 1) \X (0 .. Co - 1) : f[2] % FACE = 0}
Page(k) ==
  ((k \div src_cols_) \div TILE) * (src_cols_ \div TILE) + ((k % src_cols_) \div TILE)
InSource ==
  \A f \in LiveFaces :
    LET k0 == row_base(f[1]) + f[2]
    IN  /\ k0 >= 0 /\ k0 \div src_cols_ < src_rows_
        /\ Page(k0) < (src_rows_ \div TILE) * (src_cols_ \div TILE)

ok == (\A a \in DOMAIN L.stride : L.stride[a] # POISON) /\ FaceAligned /\ Affine /\ InSource

has_pad == Padded(Ro) # Ro \/ Padded(Co) # Co
all_tile ==
  /\ ~has_pad
  /\ \A f \in LiveFaces :
       LET k0 == row_base(f[1]) + f[2]
       IN  /\ (k0 \div src_cols_) % TILE = f[1] % TILE
           /\ (k0 % src_cols_) % TILE = f[2] % TILE
\* Both faces of every row come from one page, and within a tile the page
\* moves by the same amount from row to row.
all_row ==
  /\ ~has_pad
  /\ \A f \in LiveFaces :
       LET page(r) == Page(row_base(r) + f[2])
           left == f[2] % TILE = 0
       IN  /\ left => Page(row_base(f[1]) + f[2] + FACE) = page(f[1])
           /\ left /\ f[1] % TILE \notin {0, TILE - 1}
                => page(f[1] + 1) - page(f[1]) = page(f[1]) - page(f[1] - 1)
cls == IF ~ok THEN "REJECT" ELSE IF all_tile THEN "TILE" ELSE IF all_row THEN "ROW" ELSE "SEGMENT"

\* lower(): what the device view is constructed from.
AffineDesc ==
  [base |-> L.base, S_row |-> S_row, Cs |-> src_cols_, nct |-> src_cols_ \div TILE,
   Ro |-> Ro, Co |-> Co, n_otc |-> Padded(Co) \div TILE, n_otr |-> Padded(Ro) \div TILE]

\* kind_of() on a linear map: dense moves whole pages.
is_dense_any_step ==    \* mutant: the row step is not checked
  /\ L.base = 0 /\ Co = src_cols_
  /\ Padded(Ro) = Ro /\ Padded(Co) = Co
is_dense_identity ==
  /\ L.base = 0 /\ S_row = src_cols_ /\ Co = src_cols_
  /\ Padded(Ro) = Ro /\ Padded(Co) = Co

-----------------------------------------------------------------------------
TypeOK ==
  /\ shape_ \in Seq(Nat) /\ padded_shape_ \in Seq(Nat)
  /\ Len(L.shape) = Len(L.stride)
  /\ L.shape \in Seq(Nat) /\ L.stride \in Seq(POISON .. -POISON - 1)
  /\ L.base \in POISON .. -POISON - 1
  /\ src_rows_ % TILE = 0 /\ src_cols_ % TILE = 0
  /\ verbs \in 0 .. MaxVerbs

\* A view plan() accepts presents exactly the elements its chain of verbs
\* selects, in their order, although the device is only told one base and one
\* row step; a chain with a meaningless verb in it is never accepted, whatever
\* verbs follow and however the poison wraps.  An empty view presents nothing.
AcceptedExact ==
  LET d == AffineDesc
  IN  ok /\ d.Ro * d.Co # 0 =>
        /\ array # Undefined
        /\ d.Co = Last(array.shape)
        /\ array.elems = [i \in 1 .. d.Ro * d.Co |->
                            d.base + ((i - 1) \div d.Co) * d.S_row + ((i - 1) % d.Co)]

\* Every face-row of an accepted view is one aligned face-row of one row of
\* the source, inside its pages: what the device moves in one transfer.
FaceRowsWhole ==
  ok => \A f \in LiveFaces :
          LET k0 == L.base + f[1] * S_row + f[2]
          IN  /\ k0 >= 0 /\ k0 % FACE = 0
              /\ (k0 + FACE - 1) \div src_cols_ = k0 \div src_cols_
              /\ k0 \div src_cols_ < src_rows_

\* The rows of an accepted view start at faces, follow each other without
\* overlapping and end inside the source: what the device view and the programs
\* take for granted of every map they are handed, and why cores that scatter
\* different tiles through one view never write the same element.
RowsApart ==
  LET d == AffineDesc
  IN  ok /\ d.Ro * d.Co # 0 =>
        /\ d.base >= 0 /\ d.base % FACE = 0 /\ d.S_row % FACE = 0
        /\ d.Ro > 1 => d.Co <= d.S_row
        /\ d.base + (d.Ro - 1) * d.S_row + d.Co <= src_rows_ * d.Cs

\* When an endpoint is dense, output tile t is page t of the source, slot for
\* slot, no slot of it is padding, and plan() classes it TILE.
DenseIsPageCopy ==
  ok /\ is_dense_identity =>
    /\ cls = "TILE"
    /\ Ro * Co = (Padded(Ro) \div TILE) * (Padded(Co) \div TILE) * PAGE_ELTS
    /\ \A oR \in 0 .. Ro - 1, oC \in 0 .. Co - 1 :
         LET k == L.base + oR * S_row + oC
         IN  phys(k \div src_cols_, k % src_cols_, src_cols_) = phys(oR, oC, Padded(Co))
=============================================================================
