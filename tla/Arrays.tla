-------------------------------- MODULE Arrays --------------------------------
(***************************************************************************)
(* What the view verbs mean: an array is a shape and its elements in       *)
(* row-major order, and every verb says which element each position of the *)
(* result takes.  Nothing here knows of strides or tiles; it is the        *)
(* reference ViewChain's layouts are compared with.                        *)
(***************************************************************************)
EXTENDS Integers, Sequences

\* Product of the extents of axes a .. b, and the sum of f[1] .. f[n].
Extent(shape, a, b) ==
  LET product[k \in 0 .. b] == IF k < a THEN 1 ELSE product[k - 1] * shape[k] IN product[b]
Total(f, n) ==
  LET total[k \in 0 .. n] == IF k = 0 THEN 0 ELSE total[k - 1] + f[k] IN total[n]
Numel(shape) == Extent(shape, 1, Len(shape))

\* Coordinate of the i-th element along each axis, and back.
Coords(shape, i) ==
  [a \in DOMAIN shape |-> (i \div Extent(shape, a + 1, Len(shape))) % shape[a]]
Position(shape, c) ==
  Total([a \in DOMAIN shape |-> c[a] * Extent(shape, a + 1, Len(shape))], Len(shape))

\* The array of the given shape whose element at c is array A's at From(c).
Pick(A, shape, From(_)) ==
  [shape |-> shape,
   elems |-> [i \in 1 .. Numel(shape) |->
                A.elems[Position(A.shape, From(Coords(shape, i - 1))) + 1]]]

Reshaped(A, shape) == [shape |-> shape, elems |-> A.elems]
Sliced(A, shape, begin, step) ==
  Pick(A, shape, LAMBDA c : [a \in DOMAIN c |-> begin[a] + c[a] * step[a]])
Permuted(A, perm) ==
  Pick(A, [a \in DOMAIN perm |-> A.shape[perm[a]]],
       LAMBDA c : [b \in DOMAIN perm |-> c[CHOOSE a \in DOMAIN perm : perm[a] = b]])
=============================================================================
