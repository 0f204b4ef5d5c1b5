---------------------------- MODULE MCViewChain ----------------------------
EXTENDS ViewChain

\* Aligned, padded on rows, padded on columns, flat, padded on an inner axis
\* (twice, once with a unit axis to squeeze), and a batch of tiles.
MCTensors == {<<4, 8>>, <<3, 4>>, <<4, 6>>, <<1, 16>>, <<2, 3, 4>>, <<1, 1, 3, 4>>, <<1, 2, 4, 4>>}

\* Shapes up to rank 3 of the same size, and one of another size, with row-major
\* strides that fit the integers (all of them do here).
Factors(n) == {d \in 1 .. n : n % d = 0}
MCReshapeArgs(s) ==
  LET n == Numel(s)
      shapes == {<<n + FACE>>, <<n>>}
        \cup {<<n \div c, c>> : c \in Factors(n) \cap {2, 4, 6, 8, 16}}
        \cup {<<2, n \div (2 * c), c>> : c \in {x \in {2, 4, 8} : n % (2 * x) = 0}}
  IN  {ns \in shapes : \A a \in DOMAIN ns : Extent(ns, a + 1, Len(ns)) < -POISON}

\* One axis is cut; the ranges before it are whole, those after it are left out.
Whole(n) == [begin |-> 0, end |-> n, step |-> 1]
Cuts(n) == [begin : {-1}, end : {n}, step : {1}] \cup
  {c \in [begin : {0, 1, 2, 4}, end : {2, 4, n, n + 1}, step : {0, 1, 2, 5}] :
     /\ c.step = 0 => c.begin = 0 /\ c.end = n
     /\ c.end = n + 1 => c.begin = 0 /\ c.step = 1}
MCSliceArgs(s) ==
  {[a \in 1 .. x |-> IF a < x THEN Whole(s[a]) ELSE c] :
     <<x, c>> \in UNION {{a} \X Cuts(s[a]) : a \in DOMAIN s}}

\* All permutations of up to three axes.
MCPermArgs(s) ==
  IF Len(s) > 3 THEN {}
  ELSE {p \in [DOMAIN s -> DOMAIN s] : \A a \in DOMAIN s : \E b \in DOMAIN s : p[b] = a}

\* The squeeze_late run: a tensor without padding, slices that keep some of its
\* elements, and squeeze_dim before or after them.
MCUnitTensors == {<<1, 2, 4, 4>>}
MCKeepingSlices(s) ==
  {r \in MCSliceArgs(s) : \A a \in DOMAIN r :
     r[a].step > 0 /\ r[a].begin >= 0 /\ r[a].begin < r[a].end /\ r[a].end <= s[a]}

SliceSqueezeNext ==
  \/ \E r \in SliceArgs(L.shape) : slice(r)
  \/ \E dim \in DOMAIN shape_ : squeeze_dim(dim)
SliceSqueezeSpec == Init /\ [][SliceSqueezeNext]_vars
=============================================================================
