--------------------------- MODULE MCGroupedView ---------------------------
EXTENDS GroupedView

\* Fewer tokens than a tile, a whole tile, one and a half, two; up to three
\* groups; one and two tiles wide, and half a tile more.
MCTokens == {1, 2, 3, 4, 6, 8}
MCGroups == {1, 2, 3}
MCWidths == {4, 8}

\* A flat weight seen as rows half a page apart, repeated down the output.
RowRepeat ==
  [kind |-> "gather",
   map |-> make_grouped_desc([dense(2, 4) EXCEPT !.S_row = 6, !.Cs = 12, !.nct = 3],
                             dense(6, 6), 2, 0, 1)]

\* The cases lerp does not leave to other views.
Shifts == MCTokens \X MCGroups \X MCWidths
Gathers(maps) == {[kind |-> "gather", map |-> x] : x \in maps}
MCEndpoints ==
  Gathers({TokenValues(x[1], x[2], x[3]) : x \in {y \in Shifts : y[1] > 1 \/ y[2] > 1}})
  \cup Gathers({Weights(x[1], x[2], x[3], FALSE) : x \in {y \in Shifts : y[1] > 1}})
  \cup Gathers({Weights(x[1], x[2], x[3], TRUE) : x \in {y \in Shifts : y[2] > 1}})
  \cup {[kind |-> "scatter", map |-> Canonical(x[1], x[2], x[3])] :
          x \in {y \in Shifts : y[1] % TILE # 0}}
  \cup {RowRepeat}
=============================================================================
