----------------------------- MODULE MCRowIndex -----------------------------
EXTENDS RowIndex

Core1 == CHOOSE k \in Cores : TRUE

\* Five tiles wrap the ring of one core; the other does three.
MCT0 == [k \in Cores |-> IF k = Core1 THEN 0 ELSE 5]
MCCount == [k \in Cores |-> IF k = Core1 THEN 5 ELSE 3]

\* Rows of two tiles, one of them padded inside.
MCShapes == {<<3, 4, 8>>, <<3, 7, 3>>}

\* Four rows of three: duplicates, and indices below and above the range.
Selection(a, b, c, d) == [i \in 0 .. 3 |-> <<a, b, c, d>>[i + 1]]
MCSelections == {Selection(2, 0, 1, 3), Selection(-1, 2, 0, 1), Selection(1, 1, 3, 0)}
=============================================================================
