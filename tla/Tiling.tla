------------------------------- MODULE Tiling -------------------------------
(***************************************************************************)
(* Physical addressing of a tiled tensor, in elements.  A page is one      *)
(* TILE x TILE tile cut into four FACE x FACE faces stored one after the   *)
(* other, so a "face-row" (FACE consecutive elements of one row) is the    *)
(* largest run that is contiguous in memory.  The program has FACE = 16    *)
(* and TILE = 32; every definition here is written over FACE so that small *)
(* instances keep the shape of the arithmetic.                             *)
(***************************************************************************)
EXTENDS Integers

CONSTANTS FACE,   \* elements in a face-row
          TILE    \* elements across a tile

ASSUME TilingAssumption == FACE \in Nat \ {0} /\ TILE = 2 * FACE

\* C division truncates towards zero; fdiv and fmod_ correct it to a floor.
TruncDiv(a, b) == IF a >= 0 THEN a \div b ELSE -((-a) \div b)

fdiv(a, b) ==
  LET q == TruncDiv(a, b)
      r == a - q * b
  IN  IF r # 0 /\ ((r < 0) # (b < 0)) THEN q - 1 ELSE q

fmod_(a, b) ==
  LET r == a - TruncDiv(a, b) * b
  IN  IF r # 0 /\ ((r < 0) # (b < 0)) THEN r + b ELSE r

PAGE_ELTS == TILE * TILE

\* Offset in its page of the left face-row of within-tile row r.
f0e(r) == (r \div FACE) * (FACE * TILE) + (r % FACE) * FACE

\* The right face of a row is one whole face further on.
RIGHT_FACE == FACE * FACE

\* Offset in its page of the within-tile element (r, c).
in_page_elt(r, c) == f0e(r) + (c \div FACE) * (FACE * FACE) + (c % FACE)

\* Element index of (row, col) in a tiled tensor C elements wide.
phys(row, col, C) ==
  ((row \div TILE) * (C \div TILE) + (col \div TILE)) * PAGE_ELTS
    + in_page_elt(row % TILE, col % TILE)
=============================================================================
