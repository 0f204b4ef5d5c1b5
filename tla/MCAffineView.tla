---------------------------- MODULE MCAffineView ----------------------------
(***************************************************************************)
(* AffineView over every affine map that host lowering can build on small  *)
(* sources: face-aligned base and row stride, rows that stay inside the    *)
(* source, and the stride-0 maps of a replicated single row.               *)
(***************************************************************************)
EXTENDS AffineView

CONSTANTS SourceRows, SourceCols,   \* extents of the sources
          MaxRows, MaxCols          \* largest presented shape

RoundUp(x) == ((x + TILE - 1) \div TILE) * TILE

FaceMultiples(n) == {x \in 0 .. n : x % FACE = 0}

MapOf(base, stride, width, Ro, Co) ==
  [base |-> base, S_row |-> stride, Cs |-> width, nct |-> width \div TILE,
   Ro |-> Ro, Co |-> Co,
   n_otc |-> RoundUp(Co) \div TILE, n_otr |-> RoundUp(Ro) \div TILE]

\* Strided views have rows apart by at least their width; a lone row has
\* stride 0, and so has a lone row replicated down Ro output rows.
MCMaps ==
  UNION {
    {MapOf(base, stride, src[2], Ro, Co) :
       <<base, stride, Ro, Co>> \in
         {x \in FaceMultiples(src[1] * src[2]) \X FaceMultiples(3 * src[2])
                \X (1 .. MaxRows) \X (FaceMultiples(MaxCols) \ {0}) :
            /\ x[1] + (x[3] - 1) * x[2] + x[4] <= src[1] * src[2]
            /\ x[2] = 0 \/ (x[2] >= x[4] /\ x[3] > 1)}} :
    src \in SourceRows \X SourceCols}
=============================================================================
