------------------------------- MODULE RowCopy -------------------------------
(***************************************************************************)
(* What get_rows and set_rows promise: row i of the selection is copied    *)
(* from, or to, the row its index names, tile by tile, every tile at most  *)
(* once and in no particular order.  A gather clamps an index outside the  *)
(* tensor to row 0, a scatter leaves its row out.                          *)
(***************************************************************************)
EXTENDS Integers

CONSTANT Old    \* what the destination holds before

VARIABLES mode,   \* the call: "gather" or "scatter",
          R,      \* rows of the indexed tensor,
          T,      \* tiles per row,
          idx,    \* and the selection: 0 .. M-1 -> Int
          copied, \* tiles copied, as <<selected row, tile within the row>>
          out     \* destination tile -> source tile it was copied from

call == <<mode, R, T, idx>>
vars == <<call, copied, out>>

Named(i) == idx[i] \in 0 .. R - 1
From(i, t) == IF mode = "scatter" THEN i * T + t
              ELSE IF Named(i) THEN idx[i] * T + t ELSE t
To(i, t) == IF mode = "gather" THEN i * T + t ELSE idx[i] * T + t

Wanted == {w \in (DOMAIN idx) \X (0 .. T - 1) : mode = "gather" \/ Named(w[1])}

Init == copied = {} /\ \A p \in DOMAIN out : out[p] = Old

Copy(i, t) ==
  /\ <<i, t>> \in Wanted \ copied
  /\ copied' = copied \cup {<<i, t>>}
  /\ out' = [out EXCEPT ![To(i, t)] = From(i, t)]
  /\ UNCHANGED call

Next == \E i \in DOMAIN idx, t \in 0 .. T - 1 : Copy(i, t)
Spec == Init /\ [][Next]_vars

\* The result, for a selection that names no row twice: every named row is
\* whole, every other row of a scatter's destination is untouched.
Distinct == \A i, j \in DOMAIN idx : i # j /\ Named(i) => idx[i] # idx[j]
Result ==
  \A p \in DOMAIN out :
    out[p] = IF \E w \in Wanted : To(w[1], w[2]) = p
             THEN LET w == CHOOSE x \in Wanted : To(x[1], x[2]) = p IN From(w[1], w[2])
             ELSE Old
=============================================================================
