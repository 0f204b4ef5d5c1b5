----------------------------- MODULE Elementwise -----------------------------
(***************************************************************************)
(* What a fused elementwise op promises: every element of the result is    *)
(* made of the element each operand presents at the same column, operands  *)
(* with fewer rows repeating them, or stretching each over span rows of    *)
(* the output.  The result appears tile by tile.                           *)
(***************************************************************************)
EXTENDS Integers

CONSTANTS TILE, Old

VARIABLES views,   \* the operands: affine maps of Ro x Co elements, and span
          Ro, Co,  \* rows and columns of the result
          result   \* its tiles: Old, or cell -> source element of each operand

vars == <<views, Ro, Co, result>>

Across == (Co + TILE - 1) \div TILE
Row(t, cell) == (t \div Across) * TILE + cell[1]
Col(t, cell) == (t % Across) * TILE + cell[2]
Live(t) ==
  {cell \in (0 .. TILE - 1) \X (0 .. TILE - 1) : Row(t, cell) < Ro /\ Col(t, cell) < Co}
Want(t) ==
  [cell \in Live(t) |-> [x \in DOMAIN views |->
     views[x].base + ((Row(t, cell) \div views[x].span) % views[x].Ro) * views[x].S_row
       + Col(t, cell)]]

Init == \A t \in DOMAIN result : result[t] = Old

Emit(t) ==
  /\ result[t] = Old
  /\ result' = [result EXCEPT ![t] = Want(t)]
  /\ UNCHANGED <<views, Ro, Co>>

Next == \E t \in DOMAIN result : Emit(t)
Spec == Init /\ [][Next]_vars
=============================================================================
