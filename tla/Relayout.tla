------------------------------ MODULE Relayout ------------------------------
(***************************************************************************)
(* What realize() promises: every live face-row of every output tile is    *)
(* delivered once, with the input's data, and padding is never touched.    *)
(***************************************************************************)
CONSTANTS Tiles,          \* output tile ordinals
          Faces,          \* face-rows of a tile
          Source(_, _),   \* the input's data for a face of a tile
          Old             \* what the output holds before

VARIABLES live,   \* per tile, the faces inside the presented extent
          out     \* output memory: tile -> face -> data

vars == <<live, out>>

Init == out = [t \in Tiles |-> [f \in Faces |-> Old]]

Deliver(t, f) ==
  /\ f \in live[t]
  /\ out[t][f] = Old
  /\ out' = [out EXCEPT ![t][f] = Source(t, f)]
  /\ UNCHANGED live

Next == \E t \in Tiles, f \in Faces : Deliver(t, f)

Spec == Init /\ [][Next]_vars

Delivered == \A t \in Tiles : \A f \in live[t] : out[t][f] = Source(t, f)
=============================================================================
