------------------------------ MODULE TileCopy ------------------------------
(***************************************************************************)
(* What a tensor view promises the kernel that drives it, whatever the     *)
(* kind of the view: a cursor over the tiles of a presented tensor.  The   *)
(* kernel may seek the cursor, transfer the tile under it, and step to the *)
(* next one; a transfer moves exactly the live face-rows of that tile.     *)
(***************************************************************************)
EXTENDS Integers

VARIABLES tiles,   \* the presented tensor: tile ordinal -> its transfers
          pos,     \* ordinal of the tile under the cursor
          moved    \* the transfers made for that tile, {} before them

vars == <<tiles, pos, moved>>

Ordinals == DOMAIN tiles

Init == /\ pos \in Ordinals
        /\ moved = {}

Seek(t) == /\ pos' = t
           /\ moved' = {}
           /\ UNCHANGED tiles

Transfer == /\ pos \in Ordinals
            /\ moved = {}
            /\ moved' = tiles[pos]
            /\ UNCHANGED <<tiles, pos>>

Step == /\ moved = tiles[pos]
        /\ pos' = pos + 1
        /\ moved' = {}
        /\ UNCHANGED tiles

Next == (\E t \in Ordinals : Seek(t)) \/ Transfer \/ Step

Spec == Init /\ [][Next]_vars
=============================================================================
