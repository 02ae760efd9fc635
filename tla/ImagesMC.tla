------------------------------ MODULE ImagesMC ------------------------------
(* Two variables; images of 1 x 2 pixels with three channels, of 2 x 1 with  *)
(* four and of 1 x 2 with one; three blocks, which is one short only for a   *)
(* copy while both images own a block and a buffer is lent.                  *)
EXTENDS Images
Symmetry == Permutations(Names)
TheShapes == {<<1, 2, 3>>, <<2, 1, 4>>, <<1, 2, 1>>}
TheBlocks == 1..3
TheCoords == -1..2
TheColour == [k \in 1..12 |-> ((k - 1) % 3) + 1]
=============================================================================
