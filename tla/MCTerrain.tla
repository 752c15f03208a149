----------------------------- MODULE MCTerrain -----------------------------
(* A small instance of Terrain for TLC. *)
EXTENDS Terrain

SmallBlocks ==
  [forest |-> [heights |-> 1..2, widths |-> {1, 4}, margin |-> 3],
   urban  |-> [heights |-> {3}, widths |-> 3..4, margin |-> 4]]
CornerSpawns == {2}
Distances    == [player |-> 0, enemy |-> 25, crate |-> 15]
Sizes        == [player |-> 1, enemy |-> 1, crate |-> 0]
=============================================================================
