SPECIFICATION Spec
CONSTANTS
  Rows = 6
  Cols = 7
  Tile = 4
  Blocks <- SmallBlocks
  ClearRows = 2
  ClearCols = 3
  Spawns <- CornerSpawns
  Far <- Distances
  Half <- Sizes
  MaxStep = 2
  MaxWork = 2
CHECK_DEADLOCK FALSE
INVARIANTS
  TypeOK
  BorderIntact
  NobodyInAWall
PROPERTIES
  NoTunnel
