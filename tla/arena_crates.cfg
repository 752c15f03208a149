SPECIFICATION Spec
CONSTANTS
  p1 = p1
  p2 = p2
  Player <- TwoPlayers
  Crate <- OneCrate
  MaxHp = 1
  Special <- NoSpecial
  Copies = 1
  MaxWire = 2
  MaxQueue = 2
  MaxShots = 0
  MaxLives = 3
SYMMETRY Symmetry
CHECK_DEADLOCK FALSE
INVARIANTS
  TakenCratesGo
PROPERTIES
  GameOverFreezes
