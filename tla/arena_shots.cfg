SPECIFICATION Spec
CONSTANTS
  p1 = p1
  p2 = p2
  Player <- TwoPlayers
  Crate <- NoCrate
  MaxHp = 1
  Special <- PlainAndRail
  Copies = 1
  MaxWire = 2
  MaxQueue = 2
  MaxShots = 2
  MaxLives = 2
SYMMETRY Symmetry
CHECK_DEADLOCK FALSE
PROPERTIES
  ShotsAreNetworked
