SPECIFICATION FairSpec
CONSTANTS
  p1 = p1
  p2 = p2
  Player <- TwoPlayers
  Crate <- NoCrate
  MaxHp = 1
  Special <- NoSpecial
  Copies = 1
  MaxWire = 2
  MaxQueue = 2
  MaxShots = 0
  MaxLives = 2
CHECK_DEADLOCK FALSE
PROPERTIES
  LeaversAreRemoved
