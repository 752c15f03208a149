SPECIFICATION Spec
CONSTANTS
  p1 = p1
  p2 = p2
  Player <- TwoPlayers
  Crate <- NoCrate
  MaxHp = 2
  Special <- Plain
  Copies = 1
  MaxWire = 2
  MaxQueue = 2
  MaxShots = 1
  MaxLives = 2
SYMMETRY Symmetry
CHECK_DEADLOCK FALSE
INVARIANTS
  TypeOK
  HurtBounded
  NobodyShownWeaker
