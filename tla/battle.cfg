SPECIFICATION Spec
CONSTANTS
  Weapon <- Arsenal
  Enemies = 2
  MaxHp = 2
  Crates = 2
  MaxDt = 1
  MaxBullets = 2
CHECK_DEADLOCK FALSE
INVARIANTS
  TypeOK
  KillsAreDeaths
  OverWhenDecided
  CooldownHolds
