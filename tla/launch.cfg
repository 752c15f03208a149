SPECIFICATION FairSpec
CONSTANTS
  Clients = 2
  MaxCtrlC = 2
CHECK_DEADLOCK FALSE
INVARIANTS
  TypeOK
  QuietClose
  AllStopped
PROPERTIES
  OneSigint
  ShutdownEnds
  NobodyLeftBehind
