SPECIFICATION Spec
CONSTANTS
  p1 = p1
  p2 = p2
  Peer <- TwoPeers
  MaxPredictions = 1
  MaxSeq = 5
CHECK_DEADLOCK FALSE
INVARIANTS
  RttOfItsPing
