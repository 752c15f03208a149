SPECIFICATION Spec
CONSTANTS
  relay = relay
  direct = direct
  Edge <- TwoEdges
  DummyEdges <- Dummy
  EdgeLists <- Lists
  Relays <- OneRelay
  Noise <- Nobody
  Attempts = 2
  Rounds = 2
  Rtt <- FastSlow
  BufferSize = 3
CHECK_DEADLOCK FALSE
PROPERTIES
  WaitsForMatchingPong
