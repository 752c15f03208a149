SPECIFICATION FairSpec
CONSTANTS
  p1 = p1
  p2 = p2
  Peer <- TwoPeers
  MaxPredictions = 2
  MaxSeq = 5
CHECK_DEADLOCK FALSE
INVARIANTS
  TypeOK
  ConsistentView
  NeverOverstated
PROPERTIES
  MailboxSpec
  LockIsGranted
  ThreadsEnd
