SPECIFICATION FairSpec
CONSTANTS
  c1 = c1
  c2 = c2
  s1 = s1
  s2 = s2
  Client <- Clients
  Session <- SessionObjects
  NoSession = NoSession
  NoClient = NoClient
  MaxDatagrams = 3
INVARIANTS
  TypeOK
  SessionTableLive
  OneSessionPerClient
  FanoutInOrder
  BroadcastReachesAll
  LossOnlyOnRefusal
  RepliesReachRequester
PROPERTIES
  EvictsOwnSession
  RelayServiceSpec
  EveryDatagramSettles
  FailedSessionEvicted
