SPECIFICATION FairSpec
CONSTANTS
  Conn = {1, 2, 3}
  NoConn = 0
  MaxBacklog = 2
  Faulty = TRUE
INVARIANTS
  TypeOK
  WatchesServedClient
  BlocksOnlyByMixup
PROPERTIES
  ServesInTurn
  CallAnswered
  NextClientServed
CHECK_DEADLOCK FALSE
