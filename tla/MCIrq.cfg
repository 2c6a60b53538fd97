SPECIFICATION FairSpec
CONSTANTS
  hook = hook
  voip = voip
  HANDSET = HANDSET
  IO = IO
  Level = {hook, voip}
  ZeroState = {voip}
  MaxEvents <- MCMaxEvents
  MaxFails = 1
  MaxQueries = 1
INVARIANTS
  TypeOK
  NoChangeForgotten
  KeyWaitingIsFlagged
  NoLostWakeup
PROPERTIES
  RelaysInOrder
  CatchesUp
  KeysDrained
  GoesQuiet
