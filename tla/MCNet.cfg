SPECIFICATION FairSpec
CONSTANTS
  Ref = {3, 4, 5}
  Timeouts = {0, 5, 7, 65543}
  MaxOverrun = 3
  MaxQueue = 2
INVARIANTS
  TypeOK
  ChannelsOwned
  TimesOutInTime
PROPERTIES
  CallEnds
