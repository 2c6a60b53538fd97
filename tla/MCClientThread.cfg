SPECIFICATION FairSpec
CONSTANTS
  MaxEvents = 3
  Faulty = TRUE
INVARIANTS
  TypeOK
  NoUseAfterFree
  OneLateBatch
  ThreadServes
PROPERTIES
  ExitReturns
  EventsProcessed
CHECK_DEADLOCK FALSE
