SPECIFICATION Spec
CONSTANTS
  MaxCalls = 4
INVARIANTS
  TypeOK
  HandlersHaveData
  EventsFindData
CHECK_DEADLOCK FALSE
