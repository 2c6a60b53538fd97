SPECIFICATION Spec
CONSTANTS
  Byte = 4
  Half = 8
  Word = 16
  CardTypeNone = 100
  Typed = {0, 3, 5, 17}
  Text = {2}
  MaxEvents = 2
INVARIANTS
  TypeOK
  ShownIsReal
PROPERTIES
  ImplementsLocalCalls
  CheckedNumberStored
CHECK_DEADLOCK FALSE
