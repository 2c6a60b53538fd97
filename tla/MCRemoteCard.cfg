SPECIFICATION Spec
CONSTANTS
  Byte = 4
  Half = 8
  Word = 16
  CardTypeNone = 100
  Typed = {0}
  Text = {2}
  MaxEvents = 2
INVARIANTS
  SameCardType
CHECK_DEADLOCK FALSE
