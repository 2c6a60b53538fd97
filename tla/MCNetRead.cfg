SPECIFICATION Spec
CONSTANTS
  Ref = {3, 4}
  Timeouts = {5, 7}
  MaxOverrun = 0
  MaxQueue = 1
INVARIANTS
  SleepsUntilPacketOrTimesUp
