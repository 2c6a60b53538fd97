SPECIFICATION Spec
CONSTANTS
  hook = hook
  voip = voip
  HANDSET = HANDSET
  IO = IO
  Level = {hook}
  ZeroState = {}
  MaxEvents <- MCMaxEvents
  MaxFails = 0
  MaxQueries = 0
INVARIANTS
  MaskMeansPending
