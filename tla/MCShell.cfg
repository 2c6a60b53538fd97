SPECIFICATION Spec
CONSTANTS
  Letter = {"x"}
  CommandName <- MCCommandName
  Needs <- MCNeeds
  Given <- MCGiven
  MaxLength <- MCMaxLength
  LineSize = 6
  Faulty = TRUE
  NULL = NULL
INVARIANTS
  TypeOK
  RunsWhatWasTyped
  OnlyKnownCrashes
  NothingLeaks
CHECK_DEADLOCK FALSE
