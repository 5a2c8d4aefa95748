CONSTANTS
  Ids <- MCIds
  MaxShots = 3
  MaxRuns = 2
  InterruptsInIdentify = FALSE
  TearsCharacters = TRUE
SPECIFICATION Spec
INVARIANTS TornLastLineIsLeftOut
CHECK_DEADLOCK FALSE
