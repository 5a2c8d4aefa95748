CONSTANTS
  Ids <- MCIds
  MaxShots = 3
  MaxRuns = 2
  InterruptsInIdentify = TRUE
  TearsCharacters = FALSE
SPECIFICATION Spec
INVARIANTS EveryExitLeavesALoadableGraph
CHECK_DEADLOCK FALSE
