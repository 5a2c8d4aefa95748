CONSTANTS
  Ids <- MCIds
  MaxShots = 4
  MaxRuns = 3
  InterruptsInIdentify = FALSE
  TearsCharacters = TRUE
SPECIFICATION Spec
INVARIANTS SavedGraphLoads LinesSpeakOfTheirScreens MembersHaveImageVectors
CHECK_DEADLOCK FALSE
