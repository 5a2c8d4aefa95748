CONSTANTS
  Nodes <- MCNodes
  Web = Web
  MaxSteps = 5
  Interval = 2
  HistoryLimit = 2
  BackPresses = 1
  MaxRuns = 2
SPECIFICATION Spec
INVARIANTS OneStepPerTurn LosesAtMostOneStep PositionIsLive HistoryIsOneWalk
PROPERTIES RunEnds
