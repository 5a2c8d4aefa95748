CONSTANTS
  Last = 3
  Preparations = {"sent", "anchored", "lost"}
  MaxEdges = 2
  MaxMisses = 1
SPECIFICATION Spec
INVARIANTS StepsStartOnTheScreenShown InputsStayInside FlaggedActionsStartOnTheirSource
PROPERTIES MissedNodesAreNotRetried ReplaysEnd
