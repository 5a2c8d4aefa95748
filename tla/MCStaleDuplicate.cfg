CONSTANTS
  Actions = {a, b}
  States = {x, y}
  MaxNode = 3
  MaxObs = 4
  MaxAudited = 4
  MaxSetup = 2
  JoinRepeated = TRUE
SYMMETRY Symmetry
SPECIFICATION BuildSpec
PROPERTIES EdgesAreTheTransitions
