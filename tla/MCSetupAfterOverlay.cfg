CONSTANTS
  Actions = {a, b}
  States = {x, y}
  MaxNode = 3
  MaxObs = 4
  MaxAudited = 4
  MaxSetup = 2
  JoinRepeated = FALSE
SYMMETRY Symmetry
SPECIFICATION BuildSpec
INVARIANTS EverySetupIsInForce
