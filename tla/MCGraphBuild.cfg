CONSTANTS
  Actions = {a, b}
  States = {x, y}
  MaxNode = 3
  MaxObs = 5
  MaxAudited = 4
  MaxSetup = 2
  JoinRepeated = FALSE
SYMMETRY Symmetry
SPECIFICATION BuildSpec
INVARIANTS GraphLoads NoTransitionIsLost SetupsLeadToTheirAction
PROPERTIES EdgesAreTheTransitions
