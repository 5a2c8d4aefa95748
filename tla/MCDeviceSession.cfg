CONSTANTS
  MaxRuns = 2
  MaxChanges = 1
  Limit = 2
  Swipes = 1
SPECIFICATION Spec
INVARIANTS RestoredIsTheFirstDisplay ChangedDisplayHasARecoverySource LastChangeIsTheDisplaySeen InputsTakeEffectOnce OneEpisodePerPhase
PROPERTIES SessionEnds
