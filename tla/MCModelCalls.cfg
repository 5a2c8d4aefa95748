CONSTANTS
  Inputs = 3
  Timeout = 1
  Workers = 2
SPECIFICATION Spec
INVARIANTS NoAttemptAfterTheDeadline ResponsesEndInTime EveryAnswerIsApplied NothingRunsAfterwards
PROPERTIES BatchEnds
