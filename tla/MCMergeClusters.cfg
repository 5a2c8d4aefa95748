CONSTANTS
  Nodes <- MCNodes
  PairLists <- MCPairLists
  MaxPairs = 4
  MaxRepeated = 3
SPECIFICATION MergeSpec
INVARIANTS NoContradiction AskedOnlyWhenOpen DeducedFromEarlierAnswers NeverMergesDifferent ReportMatchesGraph
PROPERTIES AnswersAreFinal EveryPairIsSettled
