CONSTANTS
  Limit = 4
  Sources = 3
  Outcomes = {"completed", "host_failure"}
SPECIFICATION Spec
INVARIANTS ReportCountsWholeCaptures FinalReportIsComplete
PROPERTIES NothingPublishedAfterClose ExitReturns
