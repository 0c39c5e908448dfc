SPECIFICATION Spec
CONSTANTS
  MaxRuns = 1
  HistoryLimit = 1
  QueueSize = 2
  Weeks = {"digits", "dashed"}
  ShownRuns = 1
  MaxReads = 2
  MaxLosses = 2
INVARIANT QuietPageIsRight
CHECK_DEADLOCK FALSE
