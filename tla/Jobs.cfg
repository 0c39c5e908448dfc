SPECIFICATION FairJobSpec
CONSTANTS
  MaxRuns = 4
  HistoryLimit = 2
  QueueSize = 1
  Weeks = {"empty", "digits", "words", "dashed"}
INVARIANT OneAtATime
PROPERTY HistoryIsKept
PROPERTY QueuedRunsEnd
CHECK_DEADLOCK FALSE
