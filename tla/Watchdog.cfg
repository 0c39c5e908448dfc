SPECIFICATION FairSpec
CONSTANTS
  poll = poll
  refresh = refresh
  Interval <- Poll
  Daily <- Refresh
  Cadence = 2
  Factor = 3
  Day = 6
  Slack = 1
  Beat = 2
  MaxRun = 1
  Old = 8
PROPERTY AlarmsHaveACause
PROPERTY NeverAStream
PROPERTY FailingJobsEndThePings
PROPERTY OwnerKnowsInTheEnd
