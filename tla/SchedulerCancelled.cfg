\* One worker, an id added, cancelled and added again.
SPECIFICATION Spec
CONSTANTS
  Ids = {a}
  Periods = {2}
  Delays = {0, 1}
  MaxJobs = 2
  MaxTime = 4
  MaxTasks = 1
  Stops = {}
  NoTask = NoTask
PROPERTY CancelledStaysSilent
CHECK_DEADLOCK FALSE
