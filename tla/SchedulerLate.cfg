\* One worker, two jobs, an event loop that is never late.
SPECIFICATION PromptSpec
CONSTANTS
  Ids = {a, b}
  Periods = {4}
  Delays = {1}
  MaxJobs = 2
  MaxTime = 4
  MaxTasks = 1
  Stops = {}
  NoTask = NoTask
INVARIANT OnTime
CHECK_DEADLOCK FALSE
