\* Two writes; the worker may be started and is never stopped.
SPECIFICATION FairSpec
CONSTANTS
  Writes = {a, b}
  Failing = {}
  MaxTasks = 1
  Stops = {}
  NoTask = NoTask
PROPERTY SubmitEnds
CHECK_DEADLOCK FALSE
