\* Two ids with two jobs between them, two tasks, the last of which may be stopped.
SPECIFICATION Spec
CONSTANTS
  Ids = {a, b}
  Periods = {2}
  Delays = {0, 1}
  MaxJobs = 2
  MaxTime = 5
  MaxTasks = 2
  Stops = {s}
  NoTask = NoTask
INVARIANTS TypeOK OneEntry NeverForgotten OncePerOccurrence EarliestFirst
PROPERTY ImplementsTriggers
\* The clock ends, and no id need be added or cancelled.
CHECK_DEADLOCK FALSE
