\* Three writes, one of which fails; two tasks may call stop, at the same time.
SPECIFICATION FairSpec
CONSTANTS
  Writes = {a, b, c}
  Failing = {b}
  MaxTasks = 3
  Stops = {s, t}
  NoTask = NoTask
INVARIANTS TypeOK ToldTheTruth OneTask
PROPERTIES AnsweredWhileRunning ImplementsSubmissions
\* Every write may have been answered and every worker stopped.
CHECK_DEADLOCK FALSE
