\* Two runs of at most two calls each, one with a timeout; approvers answer three times.
SPECIFICATION OnBusSpec
CONSTANTS
  Runs = {r, s}
  Actions <- MCActions
  Executors = {"send"}
  Default = "allow"
  Overrides <- MCOverrides
  Completions <- MCCompletions
  Costs = {1}
  Budget = 2
  MaxIterations = 2
  ToolCallLimit = 2
  None = None
  TimedRuns = {r}
  LedgerRuns = {s}
  MaxAnswers = 3
PROPERTY ImplementsEngine
\* Every run may be over and every answer given.
CHECK_DEADLOCK FALSE
