\* One run: three iterations, at most three tool calls, a budget of three.
SPECIFICATION FairSpec
CONSTANTS
  Runs = {r}
  TimedRuns = {r}
  LedgerRuns = {r}
  Actions <- MCActions
  Executors <- MCExecutors
  Default = "deny"
  Overrides <- MCOverrides
  Completions <- MCCompletions
  Costs = {0, 1, 2}
  Budget = 3
  MaxIterations = 3
  ToolCallLimit = 3
INVARIANTS TypeOK NeverUngated Audited BudgetKept RowAgrees
PROPERTIES HaltIsFinal EveryRunEnds
\* A run may be over.
CHECK_DEADLOCK FALSE
