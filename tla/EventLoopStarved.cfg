\* Two requests at once, both answered, no timeout needed to end them.
SPECIFICATION FairLoopSpec
CONSTANTS
  Ids = {a, b}
  None = None
  Timed = {a, b}
  Inline = {}
  MaxConcurrent = 2
  MaxAnswers = 2
PROPERTY AnsweredEnds
\* Every request may have ended and every answer been given.
CHECK_DEADLOCK FALSE
