\* Three requests, all at once; on Python 3.11, a and b with a timeout, c without;
\* approvers answer three times, so that answers come twice, late, or not at all.
SPECIFICATION FairLoopSpec
CONSTANTS
  Ids = {a, b, c}
  None = None
  Timed = {a, b}
  Inline = {c}
  MaxConcurrent = 3
  MaxAnswers = 3
INVARIANTS LoopTypeOK Conservation OneTaskEach NoLostWakeup
PROPERTIES ImplementsApprovals AnsweredEndsAlone TimeoutEndsAlone
\* Every request may have ended and every answer been given.
CHECK_DEADLOCK FALSE
