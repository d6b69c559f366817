SPECIFICATION LUSpec
CONSTANTS
  q1 = q1
  q2 = q2
  None = None
  Queries = {q1, q2}
  MaxTimers = 4
  MaxCalls = 2
  MaxStarts = 2
  MaxPending = 1
INVARIANTS TimersUnderControl
PROPERTIES PollingContinues ImplementsService
CHECK_DEADLOCK FALSE
