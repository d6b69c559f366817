SPECIFICATION RSFairSpec
CONSTANTS
  Writers = {w1, w2}
  MaxOpens = 3
  MaxBeats = 3
INVARIANTS LiveHasNoEnd
PROPERTIES ClosedEndKept RunsSettle
CHECK_DEADLOCK FALSE
