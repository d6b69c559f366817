SPECIFICATION SDSpec
CONSTANTS
  Base = 4
  Objects <- MCObjects
  MaxObjects = 3
  HeaderSize = 2
INVARIANTS IntegersDecode
CHECK_DEADLOCK FALSE
