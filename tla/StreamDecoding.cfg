SPECIFICATION SDSpec
CONSTANTS
  Base = 4
  Objects <- MCObjects
  MaxObjects = 3
  HeaderSize = 2
INVARIANTS DeliveredAsSent NothingHeldBack
CHECK_DEADLOCK FALSE
