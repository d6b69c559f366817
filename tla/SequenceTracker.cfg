SPECIFICATION STSpec
CONSTANTS
  Names = {loss, acc}
  Values <- AllValues
  Steps = {0, 2}
  MaxValues = 3
  MaxReopens = 2
INVARIANTS OverviewHolds
PROPERTIES CountedStepAppends
CHECK_DEADLOCK FALSE
