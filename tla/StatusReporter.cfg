SPECIFICATION FairSpec
CONSTANTS
  Callers = {main, other}
  Main = main
  Flags = {starting, progress}
  Starting = starting
  MaxIdx = 2
  MaxStarts = 2
  Modes = {"async", "block"}
  MayStop = TRUE
INVARIANTS CheckInsAgree
PROPERTIES NewestKept BlockedCallReturns FirstReportWritten
CHECK_DEADLOCK FALSE
