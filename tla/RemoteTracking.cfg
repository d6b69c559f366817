SPECIFICATION RTFairSpec
CONSTANTS
  Producers = {p1, p2}
  MaxTasks = 1
  SizesOf <- OneByte
  MaxMemory = 9
  RetryCount = 2
  Outcomes = {"ok", "closed", "raised"}
  MaxFaults = 2
  Faults = {"lose", "crash", "raise", "expire", "refuse"}
INVARIANTS EndsAgree
PROPERTIES ImplementsPromise ReadsOwnWrites EventuallyApplied
CHECK_DEADLOCK FALSE
