SPECIFICATION FairSpec
CONSTANTS
  p1 = p1
  p2 = p2
  Producers = {p1, p2}
  MaxTasks = 2
  SizesOf <- OneAndTwo
  MaxMemory = 4
  RetryCount = 2
  Outcomes = {"ok", "closed", "raised"}
INVARIANTS TasksConserved Accounting
PROPERTIES JoinDrains BlockedProducerGoesOn EventuallyDelivered
CHECK_DEADLOCK FALSE
