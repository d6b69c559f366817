SPECIFICATION FairSpec
CONSTANTS
  p1 = p1
  p2 = p2
  p3 = p3
  p4 = p4
  m1 = m1
  m2 = m2
  Processes <- FourProcesses
  Machines <- TwoMachines
  MachineOf <- Split
  MaxCrashes = 1
INVARIANTS MutualExclusion LivingLockKept
PROPERTIES RemoteOwnerKept LocksEnd
CHECK_DEADLOCK FALSE
