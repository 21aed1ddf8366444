SPECIFICATION FairSpec
CONSTANTS
  Task = {"t1"}
  Worker = {"w1", "w2"}
  Drivers = {"redis", "memory"}
  Capacity = 1
  Lease = 0
  Reservation = 1
  MaxAutoRetryCount = 1
  MaxFaults <- Faults
  MaxQueue = 1
INVARIANTS ExclusiveRun IdKept
PROPERTIES TaskSettles
CHECK_DEADLOCK FALSE
