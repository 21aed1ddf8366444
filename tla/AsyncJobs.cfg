SPECIFICATION FairSpec
CONSTANTS
  AsyncWorker = {"a1", "a2"}
  Drivers = {"redis", "memory"}
  JobCapacity = 1
  EventCapacity = 1
  Overlap = FALSE
  MaxAutoRetryCount = 1
  MaxRetries = 1
  MaxFaults = 1
PROPERTIES ResultFits 
CHECK_DEADLOCK FALSE
