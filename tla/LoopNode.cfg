SPECIFICATION FairSpec
CONSTANTS
  Total = 3
  Timings = {TRUE, FALSE}
  CrashPoints = {"load","reconcile","advance","dispatch","suspend","resume"}
  MaxCrashes = 1
  MaxRetries = 1
  MaxAutoRetryCount = 1
INVARIANTS ResultsInOrder Sequential
PROPERTIES ParentSettles
CHECK_DEADLOCK FALSE
