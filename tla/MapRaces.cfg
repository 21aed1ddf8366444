SPECIFICATION Spec
CONSTANTS
  Total = 3
  Timings = {TRUE}
  Windows = {1, 2}
  Policies = {"partial", "fail_fast"}
  Reusable = {}
  CrashPoints = {"load", "aggregate", "reuse", "collect", "dispatch", "resume"}
  MaxCrashes = 1
  MaxRetries = 0
  MaxAutoRetryCount = 1
INVARIANTS WindowHolds ResultHasCause
CHECK_DEADLOCK FALSE
