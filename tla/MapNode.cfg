SPECIFICATION FairSpec
CONSTANTS
  Total = 4
  Timings = {FALSE}
  Windows = {1}
  Policies = {"partial", "fail_fast"}
  Reusable = {2}
  CrashPoints = {"load", "aggregate", "reuse", "collect", "dispatch", "resume"}
  MaxCrashes = 1
  MaxRetries = 1
  MaxAutoRetryCount = 1
INVARIANTS SuccessIsComplete
PROPERTIES ParentSettles HealthyRunSucceeds
CHECK_DEADLOCK FALSE
