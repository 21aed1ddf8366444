SPECIFICATION FairSpec
CONSTANTS
  Early = FALSE
  CrashPoints <- RecoveredPoints
  MaxCrashes = 1
  MaxRetries = 1
  MaxAutoRetryCount = 1
INVARIANTS OutcomeHasCause 
 
CHECK_DEADLOCK FALSE
