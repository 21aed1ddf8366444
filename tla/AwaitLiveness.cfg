SPECIFICATION FairSpec
CONSTANTS
  Completer = {"hook", "ticker"}
  Callback = {"hook"}
  Failing = {"ticker"}
  Early = FALSE
  Keyed = TRUE
  CrashPoints <- AnyPoint
  Stranding <- StrandingPoints
  Scenario <- Deaths
  MaxAutoRetryCount = 1
CHECK_DEADLOCK FALSE
PROPERTIES AcceptedResultSettles 
