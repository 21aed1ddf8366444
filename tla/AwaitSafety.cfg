SPECIFICATION Spec
CONSTANTS
  Completer = {"hook", "ticker"}
  Callback = {"hook"}
  Failing = {"ticker"}
  Early = FALSE
  Keyed = TRUE
  CrashPoints <- AnyPoint
  Stranding <- StrandingPoints
  Scenario <- DeathsOrCancel
  MaxAutoRetryCount = 1
CHECK_DEADLOCK FALSE
INVARIANTS SingleAcceptance OutcomeMatches CanceledTaskIsClosed
 
