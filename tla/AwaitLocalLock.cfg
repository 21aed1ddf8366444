SPECIFICATION FairSpec
CONSTANTS
  Completer = {"ticker"}
  Callback = {}
  Failing = {"ticker"}
  Early = FALSE
  Keyed = FALSE
  CrashPoints <- NoPoints
  Stranding <- NoPoints
  Scenario <- Calm
  MaxAutoRetryCount = 1
CHECK_DEADLOCK FALSE
PROPERTIES WorkerComesBack
