SPECIFICATION Spec
CONSTANTS
  Replica = {"r1", "r2"}
  Client = {"c1", "c2"}
  Scenarios <- MCScenarios
INVARIANTS SubmitFollowsRegister BuildAcceptsDags RepeatIsHarmless 
PROPERTIES PatchesWhatItSays
CHECK_DEADLOCK FALSE
