CONSTANTS
  Node <- DiamondNodes
  EdgeSeq <- DiamondEdges
  Order <- DiamondOrder
  NormalEdge <- DiamondNormal
  GuardedEdge <- DiamondGuarded
  OptionalNode = {"right"}
  AsyncNode = {"join"}
  AwaitNode = {"left"}
  FanoutNode = {"end"}
  VolatileNode = {"start"}
  CrashPoints <- AnyPoint
  RetryFrom = {"failed", "canceled", "suspended"}
  MaxCrashes = 1
  MaxRetries = 1
  MaxAutoRetryCount = 1
SPECIFICATION FairSpec
INVARIANTS ContextMatchesRows JoinHolds SkipJustified PassIsComplete DeadlockHasCause
PROPERTIES DecisionsAreFinal ImplementsPromise RunSettles 
CHECK_DEADLOCK FALSE
