CONSTANTS
  Node <- BranchNodes
  EdgeSeq <- BranchEdges
  Order <- BranchOrder
  NormalEdge <- BranchNormal
  GuardedEdge <- BranchGuarded
  AsyncNode = {"branch"}
  VolatileNode = {"end"}
  NilNode = {"branch"}
  Redos <- Requests
  MaxStarts = 2
SPECIFICATION FairSpec
INVARIANTS  BoundaryRuns 
PROPERTIES ForkSettles
CHECK_DEADLOCK FALSE
