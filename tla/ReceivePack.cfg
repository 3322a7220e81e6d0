SPECIFICATION Spec
CONSTANTS
  p1 = p1
  p2 = p2
  c1 = c1
  c2 = c2
  c3 = c3
  t2 = t2
  v2 = v2
  None = None
  Unknown = Unknown
  HEAD = "HEAD"
  Objects <- MCObjects
  Commits <- MCCommits
  Parents <- MCParents
  Links <- MCLinks
  Pushes <- MCPushes
  Branches <- MCBranches
  Tags <- MCTags
  Setups <- MCSetups
  Requests <- MCRequests
  MayMiss <- MCMayMiss
  UserSteps = 1
  Faults = TRUE
CHECK_DEADLOCK FALSE
INVARIANTS TypeOK RefsAreConnected CheckoutInStep ReportIsTrue
PROPERTIES FastForwardOnly CurrentBranchSurvives PushEnds
