SPECIFICATION Spec
CONSTANTS
  r = r
  a = a
  b = b
  x = x
  m = m
  y = y
  v = v
  t = t
  None = None
  Objects <- MCObjects
  Commits <- MCCommits
  Parents <- MCParents
  Links <- MCLinks
  Annotated <- MCAnnotated
  Store <- MCStore
  RefNames <- MCRefNames
  Setups <- MCSetups
  Commands <- MCCommands
  Time <- MCTime
  Needs <- MCNeeds
  Fetches <- MCFetches
  Haves <- MCHaves
  InfiniteDepth <- MCInfiniteDepth
  Lines = 3
CHECK_DEADLOCK FALSE
INVARIANTS TypeOK PackIsComplete ReadyIsJustified AcksAreJustified WalksAreExact DepthIsExact CutIsClean
