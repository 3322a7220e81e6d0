SPECIFICATION Spec
CONSTANTS
  None = None
  MergedText = MergedText
  t1 = t1
  t2 = t2
  main = main
  topic = topic
  Paths <- MCPaths
  Above <- MCAbove
  Texts <- MCTexts
  Branches <- MCBranches
  Starts <- OnlyModes
  MaxCommits = 2
INVARIANT SwitchReachesTarget
CHECK_DEADLOCK FALSE
