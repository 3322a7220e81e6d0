SPECIFICATION Spec
CONSTANTS
  None = None
  MergedText = MergedText
  t1 = t1
  t2 = t2
  main = main
  topic = topic
  Paths <- MCPaths
  Above <- MCAbove
  Texts <- MCTexts
  Branches <- MCBranches
  Starts <- OnlyReplaced
  MaxCommits = 2
PROPERTY OnlyDirectoriesGo
CHECK_DEADLOCK FALSE
