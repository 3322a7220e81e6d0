SPECIFICATION Spec
CONSTANTS
  None = None
  MergedText = MergedText
  t1 = t1
  t2 = t2
  main = main
  topic = topic
  Paths <- MCPaths
  Above <- MCAbove
  Texts <- MCTexts
  Branches <- MCBranches
  Starts <- MCStarts
  MaxCommits = 4
INVARIANTS
  TypeOK
  CommitKeepsStaged
  UnmergedIsOnRecord
  MergeIsThreeWay
  SwitchIsExact
PROPERTY UnforcedKeepsWork
CHECK_DEADLOCK FALSE
