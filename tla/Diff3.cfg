SPECIFICATION Spec
CONSTANTS
  word = word
  mid = mid
  empty = empty
  bin = bin
  mt = mt
  mb = mb
  ms = ms
  me = me
  Lines <- MCLines
  Size <- MCSize
  NotText = {bin}
  MaxLineCount = 7
  TargetMarker = mt
  BaseMarker = mb
  SeparateMarker = ms
  SourceMarker = me
  Merges <- MCMerges
  Buffers <- MCBuffers
CHECK_DEADLOCK FALSE
INVARIANTS TypeOK DiffsAreExact ChunksTileTheTexts SeparateChangesMerge StreamIsMerged
PROPERTY MergeEnds
