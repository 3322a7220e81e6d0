SPECIFICATION FairSpec
CONSTANTS
  NoCommit = NoCommit
  Histories <- FiveOrSix
  Queries <- WholeGraphPairs
  Times <- MCTimes
  TimesOf <- MixedTimes
INVARIANTS
  TypeOK
  BaseIsBest
  FailsOnlyWithoutUniqueBase
PROPERTY Returns
CHECK_DEADLOCK FALSE
