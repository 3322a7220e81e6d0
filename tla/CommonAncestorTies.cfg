SPECIFICATION Spec
CONSTANTS
  NoCommit = NoCommit
  Histories <- TwiceMerged
  Queries <- FiveAndSeven
  Times <- MCTimes
  TimesOf <- EqualTimes
INVARIANT FailsOnlyWithoutUniqueBase
CHECK_DEADLOCK FALSE
