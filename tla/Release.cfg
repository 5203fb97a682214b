SPECIFICATION FairSpec
CONSTANTS
  MaxRuns = 2
  MaxEdits = 1
INVARIANTS EditsSurvive FailureRestores CommitIsWhole PublicBytesAreKept
PROPERTIES TagsAreKept ReleaseEnds
CHECK_DEADLOCK FALSE
