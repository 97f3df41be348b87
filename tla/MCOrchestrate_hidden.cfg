SPECIFICATION Spec
CONSTANTS
  c1 = c1
  c2 = c2
  b1 = b1
  NoCommit = NoCommit
  NoBytes = NoBytes
  NoEnd = NoEnd
  Commits <- OneCommit
  Bytes <- MCBytes
  MaxAttempts = 1
  BaseDraws = 1
  FixDraws = 1
  BaseResults <- OnlyShows
  FixResults <- OnlyGreen
  SuiteResults <- Unobserved
  Hangs <- AllSteps
  Faults <- AllFaults
  MaxFaults = 1
CHECK_DEADLOCK FALSE
INVARIANT PullRequestIsShown
