SPECIFICATION Spec
CONSTANTS
  c1 = c1
  c2 = c2
  b1 = b1
  NoCommit = NoCommit
  NoBytes = NoBytes
  NoEnd = NoEnd
  Commits <- MCCommits
  Bytes <- MCBytes
  MaxAttempts = 1
  BaseDraws = 2
  FixDraws = 2
  BaseResults <- AllBase
  FixResults <- AllFix
  SuiteResults <- AnySuite
  Hangs <- AllSteps
  Faults <- AllFaults
  MaxFaults = 2
CHECK_DEADLOCK FALSE
INVARIANTS PullRequestsAreProved NoPrefixOverclaims
