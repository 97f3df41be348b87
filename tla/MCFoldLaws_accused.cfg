SPECIFICATION LawSpec
CONSTANTS
  c1 = c1
  c2 = c2
  b1 = b1
  b2 = b2
  t1 = t1
  Applied <- MCApplied
  Tracked <- MCTracked
  NoCommit = NoCommit
  NoBytes = NoBytes
  Scenarios <- Accused
CHECK_DEADLOCK FALSE
INVARIANT TamperingIsSeen
