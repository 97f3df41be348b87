SPECIFICATION FairSpec
CONSTANTS
  empty = empty
  real = real
  None = None
  Bad = Bad
  Skeleton = empty
  Commands <- MCCommands
  Needy <- MCNeedy
  Requests <- MCRequests
  Workers = 2
  Bounds <- MCBounds
  MaxFaults = 1
CHECK_DEADLOCK FALSE
INVARIANTS ProofIsOfTheCommands NoSecondProposal OnlyOverlappingStartsDouble NothingBootsHalfConfigured
PROPERTIES ApprovedCommandsAreProved PageComesToRest
