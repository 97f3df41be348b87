SPECIFICATION FairSpec
CONSTANTS
  c1 = c1
  c2 = c2
  b1 = b1
  NoCommit = NoCommit
  NoBytes = NoBytes
  NoEnd = NoEnd
  Commits <- OneCommit
  Bytes <- MCBytes
  MaxAttempts = 2
  BaseDraws = 2
  FixDraws = 1
  BaseResults <- ShowsOrNot
  FixResults <- GreenOrRed
  SuiteResults <- Unobserved
  Hangs <- AllSteps
  Faults <- AllFaults
  MaxFaults = 1
CHECK_DEADLOCK FALSE
INVARIANTS TypeOK NoFixWithoutReproduction LogIsWellNumbered AnswersAreFinal
PROPERTY EveryRunIsOver
