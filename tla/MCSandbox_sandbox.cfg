SPECIFICATION FairSpec
CONSTANTS
  c1 = c1
  Commands <- OneCommand
  Deployments = {"fly", "shared"}
  Bounds <- MCBounds
  MaxTurns = 2
  MaxCalls = 3
  MaxEvents = 1
CHECK_DEADLOCK FALSE
INVARIANTS OnlyASharedLineStopsAMachine NothingIsLeftRunning CeilingsKeepTheRecord
INVARIANTS OnlyALostProbeLeavesAWayOut 
PROPERTY PhasesEnd
