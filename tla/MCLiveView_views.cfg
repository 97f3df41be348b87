SPECIFICATION FairSpec
CONSTANTS
  Scripts <- Shortest
  Written = 1
  MaxFaults = 1
  MayFail = {"drop", "refuse", "read", "project", "rebuild"}
PROPERTIES ImplementsEventFeed VerdictNeverGoesBack LastFrameBringsTheVerdict
CHECK_DEADLOCK FALSE
