SPECIFICATION Spec
CONSTANTS
  w1 = w1
  w2 = w2
  None = None
  Ids <- MCIds
  Walks <- TwoWalks
  MaxChanges <- Changes
  MaxIssues <- Issues
  MaxFaults = 1
CHECK_DEADLOCK FALSE
INVARIANTS TableFollowsGitHub IssuesMeetTheirInstallation ShutdownFinishesTheQueue
