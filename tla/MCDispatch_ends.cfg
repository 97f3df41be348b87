SPECIFICATION FairSpec
CONSTANTS
  r1 = r1
  r2 = r2
  m1 = m1
  m2 = m2
  t1 = t1
  t2 = t2
  NoRun = NoRun
  NoRunner = NoRunner
  NoEvent = NoEvent
  Runs = {r1, r2}
  Machines = {m1, m2}
  Runners = {t1, t2}
  TokenOf <- OwnTokens
  Serves <- Confined
  Kind <- DraftAndRun
  MaxSeq = 1
  MaxDispatches = 3
  AppendAttempts = 2
  MayRevoke = {t2}
  MayCrash = {"polling"}
  MayLose = {"poll", "event"}
  MayRestartPlane = FALSE
  MaxFaults = 1
  Prompt = TRUE
INVARIANT EmptyBoxIsExplained
PROPERTY EveryJobEnds
