SPECIFICATION Spec
CONSTANTS
  r1 = r1
  r2 = r2
  m1 = m1
  m2 = m2
  t1 = t1
  t2 = t2
  NoRun = NoRun
  NoRunner = NoRunner
  NoEvent = NoEvent
  Runs = {r1}
  Machines = {m1, m2}
  Runners = {t1, t2}
  TokenOf <- OwnTokens
  Serves <- AllServed
  Kind <- OneRun
  MaxSeq = 2
  MaxDispatches = 2
  AppendAttempts = 2
  MayRevoke = {t1}
  MayCrash = {"idle", "polling", "minting", "shipping", "finding", "finishing"}
  MayLose = {"poll", "token", "event", "finding", "finish"}
  MayRestartPlane = TRUE
  MaxFaults = 1
  Prompt = FALSE
INVARIANTS TypeOK OneVoice OneWorkerPastMint AckedIsRecorded NoGaps DashboardCatchesUp
PROPERTY ImplementsRunLog
