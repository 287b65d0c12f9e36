SPECIFICATION FairSpec
CONSTANTS
  t1 = t1  t2 = t2  e1 = e1  e2 = e2  p1 = p1  p2 = p2
  NoTask = NoTask  NoProc = NoProc  Dead = Dead
  Tasks = {t1, t2}
  Executors = {e1}
  Processes = {p1}
  Clients = {c1, c2}
  ProcOf <- SameProcess
  SessionOf <- OneSession
  Mocked = {t1, t2}
  PlanLen <- Plan1
  HumanSteps <- Unattended
  Quota = 3
  LockTTL = 1
  HeartbeatTimeout = 1
  MaxIndex = 0
  MaxTicks = 2
  MaxDays = 0
  MaxFaults = 1
  MaxErrors = 0
  MaxCancels = 0
INVARIANTS MessageAgrees
PROPERTIES SettlesOrLost PausedIsResumed
CHECK_DEADLOCK FALSE

