SPECIFICATION FairSpec
CONSTANTS
  t1 = t1  t2 = t2  e1 = e1  e2 = e2  p1 = p1  p2 = p2
  NoTask = NoTask  NoProc = NoProc  Dead = Dead
  Tasks = {t1}
  Executors = {e1, e2}
  Processes = {p1, p2}
  Clients = {c1}
  ProcOf <- OwnProcess
  SessionOf <- OwnSession
  Mocked = {t1}
  PlanLen <- Plan1
  HumanSteps <- AskFirst
  Quota = 3
  LockTTL = 1
  HeartbeatTimeout = 1
  MaxIndex = 0
  MaxTicks = 0
  MaxDays = 0
  MaxFaults = 0
  MaxErrors = 0
  MaxCancels = 0
PROPERTIES PendingSettles
CHECK_DEADLOCK FALSE

