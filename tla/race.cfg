SPECIFICATION RaceSpec
CONSTANTS
  t1 = t1  t2 = t2  e1 = e1  e2 = e2  p1 = p1  p2 = p2
  NoTask = NoTask  NoProc = NoProc  Dead = Dead
  Tasks = {t1, t2}
  Executors = {e1, e2}
  Processes = {p1, p2}
  Clients = {c1}
  ProcOf <- OwnProcess
  SessionOf <- OwnSession
  Mocked = {t1}
  PlanLen <- Plan2
  HumanSteps <- Unattended
  Quota = 3
  LockTTL = 2
  HeartbeatTimeout = 2
  MaxIndex = 3
  MaxTicks = 3
  MaxDays = 0
  MaxFaults = 0
  MaxErrors = 0
  MaxCancels = 0
INVARIANTS ResumeIsBacked CompletedIsWhole LeaseShieldsRunning
PROPERTIES LockReleasedByHolder StepLogSpec
CHECK_DEADLOCK FALSE
SYMMETRY SwapProcesses
