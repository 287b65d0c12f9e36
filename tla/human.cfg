SPECIFICATION Spec
CONSTANTS
  t1 = t1  t2 = t2  e1 = e1  e2 = e2  p1 = p1  p2 = p2
  NoTask = NoTask  NoProc = NoProc  Dead = Dead
  Tasks = {t1}
  Executors = {e1, e2}
  Processes = {p1, p2}
  Clients = {c1, c2}
  ProcOf <- OwnProcess
  SessionOf <- OwnSession
  Mocked = {t1}
  PlanLen <- Plan2
  HumanSteps <- AskLast
  Quota = 3
  LockTTL = 1
  HeartbeatTimeout = 1
  MaxIndex = 0
  MaxTicks = 0
  MaxDays = 2
  MaxFaults = 0
  MaxErrors = 1
  MaxCancels = 1
INVARIANTS TypeOK MessageAgrees CancelStopsWork WaitingHasQuestion
CHECK_DEADLOCK FALSE
SYMMETRY SwapProcesses
