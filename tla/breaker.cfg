SPECIFICATION FlowSpec
CONSTANTS
  Actions = {search}
  ResumeFrom = 0
  MaxPlan = 2
  MaxReplans = 1
  MaxFlow = 20
  MaxLoops = 2
INVARIANTS
  BreakerIsObstacle
CHECK_DEADLOCK FALSE
