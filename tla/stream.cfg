SPECIFICATION StreamSpec
CONSTANTS
  Steps = 2
  MaxRetries = 1
  MaxBreaks = 1
INVARIANTS
  NoStepLost
CHECK_DEADLOCK FALSE
