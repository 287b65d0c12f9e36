SPECIFICATION Spec
CONSTANTS
  Procs = {g, w}
  Gateway = g
  Changes = {k1, k2}
  Loads = {l1}
  t1 = t1
  t2 = t2
  node = node
  llm = llm
  tool = tool
  Roots = {t1, t2}
  Runs = {node, llm, tool}
  Under <- UnderOf
  Sort <- SortOf
  Top = Top
  Unset = Unset
  c1 = c1
  c2 = c2
  Calls = {c1, c2}
  KeepRecent = 1
  Threshold = 2
  MaxTurns = 2
  Steps = 3
  MaxRetries = 1
  MaxBreaks = 2
  Actions = {search}
  ResumeFrom = 0
  MaxPlan = 4
  MaxReplans = 1
  MaxFlow = 20
  MaxLoops = 1
  MaxFaults = 1
  MaxErrors = 1
  MaxFailures = 1
INVARIANTS
  TypeOK
  CleanCacheIsDropped
  SpanIsUnderItsRoot
  SealedIsExact
  TotalNeverAbove
  ReaderSeesWhole
  RiskyIsAnswered
  WindowIsPaired
  NothingForgotten
  MissedOnlyInGap
  OlderResultsAreGiven
PROPERTIES
  SubscribedHearsEnd
  EventsInOrder
CHECK_DEADLOCK FALSE
