SPECIFICATION Spec
CONSTANTS
  Calls = {a, b}
  ExecIds = {i, j}
  NoCall = NoCall
  Kids = {"pipe"}
  MaxCrashes = 1
  Requests = {q1, q2, q3}
  Ids = {k}
  NoReq = NoReq
  g1 = g1
  g2 = g2
  r1 = r1
  NoWriter = NoWriter
  Writers = {g1, g2, r1}
  Kind <- KindOf
  Size <- SizeOf
  Large = 1
  MaxEvents = 1
INVARIANTS
  TypeOK
  KillTable
  NoSilentRepeat
  OpenHasDriver
  NoOrphan
  GatewayWritersSerialize
  SnapshotIsOwn
  PreviewIsLatest
PROPERTIES
  VersionLogSpec
  CallEnds
  Answered
  RecordingEnds
CHECK_DEADLOCK FALSE
