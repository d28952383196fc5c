SPECIFICATION Spec
CONSTANTS
  MaxIdSeq = 2
  MaxIdDeriveRetries = 2
  MaxSpaceDepth = 1
  ZeroDigests <- MCZeroDigests
  SystemActor <- MCSystemActor
  GhostUser <- MCGhostUser
  Handles = {h1}
  Keys = {k1}
  MaxTicks = 3
  MaxBatch = 2
  MaxLog = 4
  MaxUsers = 2
  MaxActors = 2
INVARIANTS
  GateHolds
  PendingIffScheduled
  SpawnsAreFresh
  EventsMirrorOps
  DepthIsParents
  IndexedOnce
PROPERTY NeverReopened
CHECK_DEADLOCK FALSE
