SPECIFICATION Spec
CONSTANTS
  MaxIdSeq = 2
  MaxIdDeriveRetries = 2
  MaxSpaceDepth = 1
  ZeroDigests <- MCZeroDigests
  SystemActor <- MCSystemActor
  GhostUser <- MCGhostUser
  Handles = {h1}
  Keys = {k1}
  MaxTicks = 4
  MaxBatch = 2
  MaxLog = 4
  MaxUsers = 1
  MaxActors = 1
PROPERTY ErasedIsTerminal
CHECK_DEADLOCK FALSE
