SPECIFICATION FairSpec
CONSTANTS
  u1 = u1
  u2 = u2
  u3 = u3
  d1 = d1
  d2 = d2
  d3 = d3
  Users = {u1, u2, u3}
  Deks = {d1, d2, d3}
  NoDek = NoDek
  DekOf <- MCDekOf
  Signing = TRUE
  MaxLogIndex = 2
  MaxEvents = 3
  MaxCrashes = 1
INVARIANTS ReceiptsProveDestruction OneAttestationPerKey
PROPERTIES RowsDieAfterTheirKey EveryErasureCompletes
CHECK_DEADLOCK FALSE
