SPECIFICATION Spec
CONSTANTS
  u1 = u1
  u2 = u2
  u3 = u3
  d1 = d1
  d2 = d2
  d3 = d3
  Users = {u1, u2}
  Deks = {d1, d2}
  NoDek = NoDek
  DekOf <- MCDekOf
  Signing = TRUE
  MaxLogIndex = 4
  MaxEvents = 2
  MaxCrashes = 1
INVARIANT NoReplacementAttestation
CHECK_DEADLOCK FALSE
