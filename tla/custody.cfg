SPECIFICATION Spec
CONSTANTS
  k1 = k1
  k2 = k2
  Keks = {k1, k2}
  c1 = c1
  c2 = c2
  Codes = {c1, c2}
  Starts <- MCStarts
  MaxIndex = 1
  MaxMade = 2
  MaxAnswers = 2
  MaxStored = 2
  MaxLives = 2
SYMMETRY Names
INVARIANTS OpensAsSealed AttestationsNumbered ReceiptsBindOneDeletion
PROPERTY LostStaysLost
CHECK_DEADLOCK FALSE
