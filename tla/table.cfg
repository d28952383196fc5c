SPECIFICATION Spec
CONSTANTS
  Byte <- XofDigit
  ByteSize = 16
  HalfLen = 1
  WordLen = 2
  SeedLen = 2
  BlockLen = 4
  MaxRejects = 8
  DeckRanks <- EightRanks
  ServerSeed <- FirstSeed
  Requests = {1, 5}
  Dice = {0, 6}
  MaxBytes = 9
  MaxShuffles = 2
  ShuffleAt = {0, 2, 11, 31, 32}
INVARIANTS StreamIsMonotonic DrawsAreUniform VerifiedDealIsTheCommittedOne BestOfSeven
CHECK_DEADLOCK FALSE
