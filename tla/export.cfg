SPECIFICATION FairXSpec
CONSTANTS
  MaxSeq = 3
  MaxRecord = 4
  Capacity = 5
  MaxFailures = 1
  Wals <- MCWals
INVARIANT ErrorsAreEarned
PROPERTIES ImplementsArchive ExportEnds
CHECK_DEADLOCK FALSE
