SPECIFICATION Spec
CONSTANTS
  MaxSeq = 3
  MaxRecord = 2
  Capacity <- DefaultCapacity
  MaxFailures = 2
INVARIANTS NeverMisread AppendOnly
CHECK_DEADLOCK FALSE
