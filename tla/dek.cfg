SPECIFICATION Spec
CONSTANTS
  k1 = k1
  k2 = k2
  Keys = {k1, k2}
  NoKey = NoKey
  MaxCounter = 3
  MaxRows = 2
SYMMETRY KeySymmetry
INVARIANTS TypeOK GcmNoncesUnique SliceUnderOneKey
