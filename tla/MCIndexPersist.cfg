SPECIFICATION Spec
CONSTANTS
  k1 = k1
  k2 = k2
  Keys = {k1, k2}
  Vals = {v1}
  Segs = {s1, s2, s3, s4}
  SegSize = 2
  BitOf <- MCBits
  MaxOps = 2
  MaxTs = 3
  MaxEvents = 2
  NumbersKept = TRUE
SYMMETRY MCSymmetry
INVARIANTS
  TypeOK
  IndexAgreesWithLog
  SegmentsExact
  TablesOwnSegments
PROPERTIES
  ImplementsDurableMap
CHECK_DEADLOCK FALSE
