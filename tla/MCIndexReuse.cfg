SPECIFICATION Spec
CONSTANTS
  k1 = k1
  k2 = k2
  Keys = {k1}
  Vals = {v1}
  Segs = {s1, s2, s3}
  SegSize = 2
  BitOf <- MCBits1
  MaxOps = 3
  MaxTs = 2
  MaxEvents = 2
  NumbersKept = FALSE
SYMMETRY MCSymmetry
PROPERTIES
  NoRecordComesBack
CHECK_DEADLOCK FALSE
