CONSTANTS
  p = 3
  Granted = {1, 2, 3}
  Lengths = {0, 1, 4, 6}
  MaxKey = 2
  LongLengths = {9, 12}
  Garbage <- AnyWord
  Inputs <- Arrays
SPECIFICATION Spec
INVARIANTS BucketsTile
PROPERTIES SortsKept
