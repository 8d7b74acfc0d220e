CONSTANTS
  p = 3
  n = 2
  MaxLen = 3
  MaxKey = 3
  Distinct = 9
  Inputs <- Pairs
  Teams = {1, 3, 5}
  Arrays <- ShortArrays
  SortLen = 6
  LongLen = 10
SPECIFICATION OmpSpec
INVARIANTS TypeOK SegmentsTile BalancedSegments MergedStably RunsReady
PROPERTY SortsInPlace
