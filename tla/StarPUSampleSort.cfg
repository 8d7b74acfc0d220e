CONSTANTS
  NUM_CPU = 3
  Lengths = {0, 1, 2, 6}
  MaxKey = 3
  Distinct = {9}
  Garbage = {0}
  RoundedDown = {}
  Inputs <- Arrays
SPECIFICATION Spec
INVARIANTS PhasesApart BucketsBalanced
PROPERTIES SortsAll
