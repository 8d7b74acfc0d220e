CONSTANTS
  num_subregions = 2
  Lengths = {3}
  MaxKey = 2
  Garbage = {0}
  Inputs <- AllArrays
SPECIFICATION Spec
INVARIANTS CheckerSound
