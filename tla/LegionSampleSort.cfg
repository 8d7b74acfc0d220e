CONSTANTS
  num_subregions = 3
  Lengths = {3, 6}
  MaxKey = 2
  Garbage = {0}
  Inputs <- AllArrays
SPECIFICATION Spec
INVARIANTS OrderedByRequirements NoRace CountsExact
PROPERTIES SortsAll
