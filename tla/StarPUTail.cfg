CONSTANTS
  NUM_CPU = 2
  Lengths = {3}
  MaxKey = 3
  Distinct = {}
  Garbage = {0}
  RoundedDown = {}
  Inputs <- Arrays
SPECIFICATION Spec
INVARIANTS VerificationPasses
