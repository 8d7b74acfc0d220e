CONSTANTS
  Inputs <- MCInputs
  Shapes <- MCShapes
SPECIFICATION Spec
INVARIANTS PointsInLeaves TwoToOne LetComplete EveryPairOnce ResultsReturn AssertionsHold
