SPECIFICATION Spec
CONSTANT Inputs <- AllInputs
INVARIANTS PointsConserved SidesSplit AnswersExact AssertionsHold
PROPERTIES SpreadHalved Returns
CHECK_DEADLOCK FALSE
