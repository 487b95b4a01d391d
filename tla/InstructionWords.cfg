CONSTANT MaxFlips = 2
SPECIFICATION Spec
CHECK_DEADLOCK FALSE
INVARIANTS
  OperationExact
  OperandsExact
