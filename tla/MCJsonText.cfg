SPECIFICATION Spec
CONSTANTS
  Inputs <- MCInputs
  Bad = Bad
INVARIANTS TypeOK InBounds Decodes
CHECK_DEADLOCK FALSE
