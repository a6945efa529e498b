SPECIFICATION Spec
CONSTANTS
  MaxVars = 5
  MaxBits = 4
INVARIANT ReturnsRefs
PROPERTY Ends
CHECK_DEADLOCK FALSE
