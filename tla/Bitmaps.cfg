SPECIFICATION Spec
CONSTANTS
  MaxVars = 5
  MaxBits = 3
  NoBitmap = NoBitmap
INVARIANTS Aligned InOrder Ownership
PROPERTY HandedOverWhole
CHECK_DEADLOCK FALSE
