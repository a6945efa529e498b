SPECIFICATION Spec
CONSTANTS
  WordBits = 7
  Places = 2
  NaN = NaN
  Registered <- MCRegistered
  Unset = Unset
  Name = {x, y}
  Infos <- MCInfos
  Attributes <- MCAttributes
  Calls <- MCCalls
  MaxAttr = 5
  MaxBuf = 7
  Nil = Nil
  Wild = Wild
INVARIANTS Owned InDomain Comparable BrokenIndeed
PROPERTY AsValues
CHECK_DEADLOCK FALSE
VIEW Pattern
