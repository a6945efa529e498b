SPECIFICATION Spec
CONSTANTS
  N = 2
  Items <- MCItems
  NoItem = NoItem
  Unset = Unset
  MaxItems = 2
INVARIANT SameShape
PROPERTIES AsIfAlone Delivered
CHECK_DEADLOCK FALSE
