SPECIFICATION Spec
CONSTANTS
  WordBits = 5
  Places = 2
  NaN = NaN
  Registered = {}
  Unset = Unset
  NoCode = NoCode
  Refused = Refused
  Path = {"p"}
  DPath = {"d"}
  Contents <- MCContents
  DContents <- MCDContents
  Replaceable = {}
  Wanted = {"blocks", "none"}
  Named <- MCNamed
  NoFile = NoFile
  NotLoaded = NotLoaded
  Alterations = {}
  MaxScale = 2
  MaxEntries = 3
  PyName = {x, y}
  MaxObjects = 4
  MaxAttrs = 2
  PyValues <- MCPyValues
  Given <- MCGiven
  LongMax = 40
  Other = Other
  NullPointer = NullPointer
  NotGiven = NotGiven
INVARIANTS Balanced ValuesComeBack
PROPERTY AttributesAreListed
CONSTRAINT Focus
CHECK_DEADLOCK FALSE
SYMMETRY Symmetry
