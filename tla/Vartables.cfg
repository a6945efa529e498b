SPECIFICATION SpecLibrary
CONSTANTS
  WordBits = 5
  Places = 2
  NaN = NaN
  Registered = {}
  Unset = Unset
  NoCode = NoCode
  Refused = Refused
  Path = {"p"}
  DPath = {"d"}
  Contents <- MCContents
  DContents <- MCDContents
  Replaceable = {"p"}
  Wanted = {"blocks", "none"}
  Named <- MCNamed
  NoFile = NoFile
  NotLoaded = NotLoaded
  Alterations <- MCAlterations
  MaxScale = 2
  MaxEntries = 5
INVARIANTS Chained Expands
PROPERTY AnswersNeverChange
CONSTRAINT Focus
CHECK_DEADLOCK FALSE
