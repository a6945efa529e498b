SPECIFICATION Spec
CONSTANTS
  BTable <- MCBTable
  DTable <- MCDTable
  Bulletins <- MCBulletins
  Exact <- ExactTemplates
  Editable <- EditableTemplates
  Built <- MCBuilt
  Significances = {0, 1, 8, 21, 63}
  Refvals = {1, 15}
  MaxCount = 2
  MaxVars = 20
  MaxBits = 3
  NoBitmap = NoBitmap
  Unset = Unset
INVARIANTS LayoutAgrees RoundTrip StreamPreserved ValidIsEncoded VisitorsFollow ListsWhole
PROPERTY Completes
CHECK_DEADLOCK FALSE
