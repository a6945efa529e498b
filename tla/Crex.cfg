CONSTANTS
  Unset = Unset
  BTable <- MCBTable
  DTable <- MCDTable
  Jobs <- MCJobs
  Versions <- MCVersions
  Ints <- MCInts
  Texts <- MCTexts
  MaxCount = 2
SPECIFICATION Spec
INVARIANTS ReadsBack DamageRefused
PROPERTY Ends
