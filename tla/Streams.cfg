SPECIFICATION Spec
CONSTANTS
  Extra <- MCExtra
  BufrBodies <- MCBufrBodies
  CrexBodies <- MCCrexBodies
  MaxPieces = 3
  Cuts = {1, 9}
INVARIANTS
  Framed
  FindsNext
  ReadsWhatWasWritten
