SPECIFICATION Spec
CONSTANTS
  SubsetLimit = 4
  Loadable = {19}
  Headers <- MCHeaders
  Again <- MCAgain
  DataDescs <- MCDataDescs
  Subsets <- MCSubsets
  Styles <- MCStyles
INVARIANTS
  ReadsBack
  Settled
  DecodesWhole
  LossesNoted
  ClearedIsFresh
CHECK_DEADLOCK FALSE
