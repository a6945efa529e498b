SPECIFICATION Spec
CONSTANTS
  SubsetLimit = 4
  Loadable = {19}
  Headers <- MCHeaders
  Again <- MCAgain
  DataDescs <- MCDataDescs
  Subsets <- MCSubsets
  Styles <- MCStyles
INVARIANT
  InfosExist
CHECK_DEADLOCK FALSE
