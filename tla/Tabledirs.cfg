SPECIFICATION Spec
CONSTANTS
  d1 = d1
  d2 = d2
  NoTable = NoTable
  NoListing = NoListing
  Dirs <- MCDirs
  Files <- MCFiles
  Wanted <- MCWanted
  Overrides <- MCOverrides
  Broken <- MCBroken
  Installed <- MCInstalled
  Installable <- MCInstallable
INVARIANT CachedIsBest
PROPERTY AsPromised
CHECK_DEADLOCK FALSE
