CONSTANTS
  NGroups = 2
  Size = 1
  MaxFaults = 1
  MaxCrashes = 1
  MaxChanges = 2
SPECIFICATION Spec
INVARIANTS TypeOK CleanMeansConsistent FmodCovers
