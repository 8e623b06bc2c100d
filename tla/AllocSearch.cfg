CONSTANTS
  NBytes = 3
  Ipg = 16
  FirstDblock = 1
  Cg = 1
  Bytes <- MCBytes
  Goals <- MCGoals
SPECIFICATION Spec
INVARIANTS TypeOK ResultClear RunClear PanicOnlyIfFull
CHECK_DEADLOCK FALSE
