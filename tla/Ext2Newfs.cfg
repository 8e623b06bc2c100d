SPECIFICATION Spec
CONSTANTS
  Options <- MCOptions
  NBBY = 8
  SectorSize = 4
  BBSIZE = 8
  SBSIZE = 8
  GdSize = 1
  PtrSize = 1
  InodeSize0 = 1
  LfSize = 48
  NDADDR = 5
  Growth = 32
  U16Max = 511
  U32Max = 8191
  Small = 100
  Medium = 900
INVARIANTS FsckQuiet KextAgrees OldGone
CHECK_DEADLOCK FALSE
