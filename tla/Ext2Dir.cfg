CONSTANTS
  Threads = {t1}
  Names = {"a", "b", "long", "longer"}
  Dot = "."
  DotDot = ".."
  Len <- MCLen
  Inos = {1, 2}
  NoIno = 0
  BlkSize = 5
  MaxBlocks = 2
  MaxFaults = 1
  Ops = {"lookup", "create", "remove", "rename"}
SPECIFICATION Spec
INVARIANTS WellFormed SearchExact NoPanic
PROPERTIES RightName
VIEW View
CHECK_DEADLOCK FALSE
