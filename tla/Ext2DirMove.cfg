CONSTANTS
  Threads = {t1}
  Names = {"a", "b", "long", "longer"}
  Dot = "."
  DotDot = ".."
  Len <- MCLen
  Inos = {1, 2}
  NoIno = 0
  BlkSize = 5
  MaxBlocks = 2
  MaxFaults = 0
  Ops = {"create", "move"}
SPECIFICATION Spec
PROPERTY RightName
VIEW View
CHECK_DEADLOCK FALSE
