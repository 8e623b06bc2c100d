SPECIFICATION Spec
CONSTANTS
  Modes = {"yes"}
  MaxIno = 6
  MaxBlk = 8
  Slots = 3
  Trees <- MCTrees
  MaxDamages = 1
  MaxRuns <- MCMaxRuns
  MaxStops <- MCMaxStops
PROPERTY OrphansReconnected
CHECK_DEADLOCK FALSE
