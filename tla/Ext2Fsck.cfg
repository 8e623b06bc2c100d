SPECIFICATION Spec
CONSTANTS
  Modes = {"preen", "force"}
  MaxIno = 6
  MaxBlk = 8
  Slots = 3
  Trees <- MCTrees
  MaxDamages = 2
  MaxRuns <- MCMaxRuns
  MaxStops <- MCMaxStops
INVARIANTS WalkEnds OneDamageRepaired
PROPERTIES BlocksRepaired QuietIffConsistent PreenKeepsFiles
CHECK_DEADLOCK FALSE
