SPECIFICATION Spec
CONSTANTS
  Threads = {t1}
  Blocks <- MCBlocks
  NDADDR = 1
  NIADDR = 2
  NINDIR = 2
  BSize = 2
  MaxRun = 2
  MaxLbn = 6
  Lengths <- MCLengths
  MaxSpan = 1
  MaxCalls = 3
  MaxFaults = 1
INVARIANTS Owned DiskOwned RunExact
PROPERTY KeptMapping
