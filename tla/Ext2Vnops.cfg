SPECIFICATION Spec
CONSTANTS
  i1 = i1
  i2 = i2
  i3 = i3
  Inos <- MCInos
  Root = root
  NoIno = NoIno
  Names = {"a", "b"}
  LinkMax = 4
  MaxFaults = 1
  Ftypes = {TRUE, FALSE}
SYMMETRY Symmetry
INVARIANTS LinkCounts Tree  NoPanic
PROPERTY RenameKeepsName
