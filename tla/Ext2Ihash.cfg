CONSTANTS
  Threads = {t1, t2}
  Inos = {i1, i2}
  Vnodes = {v1, v2}
  Types = {reg}
  Devices = {}
  NoType = NoType
  NoVnode = NoVnode
  v1 = v1
  v2 = v2
  MaxVid <- MCMaxVid
SPECIFICATION Spec
INVARIANTS HashExact RightVnode
