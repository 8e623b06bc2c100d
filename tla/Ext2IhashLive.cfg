CONSTANTS
  Threads = {t1, t2}
  Inos = {i1, i2}
  Vnodes = {v1}
  Types = {blk}
  Devices = {blk}
  NoType = NoType
  NoVnode = NoVnode
  MaxVid <- MCMaxVid
SPECIFICATION MCSpec
PROPERTY VgetReturns
