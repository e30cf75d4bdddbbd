SPECIFICATION Spec
CONSTANTS
  SERVERS_NUM = 2
  c1 = c1
  c2 = c2
  NoConn = NoConn
  Conns = {c1, c2}
  normalLen = 1
  MaxSend = 1
  FdLimit = 12
  HistoryLimit = 2
  WorkCap = 1
  ReplyCap = 1
  Usages <- MCHotOnly
SYMMETRY MCSymmetry
INVARIANTS
  SpareDescriptor
  AtMostOneLate
  HistoryAligned
  OneQuestion
  WeightsFresh
