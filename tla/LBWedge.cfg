SPECIFICATION DataSpec
CONSTANTS
  SERVERS_NUM = 1
  c1 = c1
  c2 = c2
  NoConn = NoConn
  Conns = {c1, c2}
  normalLen = 1
  MaxSend = 2
  FdLimit = 11
  HistoryLimit = 1
  WorkCap = 1
  ReplyCap = 1
  Usages <- MCIdleOnly
INVARIANTS
  LifetimeBound
PROPERTIES
  WedgeIsFinal
  RequestsTaken
