SPECIFICATION Spec
CONSTANTS
  SERVERS_NUM = 1
  c1 = c1
  NoConn = NoConn
  Conns = {c1}
  normalLen = 1
  MaxSend = 1
  FdLimit = 10
  HistoryLimit = 1
  WorkCap = 1
  ReplyCap = 1
  Usages <- MCIdleOnly
INVARIANTS
  AnsweredBeforeClose
