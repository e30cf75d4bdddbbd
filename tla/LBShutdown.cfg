SPECIFICATION FairSpec
CONSTANTS
  SERVERS_NUM = 2
  c1 = c1
  NoConn = NoConn
  Conns = {c1}
  normalLen = 1
  MaxSend = 4
  FdLimit = 12
  HistoryLimit = 1
  WorkCap = 1
  ReplyCap = 1
  Usages <- MCIdleOnly
PROPERTIES
  EverythingExits
