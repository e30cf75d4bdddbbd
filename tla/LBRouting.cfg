SPECIFICATION Spec
CONSTANTS
  SERVERS_NUM = 1
  c1 = c1
  c2 = c2
  NoConn = NoConn
  Conns = {c1, c2}
  normalLen = 2
  MaxSend = 4
  FdLimit = 11
  HistoryLimit = 1
  WorkCap = 2
  ReplyCap = 1
  Usages <- MCIdleOnly
SYMMETRY MCSymmetry
INVARIANTS
  InterestMatchesTable
  RelayUnreachable
  EventsFresh
  NothingLostOrDoubled
  TagsRoutable
PROPERTIES
  ImplementsRelay
