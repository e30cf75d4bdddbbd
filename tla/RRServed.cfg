SPECIFICATION FairSpec
CONSTANTS
  SERVERS_NUM = 1
  c1 = c1
  Conns = {c1}
  Listener = Listener
  BUFSIZ = 2
  messLen = 2
  WorkCap = 2
  ReplyCap = 2
  AnswerCap = 1
  MaxSend = 1
PROPERTIES
  Served
CHECK_DEADLOCK FALSE
