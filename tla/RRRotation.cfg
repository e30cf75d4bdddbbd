SPECIFICATION DataSpec
CONSTANTS
  SERVERS_NUM = 2
  c1 = c1
  Conns = {c1}
  Listener = Listener
  BUFSIZ = 2
  messLen = 2
  WorkCap = 2
  ReplyCap = 2
  AnswerCap = 1
  MaxSend = 10
INVARIANTS
  RotationBalanced
  AnsweredBeforeClose
PROPERTIES
  BytesTaken
CHECK_DEADLOCK FALSE
