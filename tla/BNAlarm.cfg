SPECIFICATION FairSpec
CONSTANTS
  Nothing = Nothing
  Ended = Ended
  clients = 1
  MaxTries = 1
  Answers <- MCGoodOnly
  Killable = {}
PROPERTIES
  TestEnds
CHECK_DEADLOCK FALSE
