SPECIFICATION ServedSpec
CONSTANTS
  Nothing = Nothing
  Ended = Ended
  clients = 2
  MaxTries = 1
  Answers <- MCGoodOnly
  Killable <- MCAll
PROPERTIES
  DeathIsNoticed
CHECK_DEADLOCK FALSE
