SPECIFICATION FairSpec
CONSTANTS
  Nothing = Nothing
  Ended = Ended
  clients = 2
  MaxTries = 2
  Answers <- MCGoodOrBad
  Killable <- MCAll
INVARIANTS
  EveryAttemptCounted
  TotalsAddUp
PROPERTIES
  OnlyLostAlarmBlocks
CHECK_DEADLOCK FALSE
