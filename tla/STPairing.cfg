SPECIFICATION FairSpec
CONSTANTS
  SERVERS_NUM = 2
  s1 = s1
  s2 = s2
  s3 = s3
  h1 = h1
  h2 = h2
  NoHost = NoHost
  NoInstance = NoInstance
  Instances <- MCInstances
  hostOf <- MCHosts
INVARIANTS
  PairsMatch
  MonIsAccepted
PROPERTIES
  ImplementsPairing
  Settles
  FailureSpreads
CHECK_DEADLOCK FALSE
