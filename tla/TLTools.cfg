SPECIFICATION FairSpec
CONSTANTS
  t1 = t1
  t2 = t2
  t3 = t3
  w1 = w1
  w2 = w2
  c1 = c1
  c2 = c2
  Threads <- MCThreads
  FirstValue = 10
  Writes = 4
  Workers <- MCWorkers
  Clients <- MCClients
  Room = 1
  BufLen = 1
  MaxUnread = 2
  Packets <- MCPackets
  BufSize = 32
  Garbage = {0, 255}
  Cores = 3
  Loads <- MCLoads
  AllMem = 3
  MaxLag = 1
  MaxTime = 3
  FdMax = 6
  MaxUsed = 2
  reqLen = 2
  MaxReqs = 3
INVARIANTS
  TypeOK
  NoLostWakeup
  EveryValueOnce
  ConnsAlive
  CutAsFramed
  WeightsValid
  SkewBounded
  UseCountedOnce
  ShiftIsReported
PROPERTIES
  Drained
  ClientsIndependent
  PacketEnds
  ProcmonEnds
  ImplementsSnapshot
CHECK_DEADLOCK FALSE
