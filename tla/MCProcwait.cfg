SPECIFICATION FairSpec
CONSTANTS
  Cmds = {c1}
  Kids = {k1}
  Foreign = {k1}
  Waiters = {v1, v2}
  Strays = TRUE
  None = None
INVARIANTS
  TypeOK
  StatusTruth
  NoLostWaiter
PROPERTIES
  ImplementsLatch
  WaitReturns
  NoZombies
  FinalReapEnds
CHECK_DEADLOCK FALSE
