SPECIFICATION FairSpec
CONSTANTS
  c1 = c1
  c2 = c2
  Clients = {c1, c2}
  Hung = {c2}
  Jobs <- AllJobs
  MaxOut = 2
INVARIANTS
  TypeOK
  CodeAfterReady
  ExitsStopped
PROPERTIES
  ImplementsExchange
  Answered
  ConnectionEnds
  SignalEnds
CHECK_DEADLOCK FALSE
