SPECIFICATION FairSpec
CONSTANTS
  a = a
  b = b
  c1 = c1
  c2 = c2
  Daemons = {a, b}
  Procs = {p1, p2}
  NoProc = NoProc
  Clients = {c1}
  Workers = {w1, w2}
  Main = Main
  None = None
  MaxDepth = 4
  Machines <- LiveMachines
PROPERTIES
  CommandsReturn
  ShutdownEnds
  Supervised
  
CHECK_DEADLOCK FALSE
