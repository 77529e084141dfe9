SPECIFICATION Spec
CONSTANTS
  a = a
  b = b
  c1 = c1
  c2 = c2
  Daemons = {a, b}
  Procs = {p1, p2, p3}
  NoProc = NoProc
  Clients = {c1, c2}
  Workers = {w1, w2}
  Main = Main
  None = None
  MaxDepth = 4
  Machines <- SafetyMachines
INVARIANTS
  TypeOK
  Watched
  TransientOwned
  PanicNeedsDash
SYMMETRY Symmetry
CHECK_DEADLOCK FALSE
