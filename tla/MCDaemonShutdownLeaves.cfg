SPECIFICATION Spec
CONSTANTS
  a = a
  b = b
  c1 = c1
  c2 = c2
  Daemons = {a}
  Procs = {p1, p2}
  NoProc = NoProc
  Clients = {c1, c2}
  Workers = {w1, w2}
  Main = Main
  None = None
  MaxDepth = 3
  Machines <- ShutdownMachines
INVARIANTS
  ExitLeavesNoService
SYMMETRY Symmetry
CHECK_DEADLOCK FALSE
