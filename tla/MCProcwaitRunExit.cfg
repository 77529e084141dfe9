SPECIFICATION Spec
CONSTANTS
  Cmds = {c1}
  Kids = {k1}
  Foreign = {}
  Waiters = {v1}
  Strays = FALSE
  None = None
INVARIANT
  RunReportsExit
CHECK_DEADLOCK FALSE
