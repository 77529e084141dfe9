SPECIFICATION Spec
CONSTANTS
  a = a
  b = b
  c1 = c1
  c2 = c2
  Names = {a, b}
  Order <- TwoNames
  Clients = {c1, c2}
  Boot = Boot
  None = None
  Scenarios <- RequisiteScenarios
  MaxCommands = 2
  MaxObjects = 3
INVARIANT
  RequisiteFails
CHECK_DEADLOCK FALSE
