SPECIFICATION FairSpec
CONSTANTS
  a = a
  b = b
  c1 = c1
  c2 = c2
  Names = {a, b}
  Order <- TwoNames
  Clients = {c1, c2}
  Boot = Boot
  None = None
  Scenarios <- AllScenarios
  MaxCommands = 2
  MaxObjects = 3
INVARIANTS
  TypeOK
  DefsThere
  Agree
  Justified
  ReadOnce
  LinkCrash
PROPERTIES
  
  ClientsReturn
CHECK_DEADLOCK FALSE
