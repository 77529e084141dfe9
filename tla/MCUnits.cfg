SPECIFICATION Spec
CONSTANTS
  Half = 128
  Second = 10
  UnitMap <- MCUnitMap
  Places = 3
  Words <- MCWords
  Machines <- MCMachines
INVARIANTS
  TypeOK
  Meaning
  DurationRight
  ReadsOnce
CHECK_DEADLOCK FALSE
