SPECIFICATION FairSpec
CONSTANTS
  None = None
  Pids <- MCPids
  Cmds <- MCCmds
  Others <- MCOthers
  MaxForks = 2
  MaxExecs = 1
  MaxWaiting = 1
INVARIANTS
  TypeOK
  FindRight
  NoOverflow
  OwnOnly
  Precise
PROPERTY
  MonitorEnds
CHECK_DEADLOCK FALSE
