SPECIFICATION FairSpec
CONSTANTS
  PipeCap = 1
  MaxRecords = 2
  MaxSignals = 2
INVARIANTS TypeOK NoOrphans SuccessIsComplete KillsOwnChildren
PROPERTIES Terminates
CHECK_DEADLOCK FALSE
