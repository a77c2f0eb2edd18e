SPECIFICATION OpenSpec
CONSTANTS
  PipeCap = 1
  MaxRecords = 1
  MaxSignals = 1
PROPERTIES InterruptEnds
CHECK_DEADLOCK FALSE
