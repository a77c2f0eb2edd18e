SPECIFICATION Spec
CONSTANTS
  ClipMs = 2000
  IdleMs = 1000
  Tags = {}
  MaxEvents = 1
  Records <- OrderedRows
  Bytes <- SmallBytes
  MaxFed = 3
  TickMs = 1000
  MaxNow = 2000

PROPERTIES LateRejected
CHECK_DEADLOCK FALSE
