SPECIFICATION Spec
CONSTANTS
  Keys = {a, b}
  Values = {v}
  LongValues = {}
  Procs = {p, q}
  Inodes = {i1, i2, i3}
  None = None
  Ttls = {0}
  Offline = TRUE
  DiskFull = TRUE
  MaxCalls = 3
  MaxRows = 3
  MaxNow = 0
INVARIANTS AckedStays
CHECK_DEADLOCK FALSE
