SPECIFICATION Spec
CONSTANTS
  Keys = {a, b}
  Values = {v}
  LongValues = {}
  Procs = {p, q}
  Inodes = {i1, i2, i3}
  None = None
  Ttls = {0, 1}
  Offline = TRUE
  DiskFull = FALSE
  MaxCalls = 3
  MaxRows = 3
  MaxNow = 1
INVARIANTS TypeOK
 
SYMMETRY Symmetry
CHECK_DEADLOCK FALSE
