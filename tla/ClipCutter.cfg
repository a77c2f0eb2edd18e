SPECIFICATION Spec
CONSTANTS
  ClipMs = 2000
  IdleMs = 1000
  Tags = {"audio", "motion", "speech"}
  MaxEvents = 2
  Records <- MixedRows
  Bytes <- ManyBytes
  MaxFed = 3
  TickMs = 1000
  MaxNow = 1000
INVARIANTS
  TypeOK
  Tiling
  ByteAccounting
  AllGivenOut
  NoHiddenGap
  WithinWindow
  NoBacklog
  EventsBelong
PROPERTIES
  LateRejectedWhileOpen
  LedgerSpec
CHECK_DEADLOCK FALSE
