SPECIFICATION Spec
CONSTANTS
  Sessions <- MCSessions
  Datagrams <- MCDatagrams
  NoSession = "none"
  MaxReceived = 5
  Queries <- MCQueries
  MaxQueries = 1
  ClipMs = 2000
  IdleMs = 1000
  Tags = {}
  MaxEvents = 0
  Keys <- MCKeys
  Values <- MCValues
  Hash <- MCHash
  InitialBuckets = 2
  OldFile <- MCOldFile
INVARIANTS
  
  SessionComplete
  
  ProbesEnd
  
  
CHECK_DEADLOCK FALSE
PROPERTY QueriesGetTheLock
