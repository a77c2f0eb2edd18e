SPECIFICATION Spec
CONSTANTS
  ClipMs = 2000
  IdleMs = 1000
  Tags = {}
  MaxEvents = 1
  Lines <- ThreeLines
  Skipped = Skipped
  TickMs = 1000
  PollMs = 1000
  MetaWaitMs = 1000
  MaxFaults = 1
INVARIANTS EndOfSessionDrains
CHECK_DEADLOCK FALSE
