SPECIFICATION FairSpec
CONSTANTS
  ClipMs = 2000
  IdleMs = 1000
  Tags = {}
  MaxEvents = 1
  Lines <- ThreeLines
  Skipped = Skipped
  TickMs = 500
  PollMs = 1000
  MetaWaitMs = 1000
  MaxFaults = 1
INVARIANTS TypeOK PollSeesEverything CleanExitIsComplete NoWaitMeansFlush
PROPERTIES SentinelTerminates StartupEnds LinesAreParsed BytesAreFlushed
CHECK_DEADLOCK FALSE
