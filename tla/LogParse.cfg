SPECIFICATION Spec
CONSTANTS
  Names <- MCNames
  Int64 <- MCInt64
  Atof <- MCAtof
  Substrings <- MCSubstrings
  Size <- MCSize
  Options <- MCOptions
  Lines <- MCLines
  MaxLines = 3
  SizeMax = 15
  InitialCap = 3
INVARIANTS
  
  
  CapturesBelong
  RoomForTerminator
PROPERTIES
  Ends
CHECK_DEADLOCK FALSE
