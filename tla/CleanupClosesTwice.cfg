SPECIFICATION Spec
CONSTANTS
  Options <- PlainOptions
  NumStreams = 1
  MaxFd = 9
  MaxApp = 1
  MaxData = 0
  MaxFails = 0
  MaxStray = 0
  BlkSize = 2
  Faults = {}
INVARIANTS
  ClosesOnlyItsOwn
CHECK_DEADLOCK FALSE
