SPECIFICATION Spec
CONSTANTS
  Options <- MCOptions
  NumStreams = 1
  MaxFd = 9
  MaxApp = 1
  MaxData = 9
  MaxFails = 1
  MaxStray = 1
  BlkSize = 4
  Faults = {"done", "lose", "dup", "late", "overtake"}
INVARIANTS
  NothingLeaks
  RolesAgree
  QuietNetworkConnects
PROPERTIES
  BothReturn
CHECK_DEADLOCK FALSE
