SPECIFICATION Spec
CONSTANTS
  Confs <- MCConfs
  Block = 2
  Multisend = 2
  SocketSize = 3
  RateLimit = 1
  Window = 2
  MaxStats = 3
  MaxEintr = 1
  MaxNobufs = 1
INVARIANTS
  IntervalsWithinTotals
  ReportsAgree
  ReceivedWasSent
  LimitIsMet
  RateLimitExact
PROPERTIES
  TestEnds
CHECK_DEADLOCK FALSE
