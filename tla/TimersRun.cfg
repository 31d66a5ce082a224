SPECIFICATION Spec
CONSTANTS
  s1 = s1
  s2 = s2
  s3 = s3
  s4 = s4
  Slots = {s1, s2, s3, s4}
  NULL = NULL
  Duration = 2
  Omit = 3
  Interval = 2
  Jumps = {1, 5}
  MaxClock = 8
  MaxTests = 2
INVARIANTS
  ListSorted
  HandlesLive
  ReporterFollowsStats
PROPERTIES
  DurationIsKept
