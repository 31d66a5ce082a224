SPECIFICATION Spec
CONSTANTS
  MaxRuns = 2
  MaxTicks = 2
  NumStreams = 2
  Kinds = {"client", "server"}
INVARIANTS
  NoUseAfterFree
  StartMeansIdle
  OneFinalCallback
PROPERTIES
  ClientTestEnds
