SPECIFICATION Spec
CONSTANTS
  c1 = c1
  c2 = c2
  Clients = {c1, c2}
  NoClient = NoClient
  NumStreams = 1
  Mode = "SENDER"
  Faults = {"connect", "signal", "stop"}
INVARIANTS
  TypeOK
  ProtocolInSync
  OneTestAtATime
  FinishedTogether
