SPECIFICATION Spec
CONSTANTS
  c1 = c1
  Clients = {c1}
  NoClient = NoClient
  NumStreams = 1
  Mode = "BIDIRECTIONAL"
  Faults = {"connect", "lose", "late", "signal", "stop"}
INVARIANTS
  StreamsAgree
  SendersStoppedFirst
  ClientThreadsJoined
PROPERTIES
  StatesInOrder
  ClientsReturn
  ServerReturns
