SPECIFICATION Spec
CONSTANTS
  c1 = c1
  Clients = {c1}
  NoClient = NoClient
  NumStreams = 1
  Mode = "SENDER"
  Faults = {"stop"}
PROPERTIES
  StopIsNotForgotten
