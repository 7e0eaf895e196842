CONSTANTS
  c1 = c1
  Conns = {c1}
  Listener = Listener
  MaxRequests = 2
  ResponseLen = 2
  SendBuffer = 1
  JOHNNY_BUFFER_SIZE = 2
  JOHNNY_EVENTS_BUFFER = 2
  MaxFds = 2
  Clients = {"pipelines"}
SPECIFICATION Spec
INVARIANTS ResponsesAreWhole
CHECK_DEADLOCK FALSE
