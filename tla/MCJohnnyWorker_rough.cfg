CONSTANTS
  c1 = c1
  c2 = c2
  Conns = {c1, c2}
  Listener = Listener
  MaxRequests = 3
  ResponseLen = 2
  SendBuffer = 1
  JOHNNY_BUFFER_SIZE = 2
  JOHNNY_EVENTS_BUFFER = 2
  MaxFds = 2
  Clients = {"pipelines", "half-closes", "resets", "bursts"}
SPECIFICATION Spec
INVARIANTS TypeOK EventsAreOfOpenConnections UnreadIsScheduled UnsentIsScheduled NothingToResume ResponsesInOrder
PROPERTY ClosesOnlyWhen
CHECK_DEADLOCK FALSE
SYMMETRY Symmetry
