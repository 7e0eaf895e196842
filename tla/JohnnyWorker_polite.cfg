CONSTANTS
  c1 = c1
  c2 = c2
  c3 = c3
  Conns = {c1, c2, c3}
  Listener = Listener
  MaxRequests = 2
  ResponseLen = 3
  SendBuffer = 2
  JOHNNY_BUFFER_SIZE = 2
  JOHNNY_EVENTS_BUFFER = 1
  MaxFds = 2
  Clients = {}
SPECIFICATION FairSpec
PROPERTIES RequestsAreAnswered FinishedAreClosed ImplementsFileService
CHECK_DEADLOCK FALSE
