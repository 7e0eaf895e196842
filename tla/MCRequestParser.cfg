CONSTANTS
  Names <- MCNames
  Rests <- MCRests
  MaxStream = 3
  JOHNNY_BUFFER_SIZE = 7
SPECIFICATION Spec
INVARIANTS TypeOK InStep ServedAsSent
CHECK_DEADLOCK FALSE
