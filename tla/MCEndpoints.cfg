SPECIFICATION Spec
CONSTANTS
  Server = {s1, s2}
  Client = {c1, c2}
  SERVER_FIFO_PATH = "/tmp/bc_server_fifo"
  ClientPath <- MCClientPath
  None = None
  MaxSent = 1
INVARIANTS
  Reached
  NoneLeft
  KilledByAStop
PROPERTIES
  ServerEnds
