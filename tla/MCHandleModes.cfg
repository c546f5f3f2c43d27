CONSTANTS
  Conns = {c1}
  Waiters = {w1}
  Modes = {m1}
  BufferIds = {b1}
  Other = Other
  NoMode = NoMode
  NoBuffer = NoBuffer
  UpdateReady = UpdateReady
  NoConn = NoConn
  EventCap = 1
  UpdateCap = 1
  FdCap = 2
  MaxModes = 1
  MultiThread = TRUE
SPECIFICATION FairSpec
PROPERTIES ModeServed EventsImplemented
