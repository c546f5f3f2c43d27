CONSTANTS
  Conns = {c1}
  Waiters = {}
  Modes = {m1}
  BufferIds = {b1, b2}
  Other = Other
  NoMode = NoMode
  NoBuffer = NoBuffer
  UpdateReady = UpdateReady
  NoConn = NoConn
  EventCap = 1
  UpdateCap = 1
  FdCap = 2
  MaxModes = 0
  MultiThread = FALSE
SPECIFICATION FairSpec
INVARIANTS TypeOK NoLostWakeup
PROPERTIES RequestServed LoopStops
