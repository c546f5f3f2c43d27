CONSTANTS
  Conns = {c1, c2}
  Waiters = {}
  Modes = {m1}
  BufferIds = {b1}
  Other = Other
  NoMode = NoMode
  NoBuffer = NoBuffer
  UpdateReady = UpdateReady
  NoConn = NoConn
  EventCap = 1
  UpdateCap = 1
  FdCap = 2
  MaxModes = 0
  MultiThread = TRUE
SPECIFICATION Spec
INVARIANTS LibEvdiContract Serving
PROPERTY LoopImplemented
