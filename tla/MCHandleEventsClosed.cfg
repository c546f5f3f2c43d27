\* The system may stop: handle dropped, monitor ended.
CONSTANTS
  Conns = {c1}
  Waiters = {w1}
  Modes = {m1}
  BufferIds = {b1}
  Other = Other
  NoMode = NoMode
  NoBuffer = NoBuffer
  EventCap = 2
  UpdateCap = 2
  MaxModes = 2
SPECIFICATION FairSpec
PROPERTY ClosedIsReported
CHECK_DEADLOCK FALSE
