\* The system may stop: thread and monitor ended, context closed.
CONSTANTS
  Conns = {c1}
  Modes = {m1}
  BufferIds = {b1, b2}
  Other = Other
  NoBuffer = NoBuffer
  UpdateReady = UpdateReady
  EventCap = 2
  FdCap = 2
SPECIFICATION FairSpec
INVARIANT TypeOK
PROPERTIES InOrder CloseStops BrokenFdStops
CHECK_DEADLOCK FALSE
