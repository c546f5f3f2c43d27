\* The system may stop: handle dropped, monitor ended.
CONSTANTS
  Conns = {c1}
  Waiters = {w1, w2}
  Modes = {m1, m2}
  BufferIds = {b1, b2}
  Other = Other
  NoMode = NoMode
  NoBuffer = NoBuffer
  EventCap = 2
  UpdateCap = 2
  MaxModes = 2
SPECIFICATION FairSpec
INVARIANTS TypeOK WatchAgrees NothingAbandoned
PROPERTY WaiterServed
CHECK_DEADLOCK FALSE
