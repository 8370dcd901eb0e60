CONSTANTS
  a = a
  b = b
  s1 = s1
  Entries = {a, b}
  Subs = {s1}
  BufferSize = 9
  ReplayLimit = 9
  SubscriberBuffer = 2
  MaxDrops = 1
  MaxHeartbeats = 1
  MaxRestarts = 0
  MaxRemovals = 0
CHECK_DEADLOCK FALSE
SPECIFICATION StreamSpec
SYMMETRY Symmetry
INVARIANTS
  CatchesUp
