CONSTANTS
  a = a
  b = b
  s1 = s1
  Entries = {a, b}
  Subs = {s1}
  BufferSize = 3
  ReplayLimit = 2
  SubscriberBuffer = 1
  MaxDrops = 1
  MaxHeartbeats = 1
  MaxRestarts = 1
  MaxRemovals = 1
CHECK_DEADLOCK FALSE
SPECIFICATION FairStreamSpec
INVARIANTS
  StreamHasNoGap
  ResumeIsExact
  SnapshotsAreCurrent
  DashboardTells
PROPERTIES
  StoredIsShown
