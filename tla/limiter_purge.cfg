SPECIFICATION HistorySpec
CONSTANTS
  Threads = {t1, t2}
  Ips = {a1, a2}
  Watched = a1
  NoIp = NoIp
  NoThread = NoThread
  Limits = {1, 2}
  Window = 3
  PurgeAbove = 1
  StartNow = 1
  MaxNow = 6
SYMMETRY Interchangeable
INVARIANTS
  TallyExact
  WindowWithinLimit
  SweptRollingBound
PROPERTIES
  DenyOnlyWhenSpent
