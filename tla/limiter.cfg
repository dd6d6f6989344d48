SPECIFICATION HistorySpec
CONSTANTS
  Threads = {t1, t2}
  Ips = {a1, a2}
  Watched = a1
  NoIp = NoIp
  NoThread = NoThread
  Limits = {0, 2}
  Window = 2
  PurgeAbove = 2
  StartNow = 1
  MaxNow = 5
INVARIANTS
  TypeOK
  RollingBound
PROPERTIES
  QuotaSpec
