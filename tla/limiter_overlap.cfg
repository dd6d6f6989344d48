SPECIFICATION HistorySpec
CONSTANTS
  Threads = {t1, t2}
  Ips = {a1, a2}
  Watched = a1
  NoIp = NoIp
  NoThread = NoThread
  Limits = {1}
  Window = 2
  PurgeAbove = 1
  StartNow = 1
  MaxNow = 4
PROPERTY
  WindowsDisjoint
