SPECIFICATION Spec
CONSTANTS
  Conns = {c1, c2, c3, c4}
  None = None
  Environments <- MCEnvironments
  MaxAddresses = 2
  Backlog = 2
  MaxPolls = 2
INVARIANTS
  TypeOK
  StartIsAllOrNothing
  SocketsOwned
  EarlyStopIsClean
  AtMostOneLate
PROPERTIES
  PoolSpec
  ShutdownCompletes
  QueueDrains
\* The process ends.
CHECK_DEADLOCK FALSE
