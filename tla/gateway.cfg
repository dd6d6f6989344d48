SPECIFICATION Spec
CONSTANTS
  Conns = {c1, c2, c3}
  None = None
  Environments <- MCEnvironments
  MaxAddresses = 1
  Backlog = 1
  MaxPolls = 1
  Ips = {a}
  NoIp = NoIp
  Window = 1
  PurgeAbove = 1
  StartNow = 1
  MaxNow = 2
INVARIANTS
  TypeOK
  DescriptorsBounded
  EarlyStopReleasesAll
PROPERTY
  PlacesComeBack
\* The process ends.
CHECK_DEADLOCK FALSE
