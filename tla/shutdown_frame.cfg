SPECIFICATION Spec
CONSTANTS
  Conns = {c1, c2, c3}
  None = None
  Environments <- Plain
  MaxAddresses = 2
  Backlog = 2
  MaxPolls = 2
INVARIANT
  FrameOutlivesWorkers
CHECK_DEADLOCK FALSE
