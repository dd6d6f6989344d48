SPECIFICATION Spec
CONSTANTS
  Calls <- MCCalls
  MaxAddresses = 2
  Wire = 2
  MaxBytes = 5
  Buf = 3
INVARIANTS
  TypeOK
  SocketsReturned
  RelayedIffProper
  TargetJoined
  WaitsBounded
PROPERTIES
  ExchangeSpec
  ForwardReturns
\* The function has returned.
CHECK_DEADLOCK FALSE
