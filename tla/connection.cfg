SPECIFICATION Spec
CONSTANTS
  Requests <- MCRequests
  Buf = 3
  HeaderCap = 4
  MaxBody = 3
  LengthCap = 5
  MaxToken = 2
  Upstreams <- MCUpstreams
  Issuer = "iss"
  Times = {1, 2, 3}
INVARIANTS
  TypeOK
  BuffersBounded
  HeadCapSound
  ForwardedBodyExact
  HonestSenderFairlyJudged
  ForwardedVetted
  EntitledNotForbidden
PROPERTIES
  ServiceSpec
  ConnectionEnds
\* A closed connection has no further step.
CHECK_DEADLOCK FALSE
