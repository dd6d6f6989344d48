SPECIFICATION Spec
CONSTANTS
  Calls <- MCCalls
  MaxAddresses = 2
  Wire = 2
  MaxBytes = 5
  Buf = 3
INVARIANT
  TimeoutsAnswered504
CHECK_DEADLOCK FALSE
