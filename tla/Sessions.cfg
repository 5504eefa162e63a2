SPECIFICATION Spec
CONSTANTS
  Labels = {TRUE}
  MaxHits = 2
  Window = 2
  MaxAttempt = 4
  MaxClock = 3
  MaxLogin = 2
  MaxPair = 3
  MaxExpire = 2
  MaxFault = 1
INVARIANTS
  
  AttemptsBounded
PROPERTY
  RevokedNeverGranted
CHECK_DEADLOCK FALSE
