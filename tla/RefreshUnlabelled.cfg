SPECIFICATION Spec
CONSTANTS
  Labels = {FALSE}
  MaxHits = 2
  Window = 2
  MaxAttempt = 1
  MaxClock = 0
  MaxLogin = 1
  MaxPair = 3
  MaxExpire = 1
  MaxFault = 0
PROPERTY
  RefusedForCause
CHECK_DEADLOCK FALSE
