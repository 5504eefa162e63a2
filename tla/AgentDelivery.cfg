SPECIFICATION FairSpec
CONSTANTS
  MaxBatch = 3
  MaxEvents = 2
  MaxReplay = 2
  MaxSend = 2
  Poison = {2}
  MaxSeq = 4
  MaxCrash = 1
  MaxFail = 2
INVARIANTS
  Accounted
  FreshIsNew
  OverflowNotInflated
PROPERTY QueueDrains
CHECK_DEADLOCK FALSE
