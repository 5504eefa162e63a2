SPECIFICATION FairSpec
CONSTANTS
  Requests = {r1, r2}
  Versions = {v1, v2}
  SizeOf <- SizesDef
  Capacity = 5
  Foreign = 0
  Found <- FoundDef
  MaxAsk = 3
  MaxDamage = 1
  MaxCrash = 1
INVARIANTS
  ServedOnDisk
PROPERTIES
  NeverOutgrows
  
  Answered
CHECK_DEADLOCK FALSE
