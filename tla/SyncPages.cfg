SPECIFICATION Spec
CONSTANTS
  Objects = {a, b}
  Keep = 1
  PageLimit = 2
  MaxPages = 2
  MaxSeq = 5
 
PROPERTY SyncIsFeed
CHECK_DEADLOCK FALSE
