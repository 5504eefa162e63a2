SPECIFICATION FairSpec
CONSTANTS
  Writers = {w1, w2}
  Cap = 1
  Keep = 1
  PageLimit = 1
  MaxPages = 2
  MaxTx = 2
  MaxSeq = 4
  MaxBreaks = 2
 
PROPERTIES
  ImplementsFeed
  CatchesUp
CHECK_DEADLOCK FALSE
