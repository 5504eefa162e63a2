SPECIFICATION Spec
CONSTANTS
  Heartbeat = "hb"
  Keys <- KeysDef
  SourceEvents <- Burst
  HubSeqBase = 10
  Window = 5
  Retention = 5
  HbTimeout = 0
  MaxBatch = 1
  Readable = {}
  MaxWait = 0
  MaxHub = 0
  MaxNow = 1
INVARIANT NoGhostOpen
CHECK_DEADLOCK FALSE
