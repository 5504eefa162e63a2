SPECIFICATION Spec
CONSTANTS
  Heartbeat = "hb"
  Keys <- KeysDef
  SourceEvents <- LongLived
  HubSeqBase = 10
  Window = 1
  Retention = 1
  HbTimeout = 0
  MaxBatch = 1
  Readable = {}
  MaxWait = 0
  MaxHub = 1
  MaxNow = 4
INVARIANTS
  
  HubEventsInOrder
  ClientMirrorsFaults
PROPERTY OpenFaultNeverRemoved
CHECK_DEADLOCK FALSE
