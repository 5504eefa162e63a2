SPECIFICATION Spec
CONSTANTS
  Heartbeat = "hb"
  Keys <- KeysDef
  SourceEvents <- Burst
  HubSeqBase = 10
  Window = 5
  Retention = 5
  HbTimeout = 0
  MaxBatch = 3
  Readable = {1, 2}
  MaxWait = 1
  MaxHub = 0
  MaxNow = 2
INVARIANTS
  TypeOK
  NoOpenUnderPending
  RoundOrder
  OpenNotifiedOnce
  ClientMirrorsMessages
PROPERTY MuteSurvivesRounds
CHECK_DEADLOCK FALSE
