SPECIFICATION Spec
CONSTANTS
  Ingests = {i1}
  Admins = {a1, a2}
  Proxies = {p1}
  Ids = {x}
  MaxGen = 3
  MaxSeen = 1
  MaxEdit = 2
  MaxProxy = 2
INVARIANTS
  LogTellsRow
  NoEditLost
  KeyMatchesAddress
  ToldTheTruth
CHECK_DEADLOCK FALSE
