SPECIFICATION FairSpec
CONSTANTS
  Labels = {l1}
  Containers = {c1}
  Parts = {p1}
  Toggled = {"container_exit"}
  For = 2
  RecoverFor = 2
  HbTimeout = 1
  MaxAhead = 1
  Reports <- OneKind
  MaxTrouble = 2
INVARIANTS
  HeartbeatTrue
  PartsFollowVerdict
  ContainerFollowsList
PROPERTIES
  OpensAfterWindow
  ResolvesAfterWindow
  ThresholdClears
