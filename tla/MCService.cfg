SPECIFICATION Spec
CONSTANTS
  Int8Max = 127
  ServiceNames = {"AppA", "AppB"}
  Names = {"AppA", "AppB", "NotInMap"}
  Conns = {"c1", "c2", "c3"}
  Enrols <- OnePerPeer
  Policies <- OnePolicy
  Reports = {"UNKNOWN"}
  Impatient = {"c1"}
  MaxCalls = 3
INVARIANTS
  TypeOK
  OnlineIsWatched
  OfflineMeansGone
  AcknowledgedIsWatched
  AnnouncedLossIsHandled
PROPERTY ImplementsMonitor
CHECK_DEADLOCK FALSE
