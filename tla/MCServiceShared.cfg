SPECIFICATION Spec
CONSTANTS
  Int8Max = 127
  ServiceNames = {"AppA", "AppB"}
  Names = {"AppA", "AppB"}
  Conns = {"c1"}
  Enrols <- TwoPerPeer
  Policies <- OnePolicy
  Reports = {"UNKNOWN"}
  Impatient = {}
  MaxCalls = 2
INVARIANT AnnouncedLossIsHandled
CHECK_DEADLOCK FALSE
