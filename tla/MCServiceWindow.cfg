SPECIFICATION Spec
CONSTANTS
  Int8Max = 127
  ServiceNames = {"AppA"}
  Names = {"AppA"}
  Conns = {"c1"}
  Enrols <- OnePeer
  Policies <- OnePolicy
  Reports = {"UNKNOWN"}
  Impatient = {}
  MaxCalls = 2
INVARIANT OnlineIsConnected
CHECK_DEADLOCK FALSE
