SPECIFICATION DaemonSpec
CONSTANTS
  Int8Max = 127
  ServiceNames = {"AppA"}
  Names = {"AppA"}
  Conns = {"c1"}
  Enrols <- AppAOnce
  Policies <- OnePolicy
  Reports = {"UNKNOWN"}
  Impatient = {}
  MaxCalls = 0
  Samples = {"c1"}
  Modes = {"console"}
  MaxStarts = 2
INVARIANT SchedulerOutlivesCallbacks
CHECK_DEADLOCK FALSE
