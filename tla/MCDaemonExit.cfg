SPECIFICATION DaemonSpec
CONSTANTS
  Int8Max = 127
  ServiceNames = {"AppA"}
  Names = {"AppA"}
  Conns = {"c1"}
  Enrols <- AppAOnce
  Policies <- OnePolicy
  Reports = {"UNKNOWN"}
  Impatient = {}
  MaxCalls = 0
  Samples = {"c1"}
  Modes = {"headless"}
  MaxStarts = 2
INVARIANT ExitStatusReflectsService
CHECK_DEADLOCK FALSE
