SPECIFICATION DaemonSpec
CONSTANTS
  Int8Max = 127
  ServiceNames = {"AppA"}
  Names = {"AppA"}
  Conns = {"c1", "c2"}
  Enrols <- AppATwice
  Policies <- OnePolicy
  Reports = {"UNKNOWN"}
  Impatient = {"c1"}
  MaxCalls = 2
  Samples = {"c1"}
  Modes = {"headless", "console"}
  MaxStarts = 2
INVARIANTS
  PushFollowsRegistration
PROPERTIES
  ImplementsMonitor
  EveryCallIsAnswered
  LossIsNoticed
  NewSampleIsWatched
CHECK_DEADLOCK FALSE
