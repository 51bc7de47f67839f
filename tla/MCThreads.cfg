SPECIFICATION Spec
CONSTANTS
  Int8Max = 127
  ServiceNames = {"AppA"}
  Names = {"AppA", "NotInMap"}
  Callers = {"dispatch", "console"}
  Mutators = {"dispatch"}
  Threshold = "TRACE"
  Policies <- ShortPolicy
  Reports = {"RESTART", "UNKNOWN"}
  MaxCrashes = 1
INVARIANTS
  SnapshotsAreWhole
  LinesAreWhole
PROPERTY MethodsAreAtomic
