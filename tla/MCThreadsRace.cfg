SPECIFICATION Spec
CONSTANTS
  Int8Max = 127
  ServiceNames = {"AppA"}
  Names = {"AppA"}
  Callers = {"t1", "t2"}
  Mutators = {"t1", "t2"}
  Threshold = "TRACE"
  Policies <- ShortPolicy
  Reports = {"RESTART", "UNKNOWN"}
  MaxCrashes = 2
PROPERTY MethodsAreAtomic
