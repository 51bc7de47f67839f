SPECIFICATION Spec
CONSTANTS
  Int8Max = 127
  ServiceNames = {"AppA"}
  Names = {"AppA"}
  Callers = {"dispatch"}
  Policies <- TooLongPolicies
  Reports = {"UNKNOWN"}
  MaxCrashes = 260
INVARIANT CursorInRange
