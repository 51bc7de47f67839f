SPECIFICATION Spec
CONSTANTS
  Int8Max = 127
  ServiceNames = {"AppA"}
  Names = {"AppA"}
  Callers = {"dispatch"}
  Policies <- SmallPolicies
  Reports = {"UNKNOWN"}
  MaxCrashes = 6
PROPERTY DisableIsFinal
