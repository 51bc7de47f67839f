SPECIFICATION Spec
CONSTANTS
  Int8Max = 127
  ServiceNames = {"AppA"}
  Names = {"AppA"}
  Callers = {"dispatch"}
  Policies <- ClashingPolicies
  Reports = {"UNKNOWN"}
  MaxCrashes = 2
INVARIANT AcceptedPolicyInForce
