SPECIFICATION Spec
CONSTANTS
  Int8Max = 127
  ServiceNames = {"AppA"}
  Names = {"AppA", "NotInMap"}
  Callers = {"dispatch"}
  Policies <- WalkablePolicies
  Reports = {"RESTART", "UNKNOWN"}
  MaxCrashes = 260
INVARIANTS
  TypeOK
  CursorInRange
  CursorTracksCrashes
  CrashIsRemembered
PROPERTIES
  OnlineFollowsCalls
  PreviewIsHonoured
