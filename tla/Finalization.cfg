SPECIFICATION FairSpec
CONSTANTS
  CrashPoints = {"first", "second", "refresh", "report", "read", "append", "verify", "chain", "control", "manifest", "save"}
  MaxAttempts = 3
CHECK_DEADLOCK FALSE
INVARIANTS
  ClosedIsOneRelease
  EvaluatedWasApproved
PROPERTIES
  TornStoreStays
  Finalised
