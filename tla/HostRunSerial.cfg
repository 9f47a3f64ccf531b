SPECIFICATION FairSpec
CONSTANTS
  MaxReviewIterations = 3
  Drivers = {d1}
  CrashPoints = {"working", "submitting", "write", "truncate"}
  MaxCrashes = 2
CHECK_DEADLOCK FALSE
INVARIANTS
  ReviewedOrUnread
  InputsExact
  StageOrder
PROPERTIES
  AcceptedStays
  RunEnds
