SPECIFICATION MCSpec
CONSTANTS
  p1 = p1
  p2 = p2
  i1 = i1
  i2 = i2
  None = None
  Scenarios = {"races", "overtaking"}
  Clients = {c1, c2}
  Projects = {p1}
  Items = {i1}
  Maintained = {}
  Decisions = {"approved", "denied"}
  TTL = 1
  MaxAssessments = 4
  MaxTime = 0
  OperationIds <- MCOperationIds
  Operations <- MCOperations
CHECK_DEADLOCK FALSE
SYMMETRY ClientSymmetry
INVARIANTS
  AppliedOnce
  ConsumedIsRecorded
  HeadSharedOncePerClient
  ClosureOvertakenOncePerClient
  RetirementOvertakenOncePerClient
PROPERTIES
  ImplementsLedger
