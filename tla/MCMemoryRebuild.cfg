SPECIFICATION MCFairSpec
CONSTANTS
  p1 = p1
  p2 = p2
  i1 = i1
  i2 = i2
  None = None
  Scenarios = {"lifetimes", "deadlines"}
  Clients = {c1}
  Projects = {p1, p2}
  Items = {i1, i2}
  Maintained = {p1}
  Decisions = {"approved"}
  TTL = 1
  MaxAssessments = 4
  MaxTime = 2
  OperationIds <- MCOperationIds
  Operations <- MCOperations
CHECK_DEADLOCK FALSE
INVARIANTS
  TypeOK
  RebuildMatchesLive
  EventsAuthorised
PROPERTIES
  RowsFollowOwnEvents
  CallsReturn
