SPECIFICATION Spec
CONSTANTS
  p1 = p1
  i1 = i1
  None = None
  Projects = {p1}
  Items = {i1}
  OperationIds = {}
  Clients = {c1, c2}
  OriginEvents <- SomeOriginEvents
  LocalEvents <- SomeLocalEvents
  MaxOrigin = 2
  MaxInspections = 2
SYMMETRY ClientSymmetry
INVARIANTS
  ImportIsPrefix
  ReceiptIsComplete
CHECK_DEADLOCK FALSE
