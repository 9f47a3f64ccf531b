SPECIFICATION Spec
CONSTANTS
  SourceIds = {s1, s2}
  Qualities <- SomeQualities
  Remarks <- SomeRemarks
  Judgements <- SomeJudgements
  Classifiers <- SomeClassifiers
  NoClassifier = NoClassifier
  Rows <- SomeRows
  Graphs <- SmallGraphs
  Contexts <- SomeContexts
  MaxSources = 2
  MaxClaims = 2
  MinRows = 2
  MinMarkers = 2
  MaxReviews = 3
CHECK_DEADLOCK FALSE
INVARIANTS
  ApprovedIsGrounded
  ApprovedPassesPlanes
