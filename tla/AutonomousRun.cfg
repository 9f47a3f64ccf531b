SPECIFICATION FairSpec
CONSTANTS
  MaxReviewIterations = 3
  MaxExpansions = 2
  Dimensions = {"publisher", "stance"}
  HardMinimum = 3
CHECK_DEADLOCK FALSE
INVARIANTS
  ReleaseCoherent
  ReleaseReviewed
  RowsJoined
PROPERTIES
  RunEnds
