SPECIFICATION Spec
CONSTANTS
  MaxExpansions = 2
  MaxReviews = 4
  Kinds = {"unsupported_claim", "structure", "hidden_premise", "clarity"}
  ForResearch = {"unsupported_claim", "hidden_premise"}
  ForArgument = {"structure", "hidden_premise"}
CHECK_DEADLOCK FALSE
INVARIANTS
  ReleaseIsOneWork
  ReleaseIsJustified
