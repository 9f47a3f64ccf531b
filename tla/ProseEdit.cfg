SPECIFICATION Spec
CONSTANTS
  Findings <- SomeFindings
  Replies <- SomeReplies
  MaxRepairs = 2
INVARIANTS
  ReleasedIsVerified
  ReleasedIsMapped
  VerdictIsOfCandidate
  SafeUnlessFallback
  CallsAccounted
PROPERTY EditEnds
