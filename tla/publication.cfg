SPECIFICATION Spec
CONSTANTS
  Batch <- MCBatch
  Candidates <- MCCandidates
  Lower <- MCLower
  MaxCreated = 2
  Nothing = Nothing
INVARIANT BatchIsWholeOrGone
PROPERTY OthersKeepTheirFiles
CHECK_DEADLOCK FALSE
