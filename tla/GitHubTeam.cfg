SPECIFICATION Spec
CONSTANTS
  m1 = m1
  m2 = m2
  Memories <- MCMemories
  MaxVersion = 2
  Reverts = FALSE
  MaxCommits = 3
  MaxReviews = 2
  MaxFaults = 1
SYMMETRY Symmetry
INVARIANTS
  StagedHasProposal
  CheckpointAgrees
  ReviewsDecide
  RetryIsLatest
PROPERTIES
  ConflictKept
