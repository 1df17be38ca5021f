SPECIFICATION Spec
CONSTANTS
  m1 = m1
  m2 = m2
  Memories <- MCMemories
  MaxVersion = 2
  Reverts = FALSE
  MaxCommits = 2
  MaxReviews = 1
  MaxFaults = 0
SYMMETRY Symmetry
INVARIANTS
  EachProposed
