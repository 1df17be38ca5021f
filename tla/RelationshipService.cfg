SPECIFICATION Spec
CONSTANTS
  a = a
  b = b
  Callers <- MCCallers
  MaxId = 4
  Initial <- MCInitial
  Tags <- MCTags
  Tokens <- MCTokens
  Session <- MCSession
  NoSession = "none"
  Class <- MCClass
  MaxEntities = 3
  MaxLinks = 1
  MaxMetadataLinks = 1
  Replacements = {1}
  Links <- MCLinks
  MaxDecisions = 2
  MaxChanges = 2
  MaxFailures = 1
SYMMETRY Symmetry
INVARIANTS
  LinksOwned
  DecisionsReported
  NoRedundant
  ProperGraph
PROPERTIES
  ManualDecides
  DerivedExact
  InferredExact
