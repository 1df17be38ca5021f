\* Crashes between any two writes; 3 candidates, batches of up to 2.
SPECIFICATION Spec
CONSTANTS
  react = react
  react2 = react2
  angular = angular
  never = never
  key = key
  s1 = s1
  Texts <- MCTexts
  Normal <- MCNormal
  Unfit <- MCUnfit
  Similar <- MCSimilar
  Clash <- MCClash
  Sessions = {s1}
  Manual = Manual
  None = None
  NoKey = NoKey
  Edits = {}
  Replacements = {None}
  Proposals <- Mixed
  MaxBatch = 2
  MaxId = 3
  Failures = TRUE
INVARIANTS
  NoDuplicateActive
PROPERTIES
  HandledNeverReturns
  DecisionOnRecord
  ApprovalSettlesConflicts
