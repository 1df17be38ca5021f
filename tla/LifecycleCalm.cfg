\* No failures, every kind of rejection, updates; 4 candidates, batches of up to 2.
SPECIFICATION Spec
CONSTANTS
  react = react
  react2 = react2
  angular = angular
  never = never
  key = key
  s1 = s1
  Texts <- MCTexts
  Normal <- MCNormal
  Unfit <- MCUnfit
  Similar <- MCSimilar
  Clash <- MCClash
  Sessions = {s1}
  Manual = Manual
  None = None
  NoKey = NoKey
  Edits = {never}
  Replacements = {None}
  Proposals <- Everything
  MaxBatch = 2
  MaxId = 4
  Failures = FALSE
INVARIANTS
  TypedAndRejected
PROPERTIES
  SupersededNotRestored
