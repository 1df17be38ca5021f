\* Small instance of the JSON audit log: 3 fingerprints, 5 events.
SPECIFICATION Spec
CONSTANTS
  k1 = k1
  k2 = k2
  k3 = k3
  Keys <- MCKeys
  Events <- MCEvents
  NoKey = NoKey
  NoAnswer = NoAnswer
  Corrupt = Corrupt
INVARIANTS
  CheckpointSound
PROPERTIES
  Implements
