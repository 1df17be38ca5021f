\* The stores of both backends; one JSON operation is cut short.
SPECIFICATION StoresSpec
CONSTANTS
  m1 = m1
  m2 = m2
  rule = rule
  decision = decision
  project = project
  personal = personal
  x = x
  Ids <- MCIds
  Types <- MCTypes
  Scopes <- MCScopes
  Texts = {x}
  Pending = FALSE
  Legacy <- MCLegacy
  MaxHarms = 1
  k1 = k1
  k2 = k2
  Keys <- MCKeys
  NoKey = NoKey
  Null = Null
  Events <- MCEvents
  MemoryRows <- MCMemoryRows
  CandidateRows <- MCCandidateRows
  RelationshipRows <- MCRelationshipRows
  Replacements <- MCReplacements
  DiagnosticRows <- MCDiagnosticRows
  OlderDatabases <- MCOlderDatabases
INVARIANTS
  DirectoryAgrees
  DatabaseAgrees
PROPERTIES
  StoresImplement
