\* Three events, or one event and one transformation.
SPECIFICATION Spec
CONSTANTS
  a = a
  Sessions <- OneSession
  MaxEvents = 3
  MaxTransforms = 1
  MaxLoad = 3
  Calls <- MCCalls
  Clients <- MCClients
  ClientOf <- MCClientOf
  MaxStarts = 2
INVARIANTS
  SubmitsSession
  AnsweredOnce
  IngestionQuiet
  LaunchedForNeed
PROPERTY
  DisposeReturns
\* The plugin may be disposed and the daemon down.
CHECK_DEADLOCK FALSE
