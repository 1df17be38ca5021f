\* One store with three requests, another with one; safety and progress.
SPECIFICATION FairQueueSpec
CONSTANTS
  r1 = r1
  r2 = r2
  r3 = r3
  r4 = r4
  a = a
  b = b
  NoTurn = NoTurn
  Requests <- MCRequests
  Stores <- MCStores
  StoreOf <- MCStoreOf
  Retrieval <- MCRetrieval
INVARIANTS
  StoreUse
PROPERTIES
  Implements
  Answered
  Shuts
\* The daemon may have stopped.
CHECK_DEADLOCK FALSE
