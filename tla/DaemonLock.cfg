\* Three processes over the lock of a daemon that died, every process fair.
SPECIFICATION FairSpec
CONSTANTS
  p1 = p1
  p2 = p2
  p3 = p3
  p4 = p4
  Ghost = Ghost
  Malformed = Malformed
  None = None
  Procs <- MCThree
  InitialLocks <- MCStale
  MaxAttempts = 3
INVARIANTS
  LockKept
  DiscoveryIntact
  NoGuardLeaked
PROPERTIES
  Settles
  StartServes
\* Every process may have ended.
CHECK_DEADLOCK FALSE
