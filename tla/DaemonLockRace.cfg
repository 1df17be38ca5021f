\* Four processes: one that runs, one that gives up, two that recover.
SPECIFICATION Spec
CONSTANTS
  p1 = p1
  p2 = p2
  p3 = p3
  p4 = p4
  Ghost = Ghost
  Malformed = Malformed
  None = None
  Procs <- MCFour
  InitialLocks <- MCNoLock
  MaxAttempts = 3
SYMMETRY SymmetryFour
INVARIANTS
  OneDaemon
\* Every process may have ended.
CHECK_DEADLOCK FALSE
