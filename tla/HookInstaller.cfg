\* Both instructions files; four runs, two edits and two interruptions.
SPECIFICATION InstallerSpec
CONSTANTS
  Names = {"main", "override"}
  Texts <- MCTexts
  Malformed = {"bad"}
  Blank = {"blank"}
  Variants = {"plain", "incremental"}
  MaxRuns = 4
  MaxEdits = 2
  MaxCrashes = 2
INVARIANTS
  UserTextKept
  Reversible
PROPERTIES
  Idempotent
\* The bounds of all counters may be reached.
CHECK_DEADLOCK FALSE
