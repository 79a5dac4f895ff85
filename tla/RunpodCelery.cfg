SPECIFICATION Spec
CONSTANTS
  Rows = {r1, r2}
  MaxAttempts = 2
  MaxPosts = 2
  Cap = 1
  Serial = FALSE
  Faults = {"lost", "busy"}
  MaxCrashes = 0
INVARIANTS
  CapHolds
  NoOrphanJob
PROPERTIES
  TerminalIsFinal
SYMMETRY RowSymmetry
CHECK_DEADLOCK FALSE
