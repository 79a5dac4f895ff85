SPECIFICATION FairSpec
CONSTANTS
  Rows = {r1}
  MaxAttempts = 2
  MaxPosts = 3
  Cap = 1
  Serial = TRUE
  Faults = {"lost", "busy", "refused", "unknown", "aged", "cancel", "abandon"}
  MaxCrashes = 1
INVARIANTS
  KeyPerJob
PROPERTIES
  ImplementsContract
  EveryRowSettles
CHECK_DEADLOCK FALSE
