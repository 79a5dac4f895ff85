SPECIFICATION FairSpec
CONSTANTS
  Rows = {r1}
  MaxAttempts = 2
  MaxPosts = 3
  Cap = 1
  Serial = TRUE
  Faults = {"busy", "refused", "throttled", "listing", "unpolled", "unstored", "broken", "db", "abandon"}
  MaxStops = 1
INVARIANTS
  FilesAreNamed
PROPERTIES
  ImplementsContract
  PagesGo
  EveryRowSettles
CHECK_DEADLOCK FALSE
