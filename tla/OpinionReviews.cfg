SPECIFICATION FairSpec
CONSTANTS
  Inputs = {"a", "b"}
  Original = "a"
  MaxRev = 1
  MaxEdit = 0
  MaxAttempts = 1
  Pictures = TRUE
  MaxKills = 1
  Events = {"engines", "approve", "reopen"}
INVARIANTS
  StampedObjectsExist
PROPERTIES
  ApprovedIsKept
  EveryOpinionSettles
CHECK_DEADLOCK FALSE
