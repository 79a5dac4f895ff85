SPECIFICATION Spec
CONSTANTS
  Inputs = {"a"}
  Original = "a"
  MaxRev = 1
  MaxEdit = 1
  MaxAttempts = 1
  Pictures = TRUE
  MaxKills = 1
  Events = {"edit", "approve", "rewrite", "reglue", "byhand", "fault", "unpictured"}
INVARIANTS
  TextIsCurrent
PROPERTIES
  PromotedOverLiveStamps
  ApprovedIsWhole
CHECK_DEADLOCK FALSE
