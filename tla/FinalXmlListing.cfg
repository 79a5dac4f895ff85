SPECIFICATION FairSpec
CONSTANTS
  Bodies = {"x", "y"}
  MaxTexts = 2
  MaxRuns = 2
  MaxAttempts = 1
  MaxKills = 1
  Events = {"rewrite", "command", "delete", "s3", "fault"}
INVARIANTS
  WrittenIsCurrent
  SpansFitText
  ObjectIsNamed
PROPERTIES
  ListingSettles
CHECK_DEADLOCK FALSE
