SPECIFICATION FairSpec
CONSTANTS
  Rows = {r1, r2}
  MaxAttempts = 2
  MaxPosts = 0
  Cap = 2
  Serial = FALSE
  Faults = {"unanswered", "refused", "s3", "dies", "abandon"}
  MaxCrashes = 1
PROPERTIES
  ImplementsContract
  LateResultWins
  EveryRowSettles
  OneConversion
CHECK_DEADLOCK FALSE
