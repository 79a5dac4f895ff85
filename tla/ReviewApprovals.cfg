SPECIFICATION FairSpec
CONSTANTS
  Workers = {w1}
  MaxAttempts = 1
  Events = {"raise", "reopen", "recompute", "supersede", "requeue"}
  MaxRuns = 4
  MaxEdits = 1
  MaxBoxes = 1
  MaxPresses = 1
  MaxKills = 1
INVARIANTS
  NoChangeMissed
  ApprovedOverReadBoxes
  ReviewOfTheStandingVolume
PROPERTIES
  ApprovedIsMeasured
CHECK_DEADLOCK FALSE
