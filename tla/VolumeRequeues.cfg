SPECIFICATION FairSpec
CONSTANTS
  Workers = {w1, w2}
  Shards = {s1}
  MaxInterruptions = 1
  Events = {"raise", "sigterm", "admin"}
  MaxClaims = 5
  MaxKills = 1
  MaxAdmin = 1
INVARIANTS
  ClaimsBounded
PROPERTIES
  EventuallyParked
CHECK_DEADLOCK FALSE
