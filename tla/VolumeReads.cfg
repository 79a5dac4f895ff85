SPECIFICATION ReadsSpec
CONSTANTS
  Workers = {w1}
  Shards = {s1}
  Parts = {p1, p2}
  Hard = {p1}
  MaxInterruptions = 1
  Events = {"raise", "sigterm"}
  MaxClaims = 2
  MaxKills = 1
  MaxAdmin = 0
  Tries = 1
  ReadEvents = {"s3", "press", "reread", "approve", "handback", "fault"}
  MaxPresses = 1
  MaxFails = 1
INVARIANTS
  ParkedIsWhole
  ReviewedIsRead
PROPERTIES
  ReadOnce
  NoThirdRead
CHECK_DEADLOCK FALSE
