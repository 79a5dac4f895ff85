SPECIFICATION FairSpec
CONSTANTS
  Direct = {u1, u2}
  Classic = {c1}
  Sweepers = {p1, p2}
  Commands = {}
  Events = {"notpdf"}
  MaxKills = 2
PROPERTIES
  GoodFileKept
  QueuedOnce
  EveryUploadEnds
CHECK_DEADLOCK FALSE
