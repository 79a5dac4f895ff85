SPECIFICATION EditsSpec
CONSTANTS
  PageCount = 2
  Turns = {90}
  Kinds = {"delete", "rotate", "replace", "move", "insert"}
  LateKinds = {"delete", "replace", "insert"}
  UploadPages = {2}
  EditEvents = {"raise", "kill", "reopen", "supersede", "lost"}
  MaxAttempts = 1
  MaxRows = 2
  MaxRuns = 2
  MaxBoxes = 1
INVARIANTS
  VolumeIsTheDecision
  ViewerShowsThePlan
  BoxesKeepTheirPage
CHECK_DEADLOCK FALSE
