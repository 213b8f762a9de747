SPECIFICATION CaptureSpec
CONSTANTS
  Ids = {r1, r2, r3}
  Scripts <- SimpleLives
  MaxOrphans = 1
  IncludeBodies = TRUE
  MayExceed = FALSE
  Workers = {w1}
  QueueSize = 1
SYMMETRY Alike
CHECK_DEADLOCK FALSE
INVARIANTS
  TasksAccounted
  NoSilentlyMissingBody
