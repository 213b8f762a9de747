SPECIFICATION Spec
CONSTANTS
  Ids = {r1, r2}
  Scripts <- TwoLives
  MaxOrphans = 1
  IncludeBodies = FALSE
  MayExceed = FALSE
CHECK_DEADLOCK FALSE
INVARIANT ExtrasNeverShift
