SPECIFICATION Spec
CONSTANTS
  Ids = {r1}
  Scripts <- Lives
  MaxOrphans = 2
  IncludeBodies = TRUE
  MayExceed = TRUE
CHECK_DEADLOCK FALSE
INVARIANTS
  ExtrasBelongToHop
  NoExtraLost
  Reconciled
  IntakeIsTheCutoff
  NoNeedlessFetch
  NoBodyForgotten
