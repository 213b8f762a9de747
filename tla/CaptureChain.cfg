SPECIFICATION FairSpec
CONSTANTS
  Ids = {r1}
  Scripts <- Lives
  MaxOrphans = 2
  IncludeBodies = TRUE
  MayExceed = TRUE
  Workers = {w1}
  QueueSize = 1
CHECK_DEADLOCK FALSE
INVARIANTS
  BodyBelongsToHop
  CutoffSurvivesBuffering
  NoPartialArchive
  ArchiveIsHonest
PROPERTIES
  NothingAfterStop
  ImplementsRecorder
  Termination
