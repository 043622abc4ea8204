SPECIFICATION FairSpec
CONSTANTS
  Request = {r1, r2}
  Component <- AllComponents
  DrainTime = 3
  WriteTime = 2
  GraceTime = 2
INVARIANTS
  LTypeOK
  SenderNeverBlocks
  NothingOutlivesShutdown
  CutOnlyAfterGrace
  SocketsEndFirst
  DrainGivesTime
PROPERTIES
  ShutdownReturns
  HubSafety
  ComponentErrorIsFatal
CHECK_DEADLOCK FALSE
