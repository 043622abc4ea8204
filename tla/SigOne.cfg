SPECIFICATION SFairSpec
CONSTANTS
  Peer = {p1}
  NoPeer = NoPeer
  NoLabel = NoLabel
  p1 = p1
  SessionId <- OneId
  Label <- OneSpelling
  Lower <- OneLower
  SendBuffer = 1
  NoReceiver = TRUE
  Shutdown = TRUE
  MaxSignals = 1
  Pings = TRUE
INVARIANTS
  WaitsAreJustified
PROPERTIES
  SilentClientIsClosed
  EndedConnectionReturns
  CloseReturns
CHECK_DEADLOCK FALSE
