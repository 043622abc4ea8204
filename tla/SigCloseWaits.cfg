SPECIFICATION SFairSpec
CONSTANTS
  Peer = {p1}
  NoPeer = NoPeer
  NoLabel = NoLabel
  p1 = p1
  SessionId <- OneId
  Label <- OneSpelling
  Lower <- OneLower
  SendBuffer = 1
  NoReceiver = FALSE
  Shutdown = TRUE
  MaxSignals = 0
  Pings = FALSE
PROPERTIES
  CloseWaitsForAll
CHECK_DEADLOCK FALSE
