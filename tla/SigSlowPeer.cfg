SPECIFICATION SlowSpec
CONSTANTS
  Peer = {p1, p2}
  NoPeer = NoPeer
  NoLabel = NoLabel
  p1 = p1
  p2 = p2
  SessionId <- OneId
  Label <- OneSpelling
  Lower <- OneLower
  SendBuffer = 1
  NoReceiver = FALSE
  Shutdown = FALSE
  MaxSignals = 0
  Pings = FALSE
PROPERTIES
  SlowPeerIsClosed
CHECK_DEADLOCK FALSE
