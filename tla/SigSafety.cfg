SPECIFICATION SSpec
CONSTANTS
  Peer = {p1, p2}
  NoPeer = NoPeer
  NoLabel = NoLabel
  p1 = p1
  p2 = p2
  SessionId <- OneId
  Label <- OneSpelling
  Lower <- OneLower
  SendBuffer = 1
  NoReceiver = FALSE
  Shutdown = TRUE
  MaxSignals = 1
  Pings = TRUE
SYMMETRY Peers
INVARIANTS
  STypeOK
  SoleWriter
  NothingLeftBehind
  SlotOutlivesSocket
  ShutdownLeavesNothing
PROPERTIES
  WaitIsComplete
CHECK_DEADLOCK FALSE
