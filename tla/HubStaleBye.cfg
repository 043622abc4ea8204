SPECIFICATION Spec
CONSTANTS
  Peer = {p1, p2, p3}
  NoPeer = NoPeer
  NoLabel = NoLabel
  p1 = p1
  p2 = p2
  p3 = p3
  SessionId <- OneId
  Label <- OneSpelling
  Lower <- OneLower
  SendBuffer = 3
  NoReceiver = TRUE
  Shutdown = FALSE
  MaxSignals = 0
SYMMETRY Peers
INVARIANTS
  ByeMeansAlone
CHECK_DEADLOCK FALSE
