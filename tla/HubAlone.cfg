SPECIFICATION FairSpec
CONSTANTS
  Peer = {p1, p2}
  NoPeer = NoPeer
  NoLabel = NoLabel
  p1 = p1
  p2 = p2
  SessionId <- OneId
  Label <- TwoSpellings
  Lower <- SpellingLower
  SendBuffer = 3
  NoReceiver = TRUE
  Shutdown = FALSE
  MaxSignals = 0
PROPERTIES
  AloneIsBounded
CHECK_DEADLOCK FALSE
