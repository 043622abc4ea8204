SPECIFICATION Spec
CONSTANTS
  Peer = {p1, p2, p3}
  NoPeer = NoPeer
  NoLabel = NoLabel
  p1 = p1
  p2 = p2
  p3 = p3
  s1 = s1
  s2 = s2
  SessionId = {s1, s2}
  Label = {s1, s2}
  Lower <- LowerIds
  SendBuffer = 2
  NoReceiver = TRUE
  Shutdown = TRUE
  MaxSignals = 0
SYMMETRY PeersAndIds
INVARIANTS
  TypeOK
  NoStalePeer
  ReadySentIffPaired
  SessionsExact
  TimerGuardsLoneDevice
  DepartureIsAnnounced
  OrphanIsBeingClosed
  NobodyStuck
PROPERTIES
  EvictionHasCause
  ReadyWhenPaired
  PairingSafety
CHECK_DEADLOCK FALSE
