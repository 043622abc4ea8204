SPECIFICATION LSpec
CONSTANTS
  Source <- TwoSources
  Packet <- PacketDef
  Token <- TokenDef
  MaxTracked = 1
  SpiltLen = 16
  MaxRequests = 2
  CutAt = {19, 23, 24, 36, 55}
INVARIANTS
  ListenerTypeOK
  AttemptsExact
  AnswersAreTrue
  RelayAdmits
  TruncationHarmless
CHECK_DEADLOCK FALSE
