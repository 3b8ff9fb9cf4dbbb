CONSTANTS
  Session = {s1, s2}
  First = s1
  NoSession = none
  Payload = {}
  Closing = {"user", "server", "retry"}
  Track = {t1}
  MaxRounds = 1
  Caller <- MCPub
SPECIFICATION FairFfiSpec
CHECK_DEADLOCK FALSE
INVARIANTS
  FfiTypeOK
  ToldInOrder
PROPERTIES
  RequestsAnswered
  CloseReturns
  ReconnectingEnds
