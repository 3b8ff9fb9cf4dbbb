CONSTANTS
  Session = {s1, s2}
  First = s1
  NoSession = none
  Payload = {}
  Closing = {"user", "server", "retry"}
  Track = {t1}
  MaxRounds = 2
  Caller <- MCPub
SPECIFICATION FfiSpec
CHECK_DEADLOCK FALSE
INVARIANT WaitIsShort
