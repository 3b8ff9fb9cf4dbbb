CONSTANTS
  Session = {s1, s2}
  First = s1
  NoSession = none
  Payload = {media}
  Caller = {c1}
  Attempts = 2
  MaxEmitted = 1
SPECIFICATION Spec
CHECK_DEADLOCK FALSE
PROPERTY CloseCancelsReconnection
