CONSTANTS
  Session = {s1, s2, s3}
  First = s1
  NoSession = none
  Payload = {media}
  Caller = {c1}
  Attempts = 2
  MaxEmitted = 3
SPECIFICATION FairSpec
CHECK_DEADLOCK FALSE
INVARIANTS
  TypeOK
  LatestSession
  OneEngineTask
  ForwardsAreOrdered
  
PROPERTIES
  LeaseSpec
  EventsSpec
  ReconnectEnds
  CloseEnds
  LeaveCloses
