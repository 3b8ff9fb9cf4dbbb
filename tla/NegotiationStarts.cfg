CONSTANTS
  Caller = {p1, p2}
  Candidate = {ice}
  MaxLosses = 0
  MaxFailures = 0
SPECIFICATION FairSpec
CHECK_DEADLOCK FALSE
PROPERTY NegotiationStarts
