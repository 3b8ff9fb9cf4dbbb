CONSTANTS
  Caller = {p1, p2, p3}
  Candidate = {ice}
  MaxLosses = 1
  MaxFailures = 1
SPECIFICATION FairSpec
CHECK_DEADLOCK FALSE
INVARIANTS
  NegotiationInv
  OneOfferUnanswered
  PendingFlushed
  RequestAccounted
PROPERTIES
  NegotiationsDoNotOverlap
  NegotiationEnds
