CONSTANTS
  c1 = c1
  c2 = c2
  c3 = c3
  Call = {c1, c3}
  Size <- MCSize
  Thresholds = {0}
  MaxDrops = 1
SPECIFICATION FairChannelSpec
CHECK_DEADLOCK FALSE
PROPERTY LossReconnects
