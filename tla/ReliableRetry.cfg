CONSTANTS
  c1 = c1
  c2 = c2
  c3 = c3
  Call = {c1, c2, c3}
  Size <- MCSize
  Thresholds = {1}
  MaxDrops = 1
SPECIFICATION ChannelSpec
CHECK_DEADLOCK FALSE
INVARIANT NothingForgotten
