SPECIFICATION ClientSpec
CONSTANTS
  Ids = {i1, i2}
  NoId = NoId
  AckId = one
  Capacity = 2
  SetNames = 0
INVARIANT OnlyPublished
CHECK_DEADLOCK FALSE
