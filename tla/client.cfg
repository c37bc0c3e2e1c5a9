SPECIFICATION ClientFairSpec
CONSTANTS
  Ids = {i1, i2, i3}
  NoId = NoId
  AckId = one
  Capacity = 2
  SetNames = 1
INVARIANTS
  HeldOnce
  PendingFirst
  OnlySubscribed
PROPERTY GivenBack
CHECK_DEADLOCK FALSE
