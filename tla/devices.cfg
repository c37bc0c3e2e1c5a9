SPECIFICATION DevicesSpec
CONSTANTS
  Ids = {m1, m2}
  Streams = {0, 1}
  Raw = {0}
  should_duration <- Durations
  RangeFactor = 1
  ClampFactor = 2
  MaxQueue = 2
  MaxTs = 3
  MaxFrames = 5
SYMMETRY Symmetry
INVARIANTS
  DataIntact
  NothingForgotten
  BaseFollowed
PROPERTIES
  NeverBackwards
CHECK_DEADLOCK FALSE
