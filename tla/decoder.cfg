SPECIFICATION DecoderFairSpec
CONSTANTS
  Surfaces = {1, 2}
  QueueSize = 2
  Delay = 1
  Widths = {2, 3}
  Align = 2
  MaxPackets = 3
INVARIANTS
  AlwaysRoom
  WaitsOnlyForLeaked
  OutputInOrder
  DrainComplete
  ClosedIsClean
PROPERTIES
  CallReturns
CHECK_DEADLOCK FALSE
