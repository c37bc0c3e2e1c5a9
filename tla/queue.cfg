SPECIFICATION QueueFairSpec
CONSTANTS
  Values = {v1, v2, v3}
  NoValue = NoValue
  N = 4
INVARIANTS
  NoSlotShared
PROPERTIES
  IsFifo
  FullMakesRoom
