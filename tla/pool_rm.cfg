CONSTANTS
  Ids = {i1, i2, i3}
  Requests <- MCRequests
  Page = 2
  MaxSmemSize = 8
  Limit = 4
  ListMax = 1
  FreeTries = 1
  Timeout = 1
  SizeModulus = 64
  MaxReceivers = 2
  MaxCnt = 2
SYMMETRY IdSymmetry
SPECIFICATION PoolRmSpec
INVARIANT LimitRespected
