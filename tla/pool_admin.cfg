CONSTANTS
  Ids = {i1, i2}
  Requests <- MCRequests
  Page = 2
  MaxSmemSize = 4
  Limit = 6
  ListMax = 0
  FreeTries = 1
  Timeout = 1
  SizeModulus = 16
  MaxReceivers = 2
  MaxCnt = 2
SPECIFICATION PoolFairSpec
INVARIANT CountsMatchState
INVARIANT ListsBounded
PROPERTY UsedComesBack
