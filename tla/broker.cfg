SPECIFICATION BrokerSpec
CONSTANTS
  Clients = {c1, c2}
  Channels = {A, B}
  Names = {n1, n2}
  NoName = NoName
  Producers = {p1, p2}
  Ids = {i1, i2}
  Requests <- MCRequests
  Page = 2
  MaxSmemSize = 4
  Limit = 6
  ListMax = 0
  FreeTries = 1
  Timeout = 1
  SizeModulus = 64
  MaxReceivers = 2
  MaxCnt = 2
SYMMETRY Symmetry
INVARIANTS
  WriterAlone
  CountCoversHolders
  CountExact
  Accounted
  LimitRespected
  TablesAgree
  NoAssertionFails
PROPERTIES
  Routed
