SPECIFICATION SharedNamesSpec
CONSTANTS
  Clients = {c1, c2}
  Channels = {A, B, C, D}
  Names = {n1, n2}
  NoName = NoName
SYMMETRY Symmetry
INVARIANT NoAssertionFails
