SPECIFICATION FairSpec
CONSTANTS
  p1 = p1
  p2 = p2
  k1 = k1
  k2 = k2
  k3 = k3
  v1 = v1
  v2 = v2
  c1 = c1
  c2 = c2
  Procs = {p1, p2}
  Keys = {k1, k2, k3}
  Vals = {v1, v2}
  Chains = {c1, c2}
  None = None
  Blank = Blank
  Hash <- ChainOf
  KeyLen <- OneLength
  ValLen <- DataLength
  Uses <- Mixed
  MaxRecs = 2
INVARIANTS
  DataUnshared
  ChainsAreCurrent
  ListsAreWhole
  ScanIsComplete
PROPERTIES
  Linearizable
  CallsReturn
