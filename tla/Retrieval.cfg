SPECIFICATION Spec
CONSTANTS
  i1 = i1
  i2 = i2
  p1 = p1
  p2 = p2
  p3 = p3
  NoItem = NoItem
  Item = {i1, i2}
  Video = {i2}
  Version = {1, 2, 3}
  Parent = {p1, p2, p3}
  Child = {1, 2, 3, 4}
  ItemOf <- MCItemOf
  VersionOf <- MCVersionOf
  ParentOf <- MCParentOf
  Shown = {1, 3}
  MaxRequests = 1
  Subs = 2
  Depth = 3
  RecallLimit = 1
  RerankCap = 3
  Quota = 1
  MultiTopK = 2
  TopK = 1
  VideoQuota = 1
INVARIANTS NothingLost HitsResolve SidesHeard
CHECK_DEADLOCK FALSE
