SPECIFICATION FairSpec
CONSTANTS
  i1 = i1
  i2 = i2
  c1 = c1
  c2 = c2
  NoItem = NoItem
  NoCategory = NoCategory
  Item = {i1, i2}
  Category = {c1, c2}
  Asked = {i1}
  NJobs = 1
  MaxRenames = 1
  MaxCrashes = 2
INVARIANT StoresAgree
PROPERTIES EndsWhole EveryJobEnds
CHECK_DEADLOCK FALSE
