SPECIFICATION FairSpec
CONSTANTS
  i1 = i1
  w1 = w1
  w2 = w2
  NoWorker = NoWorker
  Item = {i1}
  Worker = {w1, w2}
  NVersions = 2
  NJobs = 3
INVARIANT TextStands
PROPERTY EndsOnce
CHECK_DEADLOCK FALSE
